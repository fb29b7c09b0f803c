---------------------------- MODULE Tools_proofs ----------------------------
(***************************************************************************)
(* What Tools proves of the tools over live engines, for every list of     *)
(* passes, every set of bugs, every corpus, any statements and any number  *)
(* of callers: the verdict of a bisection is exact and the passes are on   *)
(* again behind it; a pass the sweep names did it alone, on the database   *)
(* of the moment; two oracles count every record once; and a thread that   *)
(* runs DuckDB is answered with what its own statement came to, and cleans *)
(* up behind itself.  Last, a run that is written down and read back, by   *)
(* any process and cut anywhere, says no more than the run did, and what   *)
(* is added up of such runs is the sum of them.                            *)
(*                                                                         *)
(* One tool is at work and the others stay where they are, so the          *)
(* invariant is one of each tool's, and a step keeps it when the step of a *)
(* tool keeps its own.                                                     *)
(***************************************************************************)
EXTENDS Tools, FiniteSetTheorems, WellFoundedInduction, TLAPS

-----------------------------------------------------------------------------
(***************************************************************************)
(* bisect.  The invariant says how far the search is: the passes found so  *)
(* far are those before the one asked for that give the right answer when  *)
(* they alone are off, and the last step is only reached with none.        *)
(***************************************************************************)
\* The passes that put the answer right on their own, of the first so many.
Helping(n) == {Passes[k] : k \in {j \in 1..n : ~TheBisect!Wrong({Passes[j]})}}

Searching == bisect_at \in {"set", "run", "reset"}

BisectPlaces == {"first", "set", "run", "reset", "failed", "agree", "panicked", "done"}

BisectTypeInv ==
  /\ culprits \subseteq SUBSET TheBisect!Named
  /\ writes \in BOOLEAN
  /\ bisect_at \in BisectPlaces
  /\ asking \in Nat
  /\ times \in Nat

\* The setting is on for the length of one statement.
SetInv ==
  /\ bisect_at = "first" => off = {} /\ times = 0
  /\ bisect_at \in {"run", "reset"} => off = TheBisect!Target
  /\ bisect_at = "reset" => got # TheBisect!NoAnswer
  /\ TheBisect!SettingPutBack

\* A statement that only reads answers the same every time it is asked.
AnswerInv ==
  ~writes /\ bisect_at = "reset" /\ got # "broken" =>
    (got = "right" <=> ~TheBisect!Wrong(TheBisect!Target))

SearchInv ==
  /\ bisect_at = "first" => asking = 0 /\ found = {}
  /\ Searching => asking \in 1..(Len(Passes) + 1)
  /\ ~writes /\ Searching => found = Helping(asking - 1) /\ TheBisect!Wrong({})
  /\ ~writes /\ Searching /\ asking = Len(Passes) + 1 => found = {}

BlameInv ==
  /\ blame # TheBisect!Unblamed => bisect_at = "done"
  /\ TheBisect!BlameIsExact

BisectInv == BisectTypeInv /\ SetInv /\ AnswerInv /\ SearchInv /\ BlameInv

\* The passes found by the end are those that every culprit needs.
LEMMA HelpingAreNeeded ==
  ASSUME culprits \subseteq SUBSET TheBisect!Named
  PROVE  Helping(Len(Passes)) = {p \in TheBisect!Named : \A c \in culprits : p \in c}
<1>1. TheBisect!Named = {Passes[k] : k \in 1..Len(Passes)}
  BY ToolsAssumption DEF ToolsAssumption, TheBisect!Named, TheBisect!Range
<1>2. \A p : (~TheBisect!Wrong({p})) <=> \A c \in culprits : p \in c
  BY DEF TheBisect!Wrong
<1> QED BY <1>1, <1>2 DEF Helping

\* One more pass looked at.
LEMMA HelpingGrows ==
  ASSUME NEW n \in Nat \ {0}
  PROVE  Helping(n) = IF TheBisect!Wrong({Passes[n]}) THEN Helping(n - 1)
                      ELSE Helping(n - 1) \cup {Passes[n]}
<1>1. 1..n = (1..(n - 1)) \cup {n}
  OBVIOUS
<1> QED BY <1>1 DEF Helping

LEMMA BisectInitHolds == ASSUME TheBisect!Init PROVE BisectInv
  BY DEF TheBisect!Init, TheBisect!Begin, BisectInv, BisectTypeInv, SetInv, AnswerInv, SearchInv, BlameInv, BisectPlaces, Searching,
         TheBisect!SettingPutBack, TheBisect!BlameIsExact

\* rudb is asked with its passes as they are.
LEMMA AskFirstKeeps ==
  ASSUME BisectInv, TheBisect!AskFirst
  PROVE  BisectInv'
<1> USE ToolsAssumption DEF ToolsAssumption, BisectInv, BisectTypeInv, SetInv, AnswerInv, SearchInv, BlameInv
<1>1. /\ bisect_at = "first" /\ off = {} /\ times = 0 /\ asking = 0 /\ found = {}
      /\ UNCHANGED <<culprits, writes, off, found, blame>>
      /\ times' = 1 /\ got' \in {"right", "wrong", "broken"}
      /\ got' = "wrong" => TheBisect!Wrong({})
      /\ blame = TheBisect!Unblamed
  <2>1. bisect_at = "first" /\ off = {} /\ times = 0 /\ asking = 0 /\ found = {} /\ blame = TheBisect!Unblamed
    BY DEF TheBisect!AskFirst
  <2>2. TheBisect!Answer = IF TheBisect!Wrong({}) THEN "wrong" ELSE "right"
    BY <2>1 DEF TheBisect!Answer
  <2> QED BY <2>1, <2>2 DEF TheBisect!AskFirst, TheBisect!RunStatement
<1>2. /\ bisect_at' \in {"failed", "agree", "set"}
      /\ bisect_at' = "set" => got' = "wrong" /\ asking' = 1
      /\ bisect_at' # "set" => asking' = 0
      /\ bisect_at' = "failed" => got' = "broken"
  BY <1>1 DEF TheBisect!AskFirst
<1>3. Helping(0)' = {}
  BY DEF Helping
<1>4. BisectTypeInv' /\ AnswerInv' /\ BlameInv'
  BY <1>1, <1>2 DEF BisectPlaces, TheBisect!BlameIsExact
<1>5. SetInv'
  BY <1>1, <1>2 DEF TheBisect!SettingPutBack, TheBisect!NoAnswer
<1>6. SearchInv'
  <2>1. Len(Passes) \in Nat
    OBVIOUS
  <2>2. TheBisect!Wrong({})' = TheBisect!Wrong({})
    BY <1>1 DEF TheBisect!Wrong
  <2> QED BY <1>1, <1>2, <1>3, <2>1, <2>2 DEF Searching
<1> QED BY <1>4, <1>5, <1>6

\* A pass is turned off, or the engine will not have it.
LEMMA SettingKeeps ==
  ASSUME BisectInv, TheBisect!Set \/ TheBisect!Refuse \/ TheBisect!Panic
  PROVE  BisectInv'
<1> USE ToolsAssumption DEF ToolsAssumption, BisectInv, BisectTypeInv, SetInv, AnswerInv, SearchInv, BlameInv
<1>1. /\ UNCHANGED <<culprits, writes, asking, got, found, blame, times>>
      /\ Searching
      /\ bisect_at' \in {"run", "failed", "panicked"}
      /\ bisect_at' = "run" => off' = TheBisect!Target
      /\ bisect_at' # "run" => off' = off
      /\ bisect_at' = "failed" => bisect_at \in {"set", "reset"}
  BY DEF TheBisect!Set, TheBisect!Refuse, TheBisect!Panic, Searching
<1>2. TheBisect!Target' = TheBisect!Target
  BY <1>1 DEF TheBisect!Target
<1>3. BisectTypeInv' /\ AnswerInv' /\ BlameInv'
  BY <1>1 DEF BisectPlaces, TheBisect!BlameIsExact, Searching
<1>4. SetInv'
  BY <1>1, <1>2 DEF TheBisect!SettingPutBack
<1>5. SearchInv'
  BY <1>1 DEF Searching, Helping, TheBisect!Wrong
<1> QED BY <1>3, <1>4, <1>5

\* The statement is run under the setting.
LEMMA RunStatementKeeps ==
  ASSUME BisectInv, TheBisect!Run
  PROVE  BisectInv'
<1> USE ToolsAssumption DEF ToolsAssumption, BisectInv, BisectTypeInv, SetInv, AnswerInv, SearchInv, BlameInv
<1>1. /\ UNCHANGED <<culprits, writes, asking, off, found, blame>>
      /\ bisect_at = "run" /\ bisect_at' = "reset" /\ off = TheBisect!Target
      /\ times' = times + 1
      /\ got' \in {TheBisect!Answer, "broken"}
  BY DEF TheBisect!Run, TheBisect!RunStatement
<1>2. got' \in {"right", "wrong", "broken"}
  BY <1>1 DEF TheBisect!Answer
<1>3. TheBisect!Target' = TheBisect!Target /\ \A t : TheBisect!Wrong(t)' = TheBisect!Wrong(t)
  BY <1>1 DEF TheBisect!Target, TheBisect!Wrong
<1>4. BisectTypeInv' /\ BlameInv'
  <2>1. blame' = TheBisect!Unblamed
    BY <1>1
  <2> QED BY <1>1, <2>1 DEF BisectPlaces, TheBisect!BlameIsExact, TheBisect!Unblamed
<1>5. SetInv'
  BY <1>1, <1>2, <1>3 DEF TheBisect!SettingPutBack, TheBisect!NoAnswer
<1>6. AnswerInv'
  <2>1. TheBisect!Wrong(TheBisect!Target)' = TheBisect!Wrong(TheBisect!Target)
    BY <1>1 DEF TheBisect!Target, TheBisect!Wrong
  <2> QED BY <1>1, <2>1 DEF TheBisect!Answer
<1>7. SearchInv'
  BY <1>1 DEF Searching, Helping, TheBisect!Wrong
<1> QED BY <1>4, <1>5, <1>6, <1>7

\* The answer is looked at, with the passes on again.
LEMMA SettingResetKeeps ==
  ASSUME BisectInv, TheBisect!Reset
  PROVE  BisectInv'
<1> USE ToolsAssumption DEF ToolsAssumption, BisectInv, BisectTypeInv, SetInv, AnswerInv, SearchInv, BlameInv
<1> DEFINE n == Len(Passes)
<1>1. /\ UNCHANGED <<culprits, writes, times>>
      /\ bisect_at = "reset" /\ off = TheBisect!Target /\ off' = {} /\ got' = TheBisect!NoAnswer
      /\ asking \in 1..(n + 1) /\ n \in Nat
      /\ blame = TheBisect!Unblamed
  BY DEF TheBisect!Reset, Searching
<1>2. Helping(asking - 1)' = Helping(asking' - 1) /\ TheBisect!Wrong({})' = TheBisect!Wrong({})
  BY <1>1 DEF Helping, TheBisect!Wrong
<1>3. CASE got = "broken"
  <2>1. bisect_at' = "failed" /\ UNCHANGED <<asking, found, blame>>
    BY <1>3 DEF TheBisect!Reset
  <2>2. blame' = TheBisect!Unblamed
    BY <1>1, <2>1
  <2>3. BisectTypeInv' /\ AnswerInv' /\ BlameInv'
    BY <1>1, <2>1, <2>2 DEF BisectPlaces, TheBisect!BlameIsExact
  <2>4. SetInv' /\ SearchInv'
    BY <1>1, <2>1 DEF TheBisect!SettingPutBack, Searching
  <2> QED BY <2>3, <2>4
<1>4. CASE got # "broken" /\ asking <= n
  <2> DEFINE now == IF got = "right" THEN found \cup {Passes[asking]} ELSE found
  <2>1. /\ found' = now
        /\ IF asking = n /\ now # {}
             THEN blame' = [who |-> "passes", names |-> now] /\ bisect_at' = "done" /\ asking' = asking
             ELSE asking' = asking + 1 /\ bisect_at' = "set" /\ blame' = blame
    BY <1>4 DEF TheBisect!Reset, TheBisect!Conclude
  <2>2. ~writes => now = Helping(asking) /\ TheBisect!Wrong({})
    <3>1. ~writes => (got = "right" <=> ~TheBisect!Wrong({Passes[asking]}))
      BY <1>1, <1>4 DEF TheBisect!Target
    <3>2. asking \in Nat \ {0} /\ (~writes => found = Helping(asking - 1) /\ TheBisect!Wrong({}))
      BY <1>1 DEF Searching
    <3> HIDE DEF SearchInv, BisectInv, AnswerInv
    <3> QED BY <3>1, <3>2, HelpingGrows
  <2>3. CASE asking = n /\ now # {}
    <3>1. blame' = [who |-> "passes", names |-> now] /\ bisect_at' = "done" /\ asking' = asking
      BY <2>1, <2>3
    <3>2. ~writes => now = {p \in TheBisect!Named : \A c \in culprits : p \in c}
      BY <2>2, <2>3, HelpingAreNeeded
    <3>3. TheBisect!BlameIsExact'
      BY <1>1, <2>3, <3>1, <3>2 DEF TheBisect!BlameIsExact
    <3>4. BisectTypeInv' /\ AnswerInv' /\ SetInv' /\ SearchInv'
      BY <1>1, <3>1 DEF BisectPlaces, TheBisect!SettingPutBack, Searching
    <3> QED BY <3>1, <3>3, <3>4
  <2>4. CASE ~(asking = n /\ now # {})
    <3>1. asking' = asking + 1 /\ bisect_at' = "set" /\ blame' = TheBisect!Unblamed
      BY <1>1, <2>1, <2>4
    <3>2. BisectTypeInv' /\ AnswerInv' /\ SetInv' /\ BlameInv'
      BY <1>1, <3>1 DEF BisectPlaces, TheBisect!SettingPutBack, TheBisect!BlameIsExact
    <3>3. ~writes => found' = Helping(asking' - 1) /\ TheBisect!Wrong({})
      <4>1. asking' - 1 = asking
        BY <1>1, <3>1
      <4> QED BY <2>1, <2>2, <4>1
    <3>4. asking' = n + 1 => found' = {}
      BY <1>1, <1>4, <2>1, <2>4, <3>1
    <3>5. SearchInv'
      BY <1>1, <1>2, <1>4, <3>1, <3>3, <3>4 DEF Searching
    <3> QED BY <3>2, <3>5
  <2> QED BY <2>3, <2>4
<1>5. CASE got # "broken" /\ ~(asking <= n)
  <2>1. /\ blame' = [who |-> IF got = "right" THEN "together" ELSE "elsewhere"]
        /\ bisect_at' = "done" /\ UNCHANGED <<found, asking>>
    BY <1>5 DEF TheBisect!Reset, TheBisect!Conclude
  <2>2. asking = n + 1
    BY <1>1, <1>5
  <2>3. ~writes => {p \in TheBisect!Named : \A c \in culprits : p \in c} = {}
    <3>1. ~writes => Helping(n) = {}
      BY <1>1, <2>2 DEF Searching
    <3> QED BY <3>1, HelpingAreNeeded
  <2>4. ~writes => (got = "right" <=> ~TheBisect!Wrong(TheBisect!Named))
    BY <1>1, <1>5, <2>2 DEF TheBisect!Target
  <2>5. TheBisect!Wrong(TheBisect!Named) <=> {} \in culprits
    <3>1. \A c \in culprits : c \cap TheBisect!Named = c
      OBVIOUS
    <3> QED BY <3>1 DEF TheBisect!Wrong
  <2>6. TheBisect!BlameIsExact'
    BY <1>1, <2>1, <2>3, <2>4, <2>5, ZenonT(60) DEF TheBisect!BlameIsExact
  <2>7. BisectTypeInv' /\ AnswerInv' /\ SetInv' /\ SearchInv'
    BY <1>1, <2>1 DEF BisectPlaces, TheBisect!SettingPutBack, Searching
  <2> QED BY <2>1, <2>6, <2>7
<1> QED BY <1>3, <1>4, <1>5

LEMMA BisectingKeeps == ASSUME BisectInv, TheBisect!Next PROVE BisectInv'
  BY AskFirstKeeps, SettingKeeps, RunStatementKeeps, SettingResetKeeps DEF TheBisect!Next

\* Another tool is at work.
LEMMA BisectStays == ASSUME BisectInv, UNCHANGED bisectVars PROVE BisectInv'
  BY DEF bisectVars, BisectInv, BisectTypeInv, SetInv, AnswerInv, SearchInv, BlameInv,
         TheBisect!SettingPutBack, TheBisect!BlameIsExact, Searching, Helping,
         TheBisect!Wrong, TheBisect!Target
-----------------------------------------------------------------------------
(***************************************************************************)
(* sweep.  What is off in front of a line follows from the lines before it *)
(* and from the run alone, so what a run has failed so far is a matter of  *)
(* the corpus, and a failure that is not the doing of the run's own passes *)
(* is the baseline's as well.                                              *)
(***************************************************************************)
\* The lines of a file before line i that set the passes and nothing after them did
\* or undid: there is one at most.
SetBefore(script, i) ==
  {j \in 1..(i - 1) :
     /\ script[j].kind = "set"
     /\ \A k \in (j + 1)..(i - 1) : script[k].kind \notin {"set", "fresh"}}

\* The passes that are off in front of that line in run r.
OffBefore(r, script, i) ==
  IF SetBefore(script, i) = {} THEN TheSweep!Own(r) ELSE UNION {script[j].passes : j \in SetBefore(script, i)}

FailsAt(r, script, i) ==
  /\ script[i].kind = "record"
  /\ \E c \in script[i].culprits : c \cap OffBefore(r, script, i) = {}

\* Line i of file f has been looked at in run r.
LookedAt(r, f, i) == r < sweep_run \/ (r = sweep_run /\ (f < file \/ (f = file /\ i < line)))

PlaceInv ==
  /\ corpus \in Corpora
  /\ sweep_run \in 0..(Len(Order) + 1)
  /\ file \in 0..Len(corpus)
  /\ file > 0 => line \in 1..(Len(corpus[file]) + 1)
  /\ DOMAIN failures = TheSweep!Runs

EngineInv ==
  /\ sweep_run \in TheSweep!Runs =>
       /\ optimizer \in {"off"} \cup Optimizers
       /\ TheSweep!TurnedOff(optimizer) = TheSweep!Own(sweep_run)
  /\ sweep_run \in TheSweep!Runs /\ file > 0 => disabled = OffBefore(sweep_run, corpus[file], line)

\* What a run has failed is every line it looked at that fails in it.
FailuresInv ==
  \A r \in TheSweep!Runs :
    /\ \A at \in failures[r] : at = <<at[1], at[2]>>
    /\ \A f \in DOMAIN corpus : \A l :
         <<f, l>> \in failures[r] <=>
           \E i \in DOMAIN corpus[f] :
             LookedAt(r, f, i) /\ FailsAt(r, corpus[f], i) /\ l = corpus[f][i].line

\* A failure under passes that were not the run's own was behind a line that set them.
CompanyInv ==
  \A x \in company :
    \E r \in TheSweep!Runs : \E f \in DOMAIN corpus : \E i \in DOMAIN corpus[f] :
      /\ LookedAt(r, f, i) /\ FailsAt(r, corpus[f], i)
      /\ SetBefore(corpus[f], i) # {}
      /\ x = <<r, f, corpus[f][i].line>>

\* Every connection that is open is to the database that is open.
ConnectionInv ==
  /\ database \in Nat \ {0}
  /\ current \in {TheSweep!None, database}
  /\ named \in [Connections -> {TheSweep!None, database}]
  /\ stale = {}

SweepInv ==
  /\ ConnectionInv
  /\ IF tool = "sweep" THEN PlaceInv /\ EngineInv /\ FailuresInv /\ CompanyInv ELSE sweep_run = 0

\* A corpus is files, and a file is lines.
LEMMA CorpusShape ==
  ASSUME NEW c \in Corpora
  PROVE  /\ Len(c) \in Nat /\ DOMAIN c = 1..Len(c)
         /\ \A f \in DOMAIN c :
              /\ c[f] \in Seq(CorpusLines) /\ Len(c[f]) \in Nat /\ DOMAIN c[f] = 1..Len(c[f])
              /\ \A i \in DOMAIN c[f] : c[f][i] \in CorpusLines
<1>1. c \in Seq(Seq(CorpusLines))
  BY ToolsAssumption DEF ToolsAssumption
<1>2. \A f \in DOMAIN c : c[f] \in Seq(CorpusLines)
  BY <1>1
<1> QED BY <1>1, <1>2

\* What is off in front of the next line.
LEMMA OffAfter ==
  ASSUME NEW r, NEW script, NEW i \in Nat \ {0}
  PROVE  /\ OffBefore(r, script, 1) = TheSweep!Own(r)
         /\ script[i].kind = "set" => OffBefore(r, script, i + 1) = script[i].passes
         /\ script[i].kind = "fresh" => OffBefore(r, script, i + 1) = TheSweep!Own(r)
         /\ script[i].kind \notin {"set", "fresh"} =>
              OffBefore(r, script, i + 1) = OffBefore(r, script, i)
<1>1. SetBefore(script, 1) = {}
  BY DEF SetBefore
<1>2. ASSUME script[i].kind \in {"set", "fresh"}
      PROVE  SetBefore(script, i + 1) = IF script[i].kind = "set" THEN {i} ELSE {}
  <2>1. \A j \in 1..i : j # i => i \in (j + 1)..i
    OBVIOUS
  <2>2. (i + 1) - 1 = i /\ i \in 1..i /\ (i + 1)..i = {}
    OBVIOUS
  <2> QED BY <1>2, <2>1, <2>2 DEF SetBefore
<1>3. ASSUME script[i].kind \notin {"set", "fresh"}
      PROVE  SetBefore(script, i + 1) = SetBefore(script, i)
  <2>1. (i + 1) - 1 = i /\ \A j \in 1..(i - 1) : (j + 1)..i = ((j + 1)..(i - 1)) \cup {i}
    OBVIOUS
  <2>2. 1..i = (1..(i - 1)) \cup {i}
    OBVIOUS
  <2> QED BY <1>3, <2>1, <2>2 DEF SetBefore
<1>4. script[i].kind = "set" => UNION {script[j].passes : j \in {i}} = script[i].passes
  OBVIOUS
<1> QED BY <1>1, <1>2, <1>3, <1>4 DEF OffBefore

\* One line on: the failures so far when nothing failed, and one more when it did.
LEMMA OneLineOn ==
  ASSUME PlaceInv, sweep_run \in TheSweep!Runs, file > 0, line <= Len(corpus[file]),
         UNCHANGED <<corpus, sweep_run, file>>, line' = line + 1,
         NEW r \in TheSweep!Runs, NEW f \in DOMAIN corpus, NEW i \in DOMAIN corpus[f]
  PROVE  LookedAt(r, f, i)' <=> LookedAt(r, f, i) \/ (r = sweep_run /\ f = file /\ i = line)
<1>1. i \in Nat /\ line \in Nat /\ sweep_run \in Nat /\ r \in Nat /\ f \in Nat /\ file \in Nat
  BY CorpusShape, SMTT(30) DEF PlaceInv, TheSweep!Runs
<1> QED BY <1>1 DEF LookedAt

\* The connections, whatever the sweep does.
LEMMA ConnectionsKeep == ASSUME ConnectionInv, TheSweep!Next PROVE ConnectionInv'
<1> USE DEF ConnectionInv, TheSweep!None
<1>1. CASE TheSweep!NextFile
  BY <1>1 DEF TheSweep!NextFile, TheSweep!Reset
<1>2. CASE TheSweep!Obey
  BY <1>2 DEF TheSweep!Obey, TheSweep!Disable, TheSweep!Reset, TheSweep!Reconnect
<1>3. CASE TheSweep!Record
  <2> DEFINE on == TheSweep!Here.on
  <2>1. /\ database' = database /\ current' = current
        /\ named' = named \/ (on \in Connections /\
                              named' = [named EXCEPT ![on] = IF @ = 0 THEN database ELSE @])
    BY <1>3 DEF TheSweep!Record, TheSweep!RunOn, TheSweep!RunUnnamed, TheSweep!driverVars
  <2>2. named' \in [Connections -> {0, database}]
    BY <2>1
  <2>3. TheSweep!Reached(IF on \in Connections THEN named[on] ELSE current) = database
    BY DEF TheSweep!Reached
  <2>4. stale' = stale
    BY <1>3, <2>3 DEF TheSweep!Record
  <2> QED BY <2>1, <2>2, <2>4
<1>4. CASE TheSweep!NextRun
  BY <1>4 DEF TheSweep!NextRun, TheSweep!Opened, TheSweep!driverVars
<1> QED BY <1>1, <1>2, <1>3, <1>4 DEF TheSweep!Next

SweepingInv == PlaceInv /\ EngineInv /\ FailuresInv /\ CompanyInv

\* A step after which the same lines have been looked at, and no more has failed.
LEMMA NothingFailed ==
  ASSUME FailuresInv, CompanyInv, UNCHANGED <<corpus, failures, company>>,
         \A r \in TheSweep!Runs : \A f \in DOMAIN corpus : \A i \in DOMAIN corpus[f] :
           FailsAt(r, corpus[f], i) => (LookedAt(r, f, i)' <=> LookedAt(r, f, i))
  PROVE  FailuresInv' /\ CompanyInv'
<1>1. FailuresInv'
  <2> SUFFICES ASSUME NEW r \in TheSweep!Runs, NEW f \in DOMAIN corpus, NEW l
               PROVE  <<f, l>> \in failures[r] <=>
                        \E i \in DOMAIN corpus[f] :
                          LookedAt(r, f, i)' /\ FailsAt(r, corpus[f], i) /\ l = corpus[f][i].line
    BY DEF FailuresInv
  <2> QED BY DEF FailuresInv
<1>2. CompanyInv'
  <2> SUFFICES ASSUME NEW x \in company
               PROVE  \E r \in TheSweep!Runs : \E f \in DOMAIN corpus : \E i \in DOMAIN corpus[f] :
                        /\ LookedAt(r, f, i)' /\ FailsAt(r, corpus[f], i)
                        /\ SetBefore(corpus[f], i) # {}
                        /\ x = <<r, f, corpus[f][i].line>>
    BY DEF CompanyInv
  <2> QED BY DEF CompanyInv
<1> QED BY <1>1, <1>2

\* The next file, on an empty database with the run's passes off.
LEMMA NextFileKeeps == ASSUME SweepingInv, TheSweep!NextFile PROVE SweepingInv'
<1> USE DEF SweepingInv
<1>1. /\ UNCHANGED <<corpus, sweep_run, failures, company, optimizer>>
      /\ sweep_run \in TheSweep!Runs /\ file < Len(corpus) /\ file' = file + 1 /\ line' = 1
      /\ file > 0 => line > Len(corpus[file])
      /\ disabled' = TheSweep!TurnedOff(optimizer)
  BY DEF TheSweep!NextFile, TheSweep!Reset
<1>2. corpus \in Corpora /\ file \in Nat /\ sweep_run \in Nat /\ Len(corpus) \in Nat
  BY CorpusShape DEF PlaceInv
<1>3. PlaceInv'
  <2>1. file' \in 1..Len(corpus) /\ Len(corpus[file']) \in Nat
    BY <1>1, <1>2, CorpusShape
  <2> QED BY <1>1, <2>1 DEF PlaceInv
<1>4. EngineInv'
  <2>1. OffBefore(sweep_run, corpus[file'], 1) = TheSweep!Own(sweep_run)
    BY OffAfter
  <2>2. TheSweep!TurnedOff(optimizer') = TheSweep!TurnedOff(optimizer)
    BY <1>1
  <2>3. disabled' = OffBefore(sweep_run', corpus'[file'], line')
    BY <1>1, <2>1 DEF EngineInv
  <2> QED BY <1>1, <2>2, <2>3 DEF EngineInv
<1>5. ASSUME NEW r \in TheSweep!Runs, NEW f \in DOMAIN corpus, NEW i \in DOMAIN corpus[f]
      PROVE  LookedAt(r, f, i)' <=> LookedAt(r, f, i)
  <2>1. f \in Nat /\ i \in Nat /\ i > 0 /\ i <= Len(corpus[f]) /\ r \in Nat /\ f > 0
    BY <1>2, CorpusShape DEF TheSweep!Runs
  <2>2. f = file => i < line
    BY <1>1, <2>1, <1>2, CorpusShape DEF PlaceInv
  <2> QED BY <1>1, <1>2, <2>1, <2>2 DEF LookedAt
<1> QED BY <1>1, <1>3, <1>4, <1>5, NothingFailed

\* Where a line is being read.
LEMMA ReadingPlace ==
  ASSUME PlaceInv, TheSweep!Reading
  PROVE  /\ corpus \in Corpora /\ file \in DOMAIN corpus /\ line \in DOMAIN corpus[file]
         /\ file > 0 /\ file \in Nat /\ line \in Nat \ {0} /\ sweep_run \in TheSweep!Runs
         /\ Len(corpus[file]) \in Nat /\ line <= Len(corpus[file])
         /\ TheSweep!Here = corpus[file][line] /\ TheSweep!Here \in CorpusLines
<1>1. /\ corpus \in Corpora /\ sweep_run \in TheSweep!Runs /\ file > 0 /\ line <= Len(corpus[file])
      /\ file \in 0..Len(corpus) /\ line \in 1..(Len(corpus[file]) + 1)
  BY DEF TheSweep!Reading, PlaceInv
<1>2. file \in DOMAIN corpus /\ Len(corpus[file]) \in Nat /\ DOMAIN corpus[file] = 1..Len(corpus[file])
  BY <1>1, CorpusShape
<1>3. line \in DOMAIN corpus[file] /\ corpus[file][line] \in CorpusLines
  BY <1>1, <1>2, CorpusShape
<1> QED BY <1>1, <1>2, <1>3 DEF TheSweep!Here

\* A line that is no record.
LEMMA ObeyKeeps == ASSUME SweepingInv, TheSweep!Obey PROVE SweepingInv'
<1> USE DEF SweepingInv
<1>1. /\ TheSweep!Reading /\ UNCHANGED <<corpus, sweep_run, file, failures, company, optimizer>>
      /\ line' = line + 1
      /\ TheSweep!Here.kind \in {"set", "fresh", "reconnect"}
  BY DEF TheSweep!Obey, TheSweep!StepLine, TheSweep!Disable, TheSweep!Reset, TheSweep!Reconnect
<1>2. /\ TheSweep!Here.kind = "set" => disabled' = TheSweep!Here.passes
      /\ TheSweep!Here.kind = "fresh" => disabled' = TheSweep!TurnedOff(optimizer)
      /\ TheSweep!Here.kind = "reconnect" => disabled' = disabled
  BY DEF TheSweep!Obey, TheSweep!Disable, TheSweep!Reset, TheSweep!Reconnect
<1>3. /\ file \in DOMAIN corpus /\ line \in DOMAIN corpus[file] /\ file > 0
      /\ line \in Nat \ {0} /\ sweep_run \in TheSweep!Runs
      /\ Len(corpus[file]) \in Nat /\ line <= Len(corpus[file])
      /\ TheSweep!Here = corpus[file][line]
  BY <1>1, ReadingPlace
<1>4. PlaceInv'
  BY <1>1, <1>3 DEF PlaceInv
<1>5. EngineInv'
  <2>1. TheSweep!TurnedOff(optimizer') = TheSweep!TurnedOff(optimizer)
    BY <1>1
  <2>2. disabled' = OffBefore(sweep_run, corpus[file], line + 1)
    BY <1>1, <1>2, <1>3, OffAfter DEF EngineInv
  <2> QED BY <1>1, <2>1, <2>2 DEF EngineInv
<1>6. ASSUME NEW r \in TheSweep!Runs, NEW f \in DOMAIN corpus, NEW i \in DOMAIN corpus[f],
             FailsAt(r, corpus[f], i)
      PROVE  LookedAt(r, f, i)' <=> LookedAt(r, f, i)
  <2>1. ~(f = file /\ i = line)
    BY <1>1, <1>3, <1>6 DEF FailsAt
  <2> QED BY <1>1, <1>3, <2>1, OneLineOn
<1> QED BY <1>1, <1>4, <1>5, <1>6, NothingFailed

\* A record, which fails when a bug of it has all it needs.
LEMMA RecordKeeps == ASSUME SweepingInv, TheSweep!Record PROVE SweepingInv'
<1> USE DEF SweepingInv
<1>1. /\ TheSweep!Reading /\ UNCHANGED <<corpus, sweep_run, file, optimizer, disabled>>
      /\ line' = line + 1
      /\ TheSweep!Here.kind = "record"
  BY DEF TheSweep!Record, TheSweep!StepLine, TheSweep!RunOn, TheSweep!RunUnnamed, TheSweep!driverVars
<1>2. /\ file \in DOMAIN corpus /\ line \in DOMAIN corpus[file] /\ file > 0
      /\ line \in Nat \ {0} /\ sweep_run \in TheSweep!Runs
      /\ Len(corpus[file]) \in Nat /\ line <= Len(corpus[file])
      /\ TheSweep!Here = corpus[file][line]
  BY <1>1, ReadingPlace
<1> DEFINE spot == <<file, TheSweep!Here.line>>
<1>3. PlaceInv'
  <2>1. DOMAIN failures' = DOMAIN failures
    BY DEF TheSweep!Record
  <2> QED BY <1>1, <1>2, <2>1 DEF PlaceInv
<1>4. EngineInv'
  <2>1. TheSweep!TurnedOff(optimizer') = TheSweep!TurnedOff(optimizer)
    BY <1>1
  <2>2. disabled' = OffBefore(sweep_run, corpus[file], line + 1)
    BY <1>1, <1>2, OffAfter DEF EngineInv
  <2> QED BY <1>1, <2>1, <2>2 DEF EngineInv
<1>5. TheSweep!Fails(TheSweep!Here) <=> FailsAt(sweep_run, corpus[file], line)
  BY <1>1, <1>2 DEF EngineInv, TheSweep!Fails, FailsAt
<1>6. ASSUME NEW r \in TheSweep!Runs, NEW f \in DOMAIN corpus, NEW i \in DOMAIN corpus[f]
      PROVE  LookedAt(r, f, i)' <=> LookedAt(r, f, i) \/ (r = sweep_run /\ f = file /\ i = line)
  BY <1>1, <1>2, OneLineOn
<1>7. CASE ~TheSweep!Fails(TheSweep!Here)
  <2>1. UNCHANGED <<failures, company>>
    BY <1>7 DEF TheSweep!Record
  <2>2. ASSUME NEW r \in TheSweep!Runs, NEW f \in DOMAIN corpus, NEW i \in DOMAIN corpus[f],
               FailsAt(r, corpus[f], i)
        PROVE  LookedAt(r, f, i)' <=> LookedAt(r, f, i)
    BY <1>5, <1>6, <1>7, <2>2
  <2> QED BY <1>1, <1>3, <1>4, <2>1, <2>2, NothingFailed
<1>8. CASE TheSweep!Fails(TheSweep!Here)
  <2>1. /\ failures' = [failures EXCEPT ![sweep_run] = @ \cup {spot}]
        /\ company' = IF disabled = TheSweep!Own(sweep_run) THEN company
                      ELSE company \cup {<<sweep_run, file, TheSweep!Here.line>>}
    BY <1>8 DEF TheSweep!Record
  <2>2. ASSUME NEW r \in TheSweep!Runs, NEW at \in failures'[r]
        PROVE  at = <<at[1], at[2]>>
    BY <1>2, <2>1 DEF PlaceInv, FailuresInv
  <2>3. ASSUME NEW r \in TheSweep!Runs, NEW f \in DOMAIN corpus, NEW l
        PROVE  <<f, l>> \in failures'[r] <=>
                 \E i \in DOMAIN corpus[f] :
                   LookedAt(r, f, i)' /\ FailsAt(r, corpus[f], i) /\ l = corpus[f][i].line
    <3>1. <<f, l>> \in failures'[r] <=>
            <<f, l>> \in failures[r] \/ (r = sweep_run /\ f = file /\ l = TheSweep!Here.line)
      BY <1>2, <2>1 DEF PlaceInv
    <3>2. <<f, l>> \in failures[r] <=>
            \E i \in DOMAIN corpus[f] :
              LookedAt(r, f, i) /\ FailsAt(r, corpus[f], i) /\ l = corpus[f][i].line
      BY DEF FailuresInv
    <3>3. r = sweep_run /\ f = file /\ l = TheSweep!Here.line =>
            \E i \in DOMAIN corpus[f] :
              i = line /\ FailsAt(r, corpus[f], i) /\ l = corpus[f][i].line
      BY <1>2, <1>5, <1>8
    <3>4. \A i \in DOMAIN corpus[f] :
            LookedAt(r, f, i)' <=> LookedAt(r, f, i) \/ (r = sweep_run /\ f = file /\ i = line)
      BY <1>6
    <3> QED BY <1>2, <3>1, <3>2, <3>3, <3>4
  <2>4. FailuresInv'
    BY <1>1, <2>2, <2>3 DEF FailuresInv
  <2>5. CompanyInv'
    <3> SUFFICES ASSUME NEW x \in company'
                 PROVE  \E r \in TheSweep!Runs : \E f \in DOMAIN corpus : \E i \in DOMAIN corpus[f] :
                          /\ LookedAt(r, f, i)' /\ FailsAt(r, corpus[f], i)
                          /\ SetBefore(corpus[f], i) # {}
                          /\ x = <<r, f, corpus[f][i].line>>
      BY <1>1 DEF CompanyInv
    <3>1. CASE x \in company
      <4>1. PICK r \in TheSweep!Runs, f \in DOMAIN corpus : \E i \in DOMAIN corpus[f] :
              /\ LookedAt(r, f, i) /\ FailsAt(r, corpus[f], i)
              /\ SetBefore(corpus[f], i) # {}
              /\ x = <<r, f, corpus[f][i].line>>
        BY <3>1 DEF CompanyInv
      <4> QED BY <1>6, <4>1
    <3>2. CASE x \notin company
      <4>1. disabled # TheSweep!Own(sweep_run) /\ x = <<sweep_run, file, TheSweep!Here.line>>
        BY <2>1, <3>2
      <4>2. SetBefore(corpus[file], line) # {}
        BY <1>2, <4>1 DEF EngineInv, OffBefore
      <4>3. PICK r \in TheSweep!Runs, f \in DOMAIN corpus : r = sweep_run /\ f = file
        BY <1>2
      <4>4. PICK i \in DOMAIN corpus[f] : i = line
        BY <1>2, <4>3
      <4>5. LookedAt(r, f, i)' /\ FailsAt(r, corpus[f], i)
        BY <1>5, <1>6, <1>8, <4>3, <4>4
      <4>6. SetBefore(corpus[f], i) # {} /\ x = <<r, f, corpus[f][i].line>>
        BY <1>2, <4>1, <4>2, <4>3, <4>4
      <4> QED BY <4>5, <4>6
    <3> QED BY <3>1, <3>2
  <2> QED BY <1>3, <1>4, <2>4, <2>5
<1> QED BY <1>7, <1>8

\* The next run, with another pass on, or the end of the last one.
LEMMA NextRunKeeps == ASSUME SweepingInv, TheSweep!NextRun PROVE SweepingInv'
<1> USE DEF SweepingInv
<1>1. /\ UNCHANGED <<corpus, failures, company>>
      /\ sweep_run \in TheSweep!Runs /\ file = Len(corpus) /\ line > Len(corpus[file])
      /\ sweep_run' = sweep_run + 1 /\ file' = 0 /\ line' = 1
      /\ sweep_run < Len(Order) => optimizer' = Order[sweep_run + 1]
  BY DEF TheSweep!NextRun, TheSweep!Opened
<1>2. corpus \in Corpora /\ Len(corpus) \in Nat /\ Len(Order) \in Nat /\ sweep_run \in Nat
  BY <1>1, CorpusShape, ToolsAssumption DEF PlaceInv, TheSweep!Runs, ToolsAssumption
<1>3. PlaceInv'
  BY <1>1, <1>2 DEF PlaceInv, TheSweep!Runs
<1>4. EngineInv'
  <2>1. CASE sweep_run < Len(Order)
    <3>1. optimizer' = Order[sweep_run'] /\ sweep_run' \in 1..Len(Order)
      BY <1>1, <1>2, <2>1
    <3>2. optimizer' \in Optimizers /\ optimizer' # "on" /\ optimizer' # "off"
      BY <3>1, ToolsAssumption DEF ToolsAssumption
    <3>3. TheSweep!TurnedOff(optimizer)' = Optimizers \ {optimizer'}
      BY <3>2 DEF TheSweep!TurnedOff
    <3>4. TheSweep!Own(sweep_run)' = Optimizers \ {optimizer'}
      BY <3>1 DEF TheSweep!Own
    <3> QED BY <1>1, <3>2, <3>3, <3>4 DEF EngineInv
  <2>2. CASE ~(sweep_run < Len(Order))
    BY <1>1, <1>2, <2>2 DEF EngineInv, TheSweep!Runs
  <2> QED BY <2>1, <2>2
<1>5. ASSUME NEW r \in TheSweep!Runs, NEW f \in DOMAIN corpus, NEW i \in DOMAIN corpus[f]
      PROVE  LookedAt(r, f, i)' <=> LookedAt(r, f, i)
  <2>1. /\ f \in 1..Len(corpus) /\ i \in 1..Len(corpus[f]) /\ r \in Nat /\ Len(corpus[f]) \in Nat
    BY <1>2, CorpusShape DEF TheSweep!Runs
  <2>2. f < file \/ (f = file /\ i < line)
    BY <1>1, <1>2, <2>1 DEF PlaceInv
  <2> QED BY <1>1, <1>2, <2>1, <2>2 DEF LookedAt
<1> QED BY <1>1, <1>3, <1>4, <1>5, NothingFailed

LEMMA SweepingKeeps == ASSUME SweepInv, tool = "sweep", tool' = tool, TheSweep!Next PROVE SweepInv'
<1>1. SweepingInv /\ ConnectionInv
  BY DEF SweepInv, SweepingInv
<1>2. SweepingInv'
  BY <1>1, NextFileKeeps, ObeyKeeps, RecordKeeps, NextRunKeeps DEF TheSweep!Next
<1>3. ConnectionInv'
  BY <1>1, ConnectionsKeep
<1> QED BY <1>2, <1>3 DEF SweepInv, SweepingInv

LEMMA SweepStays == ASSUME SweepInv, UNCHANGED <<tool, sweepVars>> PROVE SweepInv'
<1> USE DEF sweepVars
<1>1. ConnectionInv' <=> ConnectionInv
  BY DEF ConnectionInv
<1>2. PlaceInv' <=> PlaceInv
  BY DEF PlaceInv
<1>3. EngineInv' <=> EngineInv
  BY DEF EngineInv, TheSweep!TurnedOff
<1>4. FailuresInv /\ CompanyInv => FailuresInv' /\ CompanyInv'
  BY NothingFailed DEF LookedAt
<1> QED BY <1>1, <1>2, <1>3, <1>4 DEF SweepInv

\* Under a line that sets the passes, every run fails what the baseline fails.
LEMMA SameUnderASet ==
  ASSUME NEW script, NEW i, NEW r, SetBefore(script, i) # {}, FailsAt(r, script, i)
  PROVE  FailsAt(0, script, i)
  BY DEF FailsAt, OffBefore

\* Where nothing sets the passes, what fails is what the run's own pass does.
LEMMA OwnFailures ==
  ASSUME NEW script \in Seq(CorpusLines), \A j \in DOMAIN script : script[j].kind # "set",
         NEW i \in DOMAIN script, script[i].kind = "record", NEW r \in TheSweep!Runs
  PROVE  FailsAt(r, script, i) <=> {} \in script[i].culprits \/ (r # 0 /\ {Order[r]} \in script[i].culprits)
<1>1. SetBefore(script, i) = {}
  <2>1. \A j \in 1..(i - 1) : j \in DOMAIN script
    OBVIOUS
  <2> QED BY <2>1 DEF SetBefore
<1>2. FailsAt(r, script, i) <=> \E c \in script[i].culprits : c \cap TheSweep!Own(r) = {}
  BY <1>1 DEF FailsAt, OffBefore
<1>3. script[i] \in CorpusLines
  OBVIOUS
<1>4. \A c \in script[i].culprits : c \subseteq Optimizers
  BY <1>3, ToolsAssumption DEF ToolsAssumption
<1>5. CASE r = 0
  BY <1>2, <1>4, <1>5 DEF TheSweep!Own
<1>6. CASE r # 0
  <2>1. \A c \in script[i].culprits : c \cap TheSweep!Own(r) = {} <=> c \subseteq {Order[r]}
    BY <1>4, <1>6 DEF TheSweep!Own
  <2>2. \A c : c \subseteq {Order[r]} <=> c = {} \/ c = {Order[r]}
    OBVIOUS
  <2> QED BY <1>2, <1>6, <2>1, <2>2
<1> QED BY <1>5, <1>6

\* The report at the end of the sweep.
LEMMA SweepNames == ASSUME SweepInv PROVE TheSweep!NamedPassDidIt
<1> SUFFICES ASSUME TheSweep!Over
             PROVE  /\ TheSweep!Changed \cap company = {}
                    /\ TheSweep!LeavesPassesAlone =>
                         \A r \in TheSweep!Runs \ {0} : \A f \in DOMAIN corpus :
                           \A l \in {t.line : t \in {x \in {corpus[f][i] : i \in DOMAIN corpus[f]} :
                                                       x.kind = "record"}} :
                             <<r, f, l>> \in TheSweep!Changed <=>
                               /\ \E t \in TheSweep!Turns(f, l) : {Order[r]} \in t.culprits
                               /\ \A t \in TheSweep!Turns(f, l) : {} \notin t.culprits
  BY DEF TheSweep!NamedPassDidIt
<1>1. Len(Order) \in Nat /\ sweep_run = Len(Order) + 1
  BY ToolsAssumption DEF ToolsAssumption, TheSweep!Over
<1>2. corpus \in Corpora /\ FailuresInv /\ CompanyInv
  BY <1>1 DEF SweepInv, PlaceInv
<1>3. 0 \in TheSweep!Runs
  BY <1>1 DEF TheSweep!Runs
<1>4. \A r \in TheSweep!Runs : \A f \in DOMAIN corpus : \A l :
        <<f, l>> \in failures[r] <=>
          \E i \in DOMAIN corpus[f] : FailsAt(r, corpus[f], i) /\ l = corpus[f][i].line
  <2> SUFFICES ASSUME NEW r \in TheSweep!Runs, NEW f \in DOMAIN corpus, NEW l
               PROVE  <<f, l>> \in failures[r] <=>
                        \E i \in DOMAIN corpus[f] :
                          FailsAt(r, corpus[f], i) /\ l = corpus[f][i].line
    OBVIOUS
  <2>1. \A i : LookedAt(r, f, i)
    BY <1>1 DEF LookedAt, TheSweep!Runs
  <2>2. <<f, l>> \in failures[r] <=>
          \E i \in DOMAIN corpus[f] :
            LookedAt(r, f, i) /\ FailsAt(r, corpus[f], i) /\ l = corpus[f][i].line
    BY <1>2 DEF FailuresInv
  <2> QED BY <2>1, <2>2
<1>5. \A r, f, l : <<r, f, l>> \in TheSweep!Changed <=>
                     r \in TheSweep!Runs \ {0} /\ <<f, l>> \in failures[r] \ failures[0]
  <2>1. \A r \in TheSweep!Runs : \A at \in failures[r] : at = <<at[1], at[2]>>
    BY <1>2 DEF FailuresInv
  <2>2. ASSUME NEW r, NEW f, NEW l, <<r, f, l>> \in TheSweep!Changed
        PROVE  r \in TheSweep!Runs \ {0} /\ <<f, l>> \in failures[r] \ failures[0]
    <3>1. PICK q \in TheSweep!Runs \ {0} :
            <<r, f, l>> \in {<<q, at[1], at[2]>> : at \in failures[q] \ failures[0]}
      BY <2>2 DEF TheSweep!Changed
    <3>2. PICK at \in failures[q] \ failures[0] : <<r, f, l>> = <<q, at[1], at[2]>>
      BY <3>1
    <3>3. at = <<f, l>> /\ r = q
      BY <2>1, <3>2
    <3> QED BY <3>2, <3>3
  <2>3. ASSUME NEW r \in TheSweep!Runs \ {0}, NEW f, NEW l, <<f, l>> \in failures[r] \ failures[0]
        PROVE  <<r, f, l>> \in TheSweep!Changed
    <3> DEFINE at == <<f, l>>
    <3>1. at \in failures[r] \ failures[0] /\ <<r, f, l>> = <<r, at[1], at[2]>>
      BY <2>3
    <3>2. <<r, f, l>> \in {<<r, a[1], a[2]>> : a \in failures[r] \ failures[0]}
      BY <3>1
    <3> QED BY <3>2 DEF TheSweep!Changed
  <2> QED BY <2>2, <2>3
<1>6. TheSweep!Changed \cap company = {}
  <2> SUFFICES ASSUME NEW x \in company, x \in TheSweep!Changed
               PROVE  FALSE
    OBVIOUS
  <2>1. PICK r \in TheSweep!Runs, f \in DOMAIN corpus : \E i \in DOMAIN corpus[f] :
          /\ FailsAt(r, corpus[f], i) /\ SetBefore(corpus[f], i) # {}
          /\ x = <<r, f, corpus[f][i].line>>
    BY <1>2 DEF CompanyInv
  <2> PICK i \in DOMAIN corpus[f] :
        /\ FailsAt(r, corpus[f], i) /\ SetBefore(corpus[f], i) # {}
        /\ x = <<r, f, corpus[f][i].line>>
    BY <2>1
  <2>2. FailsAt(0, corpus[f], i)
    BY SameUnderASet
  <2>3. <<f, corpus[f][i].line>> \in failures[0]
    BY <1>3, <1>4, <2>2
  <2> QED BY <1>5, <2>1, <2>3
<1>7. ASSUME TheSweep!LeavesPassesAlone, NEW r \in TheSweep!Runs \ {0}, NEW f \in DOMAIN corpus, NEW l
      PROVE  <<r, f, l>> \in TheSweep!Changed <=>
               /\ \E t \in TheSweep!Turns(f, l) : {Order[r]} \in t.culprits
               /\ \A t \in TheSweep!Turns(f, l) : {} \notin t.culprits
  <2>1. corpus[f] \in Seq(CorpusLines) /\ \A j \in DOMAIN corpus[f] : corpus[f][j].kind # "set"
    BY <1>2, <1>7, CorpusShape DEF TheSweep!LeavesPassesAlone
  <2>2. \A q \in TheSweep!Runs : \A i \in DOMAIN corpus[f] :
          FailsAt(q, corpus[f], i) <=>
            corpus[f][i].kind = "record"
              /\ ({} \in corpus[f][i].culprits \/ (q # 0 /\ {Order[q]} \in corpus[f][i].culprits))
    BY <2>1, OwnFailures DEF FailsAt
  <2>3. ASSUME NEW q \in TheSweep!Runs
        PROVE  <<f, l>> \in failures[q] <=>
                 \E t \in TheSweep!Turns(f, l) :
                   {} \in t.culprits \/ (q # 0 /\ {Order[q]} \in t.culprits)
    <3> DEFINE Bad(t) == {} \in t.culprits \/ (q # 0 /\ {Order[q]} \in t.culprits)
    <3>1. <<f, l>> \in failures[q] <=>
            \E i \in DOMAIN corpus[f] : FailsAt(q, corpus[f], i) /\ l = corpus[f][i].line
      BY <1>4
    <3>2. \A i \in DOMAIN corpus[f] :
            FailsAt(q, corpus[f], i) <=> corpus[f][i].kind = "record" /\ Bad(corpus[f][i])
      BY <2>2
    <3> HIDE DEF Bad
    <3>3. (\E t \in TheSweep!Turns(f, l) : Bad(t)) <=>
            \E i \in DOMAIN corpus[f] :
              corpus[f][i].kind = "record" /\ Bad(corpus[f][i]) /\ l = corpus[f][i].line
      BY DEF TheSweep!Turns
    <3> QED BY <3>1, <3>2, <3>3 DEF Bad
  <2> QED BY <1>3, <1>5, <2>3
<1> QED BY <1>6, <1>7
-----------------------------------------------------------------------------
(***************************************************************************)
(* oracles.  The counts and the splits are those of everything both runs   *)
(* have said so far, so one more file adds what is counted in it: its      *)
(* places are nobody else's.                                               *)
(***************************************************************************)
Tellings == [TheOracle!Oracles -> TheOracle!Telling]

\* What both runs said of every file, as a set of places.
Places(a)  == (DOMAIN a) \X Records
InBoth(a)  == {p \in Places(a) : \A o \in TheOracle!Oracles : p[2] \in DOMAIN a[p[1]][o]}
InOne(a)   == {p \in Places(a) : /\ \E o \in TheOracle!Oracles : p[2] \in DOMAIN a[p[1]][o]
                                 /\ p \notin InBoth(a)}
Came(a, p) == TheOracle!VerdictOf(a[p[1]]["rudb"][p[2]], a[p[1]]["duckdb"][p[2]])
Coming(a, v) == {p \in InBoth(a) : Came(a, p) = v}
SplitAt(a, p) ==
  [file |-> p[1], at |-> p[2], verdict |-> Came(a, p), duckdb |-> a[p[1]]["duckdb"][p[2]]]

OracleInv ==
  /\ oracle_at \in {"rudb", "duckdb", "take"}
  /\ told \in Tellings
  /\ answers \in Seq(Tellings)
  /\ files = Len(answers)
  /\ counts = [v \in TheOracle!Verdicts |-> Cardinality(Coming(answers, v))]
  /\ unpaired = Cardinality(InOne(answers))
  /\ splits = {SplitAt(answers, p) : p \in {q \in InBoth(answers) : Came(answers, q) # "agreed"}}

\* SecondOracle has the Cardinality of its own FiniteSets.
LEMMA SameCardinality == ASSUME NEW S PROVE TheOracle!Cardinality(S) = Cardinality(S)
  BY DEF TheOracle!Cardinality, Cardinality

\* The places of one more file.
At(n, R) == {<<n, r>> : r \in R}

LEMMA PlacesAreFinite ==
  ASSUME NEW a \in Seq(Tellings)
  PROVE  /\ IsFiniteSet(Places(a))
         /\ \A S : S \subseteq Places(a) => IsFiniteSet(S) /\ Cardinality(S) \in Nat
         /\ \A S : S \subseteq Records => IsFiniteSet(S) /\ Cardinality(S) \in Nat
<1>1. DOMAIN a = 1..Len(a) /\ Len(a) \in Nat
  OBVIOUS
<1>2. IsFiniteSet(1..Len(a))
  BY <1>1, FS_Interval
<1>3. IsFiniteSet(Places(a)) /\ IsFiniteSet(Records)
  BY <1>1, <1>2, FS_Product, ToolsAssumption DEF ToolsAssumption, Places
<1> QED BY <1>3, FS_Subset, FS_CardinalityType

LEMMA DisjointUnion ==
  ASSUME NEW S, IsFiniteSet(S), NEW T, IsFiniteSet(T), S \cap T = {}
  PROVE  Cardinality(S \cup T) = Cardinality(S) + Cardinality(T)
<1>1. Cardinality(S) \in Nat /\ Cardinality(T) \in Nat
  BY FS_CardinalityType
<1>2. Cardinality(S \cap T) = 0
  BY FS_EmptySet
<1>3. Cardinality(S \cup T) = Cardinality(S) + Cardinality(T) - Cardinality(S \cap T)
  BY FS_Union
<1> QED BY <1>1, <1>2, <1>3

LEMMA AddPlaces ==
  ASSUME NEW S, IsFiniteSet(S), NEW R, IsFiniteSet(R), NEW n, \A r \in R : <<n, r>> \notin S
  PROVE  /\ IsFiniteSet(S \cup At(n, R))
         /\ Cardinality(S \cup At(n, R)) = Cardinality(S) + Cardinality(R)
<1> DEFINE f == [r \in R |-> <<n, r>>]
<1>1. f \in Bijection(R, At(n, R))
  <2>1. f \in [R -> At(n, R)]
    BY DEF At
  <2>2. \A x, y \in R : f[x] = f[y] => x = y
    OBVIOUS
  <2>3. \A y \in At(n, R) : \E x \in R : f[x] = y
    BY DEF At
  <2> QED BY <2>1, <2>2, <2>3 DEF Bijection, Injection, IsInjective, Surjection
<1>2. IsFiniteSet(At(n, R)) /\ Cardinality(At(n, R)) = Cardinality(R)
  BY <1>1, FS_Bijection DEF ExistsBijection
<1>3. S \cap At(n, R) = {}
  BY DEF At
<1> QED BY <1>2, <1>3, DisjointUnion, FS_Union, ZenonT(60)

\* One more file, and what was said of the others stands.
LEMMA OneMoreFile ==
  ASSUME NEW a \in Seq(Tellings), NEW t \in Tellings
  PROVE  LET n == Len(a) + 1
             b == Append(a, t)
             Both == DOMAIN t["rudb"] \cap DOMAIN t["duckdb"]
             One  == (DOMAIN t["rudb"] \ DOMAIN t["duckdb"]) \cup (DOMAIN t["duckdb"] \ DOMAIN t["rudb"])
         IN  /\ b \in Seq(Tellings) /\ Len(b) = n
             /\ Both \subseteq Records /\ One \subseteq Records
             /\ \A r : <<n, r>> \notin Places(a)
             /\ InBoth(b) = InBoth(a) \cup At(n, Both)
             /\ InOne(b) = InOne(a) \cup At(n, One)
             /\ \A p \in InBoth(a) : Came(b, p) = Came(a, p) /\ SplitAt(b, p) = SplitAt(a, p)
             /\ \A r \in Both :
                  /\ Came(b, <<n, r>>) = TheOracle!VerdictOf(t["rudb"][r], t["duckdb"][r])
                  /\ SplitAt(b, <<n, r>>) =
                       [file |-> n, at |-> r,
                        verdict |-> TheOracle!VerdictOf(t["rudb"][r], t["duckdb"][r]),
                        duckdb |-> t["duckdb"][r]]
<1> DEFINE n == Len(a) + 1
           b == Append(a, t)
           Both == DOMAIN t["rudb"] \cap DOMAIN t["duckdb"]
           One  == (DOMAIN t["rudb"] \ DOMAIN t["duckdb"]) \cup (DOMAIN t["duckdb"] \ DOMAIN t["rudb"])
<1>1. /\ b \in Seq(Tellings) /\ Len(b) = n /\ n \in Nat \ {0}
      /\ DOMAIN b = DOMAIN a \cup {n} /\ n \notin DOMAIN a
      /\ b[n] = t /\ \A i \in DOMAIN a : b[i] = a[i]
  OBVIOUS
<1>2. DOMAIN t["rudb"] \subseteq Records /\ DOMAIN t["duckdb"] \subseteq Records
  BY DEF Tellings, TheOracle!Oracles, TheOracle!Telling
<1> HIDE DEF b, n
<1>3. Places(b) = Places(a) \cup At(n, Records) /\ \A r : <<n, r>> \notin Places(a)
  BY <1>1 DEF Places, At
<1>4. \A p \in Places(a) : b[p[1]] = a[p[1]]
  BY <1>1 DEF Places
<1>5. \A r : b[<<n, r>>[1]] = t /\ <<n, r>>[1] = n /\ <<n, r>>[2] = r
  BY <1>1
<1>6. InBoth(b) = InBoth(a) \cup At(n, Both)
  <2>1. \A p \in Places(a) : p \in InBoth(b) <=> p \in InBoth(a)
    BY <1>3, <1>4 DEF InBoth
  <2>2. \A r \in Records : <<n, r>> \in InBoth(b) <=> r \in Both
    BY <1>3, <1>5 DEF InBoth, At, TheOracle!Oracles
  <2>3. InBoth(b) \subseteq Places(b) /\ InBoth(a) \subseteq Places(a)
    BY DEF InBoth
  <2> QED BY <1>2, <1>3, <2>1, <2>2, <2>3 DEF At
<1>7. InOne(b) = InOne(a) \cup At(n, One)
  <2>1. \A p \in Places(a) : p \in InOne(b) <=> p \in InOne(a)
    <3>1. \A p \in Places(a) : p \in InBoth(b) <=> p \in InBoth(a)
      BY <1>3, <1>4 DEF InBoth
    <3> QED BY <1>3, <1>4, <3>1 DEF InOne
  <2>2. \A r \in Records : <<n, r>> \in InOne(b) <=> r \in One
    <3>1. \A r \in Records : <<n, r>> \in InBoth(b) <=> r \in Both
      BY <1>3, <1>5 DEF InBoth, At, TheOracle!Oracles
    <3> QED BY <1>3, <1>5, <3>1 DEF InOne, At, TheOracle!Oracles
  <2>3. InOne(b) \subseteq Places(b) /\ InOne(a) \subseteq Places(a)
    BY DEF InOne
  <2> QED BY <1>2, <1>3, <2>1, <2>2, <2>3 DEF At
<1>8. \A p \in InBoth(a) : Came(b, p) = Came(a, p) /\ SplitAt(b, p) = SplitAt(a, p)
  BY <1>4 DEF InBoth, Came, SplitAt
<1>9. \A r : Came(b, <<n, r>>) = TheOracle!VerdictOf(t["rudb"][r], t["duckdb"][r])
  BY <1>5 DEF Came
<1>10. \A r : SplitAt(b, <<n, r>>) =
                [file |-> n, at |-> r, duckdb |-> t["duckdb"][r],
                 verdict |-> TheOracle!VerdictOf(t["rudb"][r], t["duckdb"][r])]
  BY <1>5, <1>9 DEF SplitAt
<1> QED BY <1>1, <1>2, <1>3, <1>6, <1>7, <1>8, <1>9, <1>10 DEF b, n

\* An engine has run the file in hand.
LEMMA RunOverKeeps ==
  ASSUME OracleInv, NEW o \in {"rudb", "duckdb"}, TheOracle!RunOver(o)
  PROVE  OracleInv'
<1>1. /\ UNCHANGED <<counts, splits, unpaired, files, answers>>
      /\ oracle_at' \in {"duckdb", "take"}
      /\ \E t \in TheOracle!Telling : told' = [told EXCEPT ![o] = t]
  BY DEF TheOracle!RunOver
<1>2. told' \in Tellings
  BY <1>1 DEF OracleInv, Tellings, TheOracle!Oracles
<1> QED BY <1>1, <1>2 DEF OracleInv

\* What both said of it is taken into the report.
LEMMA TakeKeeps == ASSUME OracleInv, TheOracle!Take PROVE OracleInv'
<1> DEFINE n    == Len(answers) + 1
           b    == Append(answers, told)
           Both == DOMAIN told["rudb"] \cap DOMAIN told["duckdb"]
           Left == DOMAIN told["rudb"] \ DOMAIN told["duckdb"]
           Over == DOMAIN told["duckdb"] \ DOMAIN told["rudb"]
           V(r) == TheOracle!VerdictOf(told["rudb"][r], told["duckdb"][r])
           New(r) == [file |-> n, at |-> r, verdict |-> V(r), duckdb |-> told["duckdb"][r]]
<1>1. /\ answers \in Seq(Tellings) /\ told \in Tellings /\ files = n - 1
      /\ counts = [v \in TheOracle!Verdicts |-> Cardinality(Coming(answers, v))]
      /\ unpaired = Cardinality(InOne(answers))
      /\ splits = {SplitAt(answers, p) : p \in {q \in InBoth(answers) : Came(answers, q) # "agreed"}}
      /\ n \in Nat /\ n - 1 = Len(answers) /\ files + 1 = n
  BY DEF OracleInv
<1>0. /\ TheOracle!Both = Both /\ \A r : TheOracle!VerdictAt(r) = V(r)
      /\ TheOracle!Unpaired = Cardinality(Left) + Cardinality(Over)
  BY SameCardinality DEF TheOracle!Both, TheOracle!VerdictAt, TheOracle!Unpaired
<1>2. /\ counts' = [v \in TheOracle!Verdicts |->
                      counts[v] + Cardinality({r \in Both : V(r) = v})]
      /\ splits' = splits \cup {New(r) : r \in {x \in Both : V(x) # "agreed"}}
      /\ unpaired' = unpaired + (Cardinality(Left) + Cardinality(Over))
      /\ files' = n /\ answers' = b
      /\ told' = [o \in TheOracle!Oracles |-> TheOracle!Nobody]
      /\ oracle_at' = "rudb"
  <2>1. /\ counts' = [v \in TheOracle!Verdicts |->
                         counts[v] + Cardinality({r \in Both : V(r) = v})]
    BY <1>0, SameCardinality DEF TheOracle!Take
  <2>2. splits' = splits \cup {New(r) : r \in {x \in Both : V(x) # "agreed"}}
    BY <1>1, <1>0 DEF TheOracle!Take
  <2> QED BY <1>1, <1>0, <2>1, <2>2 DEF TheOracle!Take
<1>3. /\ b \in Seq(Tellings) /\ Len(b) = n
      /\ Both \subseteq Records /\ (Left \cup Over) \subseteq Records
      /\ \A r : <<n, r>> \notin Places(answers)
      /\ InBoth(b) = InBoth(answers) \cup At(n, Both)
      /\ InOne(b) = InOne(answers) \cup At(n, Left \cup Over)
      /\ \A p \in InBoth(answers) : Came(b, p) = Came(answers, p) /\ SplitAt(b, p) = SplitAt(answers, p)
      /\ \A r \in Both : Came(b, <<n, r>>) = V(r) /\ SplitAt(b, <<n, r>>) = New(r)
  <2>1. answers \in Seq(Tellings) /\ told \in Tellings
    BY <1>1
  <2> QED BY <2>1, OneMoreFile, Zenon
<1>4. InBoth(answers) \subseteq Places(answers) /\ InOne(answers) \subseteq Places(answers)
  BY DEF InBoth, InOne
<1> HIDE DEF b, n, Both, Left, Over, V, New
<1>5. \A S : S \subseteq Places(answers) => IsFiniteSet(S) /\ Cardinality(S) \in Nat
  BY <1>1, PlacesAreFinite
<1>6. \A S : S \subseteq Records => IsFiniteSet(S) /\ Cardinality(S) \in Nat
  BY <1>1, PlacesAreFinite
<1>7. counts' = [v \in TheOracle!Verdicts |-> Cardinality(Coming(b, v))]
  <2> SUFFICES ASSUME NEW v \in TheOracle!Verdicts
               PROVE  Cardinality(Coming(answers, v)) + Cardinality({r \in Both : V(r) = v})
                        = Cardinality(Coming(b, v))
    BY <1>1, <1>2
  <2> DEFINE R == {r \in Both : V(r) = v}
  <2>1. Coming(b, v) = Coming(answers, v) \cup At(n, R)
    BY <1>3 DEF Coming, At
  <2>2. Coming(answers, v) \subseteq Places(answers) /\ R \subseteq Records
    BY <1>3, <1>4 DEF Coming
  <2>3. \A r \in R : <<n, r>> \notin Coming(answers, v)
    BY <1>3, <2>2
  <2> HIDE DEF R
  <2>4. Cardinality(Coming(answers, v) \cup At(n, R)) = Cardinality(Coming(answers, v)) + Cardinality(R)
    BY <1>5, <1>6, <2>2, <2>3, AddPlaces
  <2> QED BY <2>1, <2>4 DEF R
<1>8. unpaired' = Cardinality(InOne(b))
  <2>1. Left \cap Over = {} /\ Left \subseteq Records /\ Over \subseteq Records
    BY <1>3 DEF Left, Over
  <2>2. Cardinality(Left \cup Over) = Cardinality(Left) + Cardinality(Over)
    <3>1. IsFiniteSet(Left) /\ IsFiniteSet(Over)
      BY <1>6, <2>1
    <3> QED BY <2>1, <3>1, DisjointUnion
  <2>3. Cardinality(InOne(b)) = Cardinality(InOne(answers)) + Cardinality(Left \cup Over)
    <3>1. \A r \in Left \cup Over : <<n, r>> \notin InOne(answers)
      BY <1>3, <1>4
    <3>2. IsFiniteSet(InOne(answers)) /\ IsFiniteSet(Left \cup Over)
      BY <1>3, <1>4, <1>5, <1>6
    <3>3. Cardinality(InOne(answers) \cup At(n, Left \cup Over))
            = Cardinality(InOne(answers)) + Cardinality(Left \cup Over)
      BY <3>1, <3>2, AddPlaces
    <3> QED BY <1>3, <3>3
  <2> QED BY <1>1, <1>2, <2>2, <2>3
<1>9. splits' = {SplitAt(b, p) : p \in {q \in InBoth(b) : Came(b, q) # "agreed"}}
  <2>1. {SplitAt(b, p) : p \in {q \in InBoth(answers) : Came(b, q) # "agreed"}} = splits
    BY <1>1, <1>3
  <2>2. {SplitAt(b, p) : p \in {q \in At(n, Both) : Came(b, q) # "agreed"}}
          = {New(r) : r \in {x \in Both : V(x) # "agreed"}}
    BY <1>3 DEF At
  <2> QED BY <1>2, <1>3, <2>1, <2>2
<1>10. told' \in Tellings
  <2>1. TheOracle!Nobody \in TheOracle!Telling
    <3>1. TheOracle!Nobody \in [{} -> TheOracle!Said] /\ {} \in SUBSET Records
      BY DEF TheOracle!Nobody
    <3> QED BY <3>1 DEF TheOracle!Telling
  <2> QED BY <1>2, <2>1 DEF Tellings
<1> QED BY <1>2, <1>3, <1>7, <1>8, <1>9, <1>10 DEF OracleInv

LEMMA AskingKeeps == ASSUME OracleInv, TheOracle!Next PROVE OracleInv'
  BY RunOverKeeps, TakeKeeps DEF TheOracle!Next

LEMMA OraclesStay == ASSUME OracleInv, UNCHANGED oracleVars PROVE OracleInv'
  BY DEF oracleVars, OracleInv

LEMMA OracleInitHolds == ASSUME TheOracle!Init PROVE OracleInv
<1>1. answers = <<>> /\ splits = {} /\ unpaired = 0 /\ files = 0 /\ oracle_at = "rudb"
      /\ counts = [v \in TheOracle!Verdicts |-> 0]
      /\ told = [o \in TheOracle!Oracles |-> TheOracle!Nobody]
  BY DEF TheOracle!Init
<1>2. DOMAIN answers = {} /\ answers \in Seq(Tellings) /\ Len(answers) = 0
  BY <1>1
<1>3. InBoth(answers) = {} /\ InOne(answers) = {} /\ \A v : Coming(answers, v) = {}
  BY <1>2 DEF InBoth, InOne, Coming, Places
<1>4. Cardinality({}) = 0
  BY FS_EmptySet
<1>5. told \in Tellings
  <2>1. TheOracle!Nobody \in [{} -> TheOracle!Said] /\ {} \in SUBSET Records
    BY DEF TheOracle!Nobody
  <2> QED BY <1>1, <2>1 DEF TheOracle!Telling, Tellings
<1> QED BY <1>1, <1>2, <1>3, <1>4, <1>5 DEF OracleInv

\* The report of all of it.
LEMMA OraclesReport == ASSUME OracleInv PROVE TheOracle!OraclesCountOnce
<1> DEFINE C(v) == Coming(answers, v)
<1>1. /\ answers \in Seq(Tellings)
      /\ counts = [v \in TheOracle!Verdicts |-> Cardinality(C(v))]
      /\ unpaired = Cardinality(InOne(answers))
      /\ splits = {SplitAt(answers, p) : p \in {q \in InBoth(answers) : Came(answers, q) # "agreed"}}
  BY DEF OracleInv
<1>2. \A S : S \subseteq Places(answers) => IsFiniteSet(S) /\ Cardinality(S) \in Nat
  BY <1>1, PlacesAreFinite
<1>3. /\ TheOracle!ByBoth = InBoth(answers)
      /\ InBoth(answers) \subseteq Places(answers) /\ InOne(answers) \subseteq Places(answers)
      /\ TheOracle!ByEither = InBoth(answers) \cup InOne(answers)
      /\ InBoth(answers) \cap InOne(answers) = {}
  BY DEF TheOracle!ByBoth, TheOracle!ByEither, TheOracle!Spots, InBoth, InOne, Places,
         TheOracle!Oracles
<1>4. \A v \in TheOracle!Verdicts :
        /\ C(v) \subseteq Places(answers) /\ counts[v] = Cardinality(C(v)) /\ counts[v] \in Nat
        /\ IsFiniteSet(C(v))
  BY <1>1, <1>2, <1>3 DEF Coming
<1>5. \A p : /\ Came(answers, p) \in TheOracle!Verdicts
             /\ Came(answers, p) \in {"agreed", "harness"} <=> TheOracle!What("rudb", p) = "passed"
             /\ Came(answers, p) = "stale" <=> /\ TheOracle!What("rudb", p) # "passed"
                                               /\ TheOracle!What("duckdb", p) # "passed"
  BY DEF Came, TheOracle!VerdictOf, TheOracle!Verdicts, TheOracle!What
<1>6. \A S, T : /\ S \subseteq Places(answers) /\ T \subseteq Places(answers) /\ S \cap T = {}
                => Cardinality(S \cup T) = Cardinality(S) + Cardinality(T)
  BY <1>2, DisjointUnion
<1>7. Cardinality(InBoth(answers)) = TheOracle!Paired
  <2>1. InBoth(answers) = (C("agreed") \cup C("gap")) \cup (C("stale") \cup C("harness"))
    BY <1>5 DEF Coming, TheOracle!Verdicts
  <2>2. \A v, w : v # w => C(v) \cap C(w) = {}
    BY DEF Coming
  <2>3. (C("agreed") \cup C("gap")) \cap (C("stale") \cup C("harness")) = {}
    BY DEF Coming
  <2>4. /\ C("agreed") \subseteq Places(answers) /\ C("gap") \subseteq Places(answers)
        /\ C("stale") \subseteq Places(answers) /\ C("harness") \subseteq Places(answers)
    BY <1>4 DEF TheOracle!Verdicts
  <2> HIDE DEF C
  <2>5. Cardinality(InBoth(answers)) =
          (Cardinality(C("agreed")) + Cardinality(C("gap")))
            + (Cardinality(C("stale")) + Cardinality(C("harness")))
    <3>1. Cardinality(C("agreed") \cup C("gap")) = Cardinality(C("agreed")) + Cardinality(C("gap"))
      BY <1>6, <2>2, <2>4
    <3>2. Cardinality(C("stale") \cup C("harness")) = Cardinality(C("stale")) + Cardinality(C("harness"))
      BY <1>6, <2>2, <2>4
    <3>3. /\ (C("agreed") \cup C("gap")) \subseteq Places(answers)
          /\ (C("stale") \cup C("harness")) \subseteq Places(answers)
      BY <2>4
    <3> QED BY <1>6, <2>1, <2>3, <3>1, <3>2, <3>3
  <2> QED BY <1>4, <2>5 DEF TheOracle!Paired, TheOracle!Verdicts
<1>8. Cardinality(TheOracle!ByEither) = TheOracle!Paired + unpaired
  BY <1>1, <1>3, <1>6, <1>7
<1>9. TheOracle!Claimed = Cardinality({p \in InBoth(answers) : TheOracle!What("rudb", p) = "passed"})
  <2>1. {p \in InBoth(answers) : TheOracle!What("rudb", p) = "passed"} = C("agreed") \cup C("harness")
    BY <1>5 DEF Coming
  <2>2. C("agreed") \cap C("harness") = {}
    BY DEF Coming
  <2>3. C("agreed") \subseteq Places(answers) /\ C("harness") \subseteq Places(answers)
    BY <1>4 DEF TheOracle!Verdicts
  <2> HIDE DEF C
  <2> QED BY <1>4, <1>6, <2>1, <2>2, <2>3 DEF TheOracle!Claimed, TheOracle!Verdicts
<1>10. ASSUME NEW why \in Reasons
       PROVE  TheOracle!WhyStale[why] =
                Cardinality({p \in InBoth(answers) : /\ TheOracle!What("rudb", p) # "passed"
                                                     /\ TheOracle!What("duckdb", p) = why})
  <2> DEFINE Q == {p \in InBoth(answers) : /\ TheOracle!What("rudb", p) # "passed"
                                           /\ TheOracle!What("duckdb", p) = why}
             T == {s \in splits : s.verdict = "stale" /\ s.duckdb = why}
             g == [p \in Q |-> SplitAt(answers, p)]
  <2>1. why # "passed"
    BY ToolsAssumption DEF ToolsAssumption
  <2>2. \A p \in Q : Came(answers, p) = "stale" /\ p \in InBoth(answers) /\ p = <<p[1], p[2]>>
    BY <1>3, <1>5, <2>1 DEF Places
  <2>3. \A p : /\ SplitAt(answers, p).verdict = Came(answers, p)
               /\ SplitAt(answers, p).duckdb = TheOracle!What("duckdb", p)
               /\ SplitAt(answers, p).file = p[1] /\ SplitAt(answers, p).at = p[2]
    BY DEF SplitAt, TheOracle!What
  <2>4. g \in [Q -> T]
    BY <1>1, <2>2, <2>3
  <2>5. \A x, y \in Q : g[x] = g[y] => x = y
    BY <2>2, <2>3
  <2>6. \A s \in T : \E p \in Q : g[p] = s
    BY <1>1, <1>5, <2>3
  <2> HIDE DEF g, Q, T
  <2>7. g \in Bijection(Q, T)
    BY <2>4, <2>5, <2>6 DEF Bijection, Injection, IsInjective, Surjection
  <2>8. IsFiniteSet(Q)
    BY <1>2, <1>3 DEF Q
  <2>9. Cardinality(T) = Cardinality(Q)
    BY <2>7, <2>8, FS_Bijection DEF ExistsBijection
  <2>10. TheOracle!WhyStale[why] = Cardinality(T)
    BY SameCardinality DEF TheOracle!WhyStale, T
  <2> QED BY <2>9, <2>10 DEF Q
<1>11. TheOracle!ExitsWell <=> \A s \in splits : s.verdict # "harness"
  <2>1. C("harness") = {} <=> \A s \in splits : s.verdict # "harness"
    <3>1. \A p : SplitAt(answers, p).verdict = Came(answers, p)
      BY DEF SplitAt
    <3> QED BY <1>1, <3>1 DEF Coming
  <2>2. Cardinality(C("harness")) = 0 <=> C("harness") = {}
    BY <1>4, FS_EmptySet DEF TheOracle!Verdicts
  <2> QED BY <1>4, <2>1, <2>2 DEF TheOracle!ExitsWell, TheOracle!Verdicts
<1> QED BY <1>3, <1>7, <1>8, <1>9, <1>10, <1>11, SameCardinality DEF TheOracle!OraclesCountOnce
-----------------------------------------------------------------------------
(***************************************************************************)
(* A process per statement.  Nobody who is not idle has the number of      *)
(* another, so a file with that number is its own.                         *)
(***************************************************************************)
Busy(c) == pc[c] # "idle"

DuckdbTypeInv ==
  /\ runs \in Nat
  /\ pc \in [Callers -> {"idle", "waiting", "killing", "left"}]
  /\ number \in [Callers -> Nat]
  /\ query \in [Callers -> BOOLEAN]
  /\ child \in [Callers -> {"none", "types", "rows", "exited", "failed"}]
  /\ scratch \subseteq [kind : TheDuckdb!Kinds, n : Nat, by : Callers]
  /\ answer = [c \in Callers |-> answer[c]]
  /\ lost \subseteq Nat

\* A number is taken once, and a child is somebody's who is busy with it.
NumberInv ==
  /\ \A c \in Callers : Busy(c) => number[c] < runs
  /\ \A c, d \in Callers : Busy(c) /\ Busy(d) /\ number[c] = number[d] => c = d
  /\ \A c \in Callers : ~Busy(c) => child[c] = "none"

\* A file is of a run that began, and of the one that has its number; one that is no
\* query has no table.
FileInv ==
  \A f \in scratch :
    /\ f.n < runs
    /\ \A c \in Callers : Busy(c) /\ number[c] = f.n => f.by = c /\ (~query[c] => f.kind = "said")

DuckdbInv == DuckdbTypeInv /\ NumberInv /\ FileInv /\ TheDuckdb!AnswerIsItsOwn /\ TheDuckdb!CleansUp

LEMMA DuckdbInitHolds == ASSUME TheDuckdb!Init PROVE DuckdbInv
<1>1. DuckdbTypeInv /\ NumberInv /\ FileInv /\ TheDuckdb!CleansUp
  BY DEF TheDuckdb!Init, DuckdbTypeInv, NumberInv, FileInv, TheDuckdb!CleansUp, Busy
<1>2. TheDuckdb!AnswerIsItsOwn
  BY DEF TheDuckdb!Init, TheDuckdb!AnswerIsItsOwn, TheDuckdb!Nothing
<1> QED BY <1>1, <1>2 DEF DuckdbInv

\* What a read of its own file says of who wrote it.
LEMMA OwnFile ==
  ASSUME DuckdbInv, NEW c \in Callers, Busy(c), NEW kind \in TheDuckdb!Kinds, TheDuckdb!Exists(kind, number[c])
  PROVE  TheDuckdb!By(kind, number[c]) = c
<1> DEFINE g == CHOOSE f \in scratch : f.kind = kind /\ f.n = number[c]
<1>1. g \in scratch /\ g.n = number[c]
  BY DEF TheDuckdb!Exists
<1>2. g.by = c
  BY <1>1 DEF DuckdbInv, FileInv
<1> QED BY <1>2 DEF TheDuckdb!By

\* A run takes a number nobody has.
LEMMA SpawnKeeps ==
  ASSUME DuckdbInv, NEW c \in Callers, TheDuckdb!Spawn(c)
  PROVE  DuckdbInv'
<1> USE DEF DuckdbInv
<1>1. /\ pc[c] = "idle" /\ runs \in Nat
      /\ runs' = runs + 1 /\ number' = [number EXCEPT ![c] = runs] /\ number'[c] = runs
      /\ answer' = [answer EXCEPT ![c] = TheDuckdb!Nothing]
      /\ scratch' = {f \in scratch : ~(f.kind = "said" /\ f.n = runs)}
                      \cup {[kind |-> "said", n |-> runs, by |-> c]}
  BY DEF TheDuckdb!Spawn, TheDuckdb!TakeNumber, TheDuckdb!Write, DuckdbTypeInv
<1>2. PICK q \in BOOLEAN : query' = [query EXCEPT ![c] = q]
  BY DEF TheDuckdb!Spawn
<1>3. \/ /\ pc' = [pc EXCEPT ![c] = "waiting"] /\ lost' = lost
         /\ child' = [child EXCEPT ![c] = IF q THEN "types" ELSE "rows"]
      \/ /\ pc' = pc /\ child' = child
         /\ lost' = lost \cup {runs}
  BY <1>1, <1>2 DEF TheDuckdb!Spawn, DuckdbTypeInv
<1>4. DuckdbTypeInv'
  <2>1. scratch' \subseteq [kind : TheDuckdb!Kinds, n : Nat, by : Callers]
    BY <1>1 DEF DuckdbTypeInv, TheDuckdb!Kinds
  <2>2. answer' = [d \in Callers |-> answer'[d]]
    BY <1>1 DEF DuckdbTypeInv
  <2>3. pc' \in [Callers -> {"idle", "waiting", "killing", "left"}] /\ lost' \subseteq Nat
    BY <1>1, <1>3 DEF DuckdbTypeInv
  <2>4. child' \in [Callers -> {"none", "types", "rows", "exited", "failed"}]
    BY <1>3 DEF DuckdbTypeInv
  <2>5. query' \in [Callers -> BOOLEAN]
    BY <1>2 DEF DuckdbTypeInv
  <2>6. runs' \in Nat /\ number' \in [Callers -> Nat]
    BY <1>1 DEF DuckdbTypeInv
  <2> QED BY <2>1, <2>2, <2>3, <2>4, <2>5, <2>6 DEF DuckdbTypeInv
<1>5. NumberInv'
  BY <1>1, <1>3 DEF NumberInv, DuckdbTypeInv, Busy
<1>6. FileInv'
  <2> SUFFICES ASSUME NEW f \in scratch', NEW d \in Callers
               PROVE  f.n < runs' /\ (Busy(d)' /\ number'[d] = f.n =>
                                        f.by = d /\ (~query'[d] => f.kind = "said"))
    BY DEF FileInv
  <2>1. CASE f = [kind |-> "said", n |-> runs, by |-> c]
    <3>1. d # c /\ Busy(d)' => number'[d] < runs
      BY <1>1, <1>3 DEF NumberInv, DuckdbTypeInv, Busy
    <3> QED BY <1>1, <2>1, <3>1 DEF DuckdbTypeInv
  <2>2. CASE f \in scratch
    <3>1. f.n < runs /\ f.n \in Nat
      BY <2>2 DEF FileInv, DuckdbTypeInv
    <3>2. d # c => Busy(d)' = Busy(d) /\ number'[d] = number[d] /\ query'[d] = query[d]
      BY <1>1, <1>2, <1>3 DEF DuckdbTypeInv, Busy
    <3> QED BY <1>1, <2>2, <3>1, <3>2 DEF FileInv
  <2> QED BY <1>1, <2>1, <2>2
<1>7. TheDuckdb!AnswerIsItsOwn'
  BY <1>1 DEF TheDuckdb!AnswerIsItsOwn, DuckdbTypeInv, TheDuckdb!Nothing
<1>8. TheDuckdb!CleansUp'
  <2> SUFFICES ASSUME NEW f \in scratch'
               PROVE  f.n \in lost' \/ \E d \in Callers : number'[d] = f.n /\ pc'[d] # "idle"
    BY DEF TheDuckdb!CleansUp
  <2>1. CASE f = [kind |-> "said", n |-> runs, by |-> c]
    BY <1>1, <1>3, <2>1 DEF DuckdbTypeInv
  <2>2. CASE f \in scratch
    BY <1>1, <1>3, <2>2 DEF TheDuckdb!CleansUp, DuckdbTypeInv
  <2> QED BY <1>1, <2>1, <2>2
<1> QED BY <1>4, <1>5, <1>6, <1>7, <1>8

\* A child writes under the number of the one that waits for it.
LEMMA ChildKeeps ==
  ASSUME DuckdbInv, NEW c \in Callers, TheDuckdb!ChildWrites(c)
  PROVE  DuckdbInv'
<1> USE DEF DuckdbInv
<1>1. Busy(c) /\ UNCHANGED <<runs, pc, number, query, answer, lost>>
  BY DEF TheDuckdb!ChildWrites, NumberInv
<1>2. PICK kind \in TheDuckdb!Kinds :
        /\ scratch' \in {scratch, TheDuckdb!Write(kind, number[c], c)}
        /\ scratch' # scratch => query[c] \/ kind = "said"
  BY DEF TheDuckdb!ChildWrites, TheDuckdb!Kinds
<1>3. child' \in [Callers -> {"none", "types", "rows", "exited", "failed"}]
      /\ \A d \in Callers : d # c => child'[d] = child[d]
  BY DEF TheDuckdb!ChildWrites, DuckdbTypeInv
<1>4. \A f \in scratch' : f \in scratch \/ (f = [kind |-> kind, n |-> number[c], by |-> c]
                                               /\ (query[c] \/ kind = "said"))
  BY <1>2 DEF TheDuckdb!Write
<1>5. DuckdbTypeInv'
  BY <1>1, <1>2, <1>3, <1>4 DEF DuckdbTypeInv
<1>6. NumberInv'
  BY <1>1, <1>3 DEF NumberInv, Busy
<1>7. FileInv'
  <2> SUFFICES ASSUME NEW f \in scratch', NEW d \in Callers
               PROVE  f.n < runs /\ (Busy(d) /\ number[d] = f.n =>
                                       f.by = d /\ (~query[d] => f.kind = "said"))
    BY <1>1 DEF FileInv, Busy
  <2>1. CASE f \in scratch
    BY <2>1 DEF FileInv
  <2>2. CASE f = [kind |-> kind, n |-> number[c], by |-> c] /\ (query[c] \/ kind = "said")
    BY <1>1, <2>2 DEF NumberInv
  <2> QED BY <1>4, <2>1, <2>2
<1>8. TheDuckdb!AnswerIsItsOwn' /\ TheDuckdb!CleansUp'
  BY <1>1, <1>4 DEF TheDuckdb!AnswerIsItsOwn, TheDuckdb!CleansUp, Busy
<1> QED BY <1>5, <1>6, <1>7, <1>8

\* A run ends: of its files nothing is left, or its number is lost.
LEMMA EndKeeps ==
  ASSUME DuckdbInv, NEW c \in Callers, Busy(c), NEW kinds \in SUBSET TheDuckdb!Kinds, NEW what,
         scratch' = TheDuckdb!Remove(kinds, number[c]),
         kinds = TheDuckdb!Kinds \/ (kinds = {"said"} /\ ~query[c]) \/ number[c] \in lost',
         lost' \in {lost, lost \cup {number[c]}},
         answer' = [answer EXCEPT ![c] = what],
         "by" \in DOMAIN what => what.by = c,
         pc' = [pc EXCEPT ![c] = "idle"],
         child' = [child EXCEPT ![c] = "none"],
         UNCHANGED <<runs, number, query>>
  PROVE  DuckdbInv'
<1> USE DEF DuckdbInv
<1>1. scratch' \subseteq scratch
  BY DEF TheDuckdb!Remove
<1>2. DuckdbTypeInv'
  <2>1. lost' \subseteq Nat
    BY DEF DuckdbTypeInv
  <2>2. answer' = [d \in Callers |-> answer'[d]]
    BY DEF DuckdbTypeInv
  <2>3. pc' \in [Callers -> {"idle", "waiting", "killing", "left"}]
    BY DEF DuckdbTypeInv
  <2>4. child' \in [Callers -> {"none", "types", "rows", "exited", "failed"}]
    BY DEF DuckdbTypeInv
  <2> QED BY <1>1, <2>1, <2>2, <2>3, <2>4 DEF DuckdbTypeInv
<1>3. \A d \in Callers : Busy(d)' => Busy(d) /\ d # c
  BY DEF Busy, DuckdbTypeInv
<1>4. NumberInv'
  BY <1>3 DEF NumberInv, Busy, DuckdbTypeInv
<1>5. FileInv'
  BY <1>1, <1>3 DEF FileInv, Busy
<1>6. TheDuckdb!AnswerIsItsOwn'
  BY DEF TheDuckdb!AnswerIsItsOwn, DuckdbTypeInv
<1>7. TheDuckdb!CleansUp'
  <2> SUFFICES ASSUME NEW f \in scratch'
               PROVE  f.n \in lost' \/ \E d \in Callers : number[d] = f.n /\ pc'[d] # "idle"
    BY DEF TheDuckdb!CleansUp
  <2>1. CASE f.n = number[c]
    <3>1. f \in scratch /\ f.kind \in TheDuckdb!Kinds /\ f.kind \notin kinds
      BY <1>1, <2>1 DEF TheDuckdb!Remove, DuckdbTypeInv
    <3>2. ~query[c] => f.kind = "said"
      BY <2>1, <3>1 DEF FileInv
    <3> QED BY <2>1, <3>1, <3>2
  <2>2. CASE f.n # number[c]
    BY <1>1, <2>2 DEF TheDuckdb!CleansUp, DuckdbTypeInv
  <2> QED BY <2>1, <2>2
<1> QED BY <1>2, <1>4, <1>5, <1>6, <1>7

\* The four ends of a run that is waited for.
LEMMA EndsKeep ==
  ASSUME DuckdbInv, NEW c \in Callers, TheDuckdb!Failed(c) \/ TheDuckdb!Succeeded(c) \/ TheDuckdb!KillAndRemove(c)
  PROVE  DuckdbInv'
<1>1. Busy(c)
  BY DEF TheDuckdb!Failed, TheDuckdb!Succeeded, TheDuckdb!KillAndRemove, Busy
<1>2. CASE TheDuckdb!Failed(c)
  <2>1. TheDuckdb!By("said", number[c]) = c
    BY <1>1, <1>2, OwnFile DEF TheDuckdb!Failed, TheDuckdb!Kinds
  <2> DEFINE what == [said |-> "error", by |-> TheDuckdb!By("said", number[c])]
  <2>2. "by" \in DOMAIN what => what.by = c
    BY <2>1
  <2> HIDE DEF what
  <2> QED BY <1>1, <1>2, <2>2, EndKeeps DEF TheDuckdb!Failed, TheDuckdb!Says, what
<1>3. CASE TheDuckdb!KillAndRemove(c)
  BY <1>1, <1>3, EndKeeps DEF TheDuckdb!KillAndRemove, TheDuckdb!Says
<1>4. CASE TheDuckdb!Succeeded(c)
  <2>1. CASE ~query[c]
    BY <1>1, <1>4, <2>1, EndKeeps DEF TheDuckdb!Succeeded, TheDuckdb!Says, TheDuckdb!Kinds
  <2>2. CASE /\ TheDuckdb!Exists("types", number[c]) /\ TheDuckdb!Exists("rows", number[c])
             /\ TheDuckdb!Says(c, [said |-> "rows", by |-> TheDuckdb!By("rows", number[c])])
             /\ scratch' = TheDuckdb!Remove(TheDuckdb!Kinds, number[c]) /\ UNCHANGED lost
    <3>1. TheDuckdb!By("rows", number[c]) = c
      BY <1>1, <2>2, OwnFile DEF TheDuckdb!Kinds
    <3> QED BY <1>1, <1>4, <2>2, <3>1, EndKeeps DEF TheDuckdb!Succeeded, TheDuckdb!Says
  <2>3. CASE /\ TheDuckdb!Says(c, [said |-> "broken"])
             /\ \/ scratch' = TheDuckdb!Remove({"said"}, number[c]) /\ lost' = lost \cup {number[c]}
                \/ scratch' = TheDuckdb!Remove(TheDuckdb!Kinds, number[c]) /\ UNCHANGED lost
    <3>1. "by" \notin DOMAIN [said |-> "broken"]
      OBVIOUS
    <3> QED BY <1>1, <1>4, <2>3, <3>1, EndKeeps DEF TheDuckdb!Succeeded, TheDuckdb!Says, TheDuckdb!Kinds
  <2> QED BY <1>4, <2>1, <2>2, <2>3 DEF TheDuckdb!Succeeded
<1> QED BY <1>2, <1>3, <1>4

\* A limit that passed, and a wait that failed.
LEMMA WaitKeeps ==
  ASSUME DuckdbInv, NEW c \in Callers, TheDuckdb!TimeOut(c) \/ TheDuckdb!WaitFails(c)
  PROVE  DuckdbInv'
<1> USE DEF DuckdbInv
<1>1. /\ Busy(c) /\ UNCHANGED <<runs, number, query, child, scratch>>
      /\ pc' \in {[pc EXCEPT ![c] = "killing"], [pc EXCEPT ![c] = "left"]}
      /\ lost' \in {lost, lost \cup {number[c]}}
      /\ answer' \in {answer, [answer EXCEPT ![c] = [said |-> "broken"]]}
  BY DEF TheDuckdb!TimeOut, TheDuckdb!WaitFails, TheDuckdb!Says, Busy
<1>2. \A d \in Callers : Busy(d)' <=> Busy(d)
  BY <1>1 DEF Busy, DuckdbTypeInv
<1>3. DuckdbTypeInv'
  <2>1. lost' \subseteq Nat
    BY <1>1 DEF DuckdbTypeInv
  <2>2. answer' = [d \in Callers |-> answer'[d]]
    BY <1>1 DEF DuckdbTypeInv
  <2>3. pc' \in [Callers -> {"idle", "waiting", "killing", "left"}]
    BY <1>1 DEF DuckdbTypeInv
  <2> QED BY <1>1, <2>1, <2>2, <2>3 DEF DuckdbTypeInv
<1>4. NumberInv' /\ FileInv'
  BY <1>1, <1>2 DEF NumberInv, FileInv
<1>5. TheDuckdb!AnswerIsItsOwn'
  <2>1. "by" \notin DOMAIN [said |-> "broken"]
    OBVIOUS
  <2> QED BY <1>1, <2>1 DEF TheDuckdb!AnswerIsItsOwn, DuckdbTypeInv
<1>6. TheDuckdb!CleansUp'
  BY <1>1, <1>2 DEF TheDuckdb!CleansUp, Busy
<1> QED BY <1>3, <1>4, <1>5, <1>6

LEMMA DrivingKeeps == ASSUME DuckdbInv, TheDuckdb!Next PROVE DuckdbInv'
  BY SpawnKeeps, ChildKeeps, EndsKeep, WaitKeeps DEF TheDuckdb!Next

LEMMA DuckdbStays == ASSUME DuckdbInv, UNCHANGED duckdbVars PROVE DuckdbInv'
  BY DEF duckdbVars, DuckdbInv, DuckdbTypeInv, NumberInv, FileInv, TheDuckdb!AnswerIsItsOwn,
         TheDuckdb!CleansUp, Busy

-----------------------------------------------------------------------------
(***************************************************************************)
(* wire, the lemmas.  A definition by recursion is a function on the first *)
(* so many naturals; what holds of all of its values is shown over a set   *)
(* of them that has zero and goes on to the next.                          *)
(***************************************************************************)
\* A set of naturals that has a member has a least one.
LEMMA LeastNat ==
  ASSUME NEW T, T \subseteq Nat, T # {}
  PROVE  \E x \in T : \A y \in T : x <= y
<1>1. IsWellFoundedOn(OpToRel(<, Nat), Nat)
  BY NatLessThanWellFounded
<1>2. PICK x \in T : \A y \in T : ~(<<y, x>> \in OpToRel(<, Nat))
  BY <1>1, WFMin
<1>3. \A y \in T : ~(y < x)
  BY <1>2 DEF OpToRel
<1> QED BY <1>3

\* What holds of zero and goes on to the next holds of all up to n.
LEMMA Onwards ==
  ASSUME NEW n \in Nat, NEW S, 0 \in S, \A k \in 0..(n - 1) : k \in S => k + 1 \in S
  PROVE  \A k \in 0..n : k \in S
<1> DEFINE Bad == {k \in 0..n : k \notin S}
<1>1. \A k : k \in Bad <=> k \in 0..n /\ k \notin S
  OBVIOUS
<1> HIDE DEF Bad
<1>2. CASE Bad # {}
  <2>1. PICK k \in Bad : \A j \in Bad : k <= j
    BY <1>1, <1>2, LeastNat
  <2>2. k \in 0..n /\ k # 0 /\ k \notin S
    BY <1>1
  <2>3. k - 1 \in 0..(n - 1) /\ k - 1 \notin Bad /\ (k - 1) + 1 = k
    BY <2>1, <2>2, <1>1
  <2>4. k - 1 \in S
    BY <1>1, <2>2, <2>3
  <2> QED BY <2>2, <2>3, <2>4
<1> QED BY <1>1, <1>2

-----------------------------------------------------------------------------
(***************************************************************************)
(* What is made of a list from its first element on, one after the other:  *)
(* there is such a thing, and it goes on with the list.                    *)
(***************************************************************************)

\* Lists one behind the other, and one more.
LEMMA ConcatSteps ==
  ASSUME NEW E, NEW s \in Seq(E)
  PROVE  /\ TheWire!Concat(<<>>) = <<>>
         /\ \A c \in E : TheWire!Concat(Append(s, c)) = TheWire!Concat(s) \o c
<1> DEFINE base == <<>>
           Made(a, c) == a \o c
           Is(f, r) == f = [i \in 0..Len(r) |-> IF i = 0 THEN base ELSE Made(f[i - 1], r[i])]
           up(r) == CHOOSE f : Is(f, r)
<1>1. \A r : TheWire!Concat(r) = up(r)[Len(r)]
  BY DEF TheWire!Concat
<1>2. \A a, c : Made(a, c) = a \o c
  OBVIOUS
<1> HIDE DEF base, Made
<1>3. ASSUME NEW r \in Seq(E)
      PROVE  /\ up(r)[0] = base
             /\ \A i \in 1..Len(r) : up(r)[i] = Made(up(r)[i - 1], r[i])
  <2> DEFINE Upto(n, f) == f = [i \in 0..n |-> IF i = 0 THEN base ELSE Made(f[i - 1], r[i])]
             Good == {n \in 0..Len(r) : \E f : Upto(n, f)}
  <2>1. Len(r) \in Nat
    OBVIOUS
  <2>2. 0 \in Good
    <3> DEFINE f == [i \in 0..0 |-> base]
    <3>1. Upto(0, f)
      <4>1. \A i \in 0..0 : i = 0
        OBVIOUS
      <4>2. f = [i \in 0..0 |-> IF i = 0 THEN base ELSE Made(f[i - 1], r[i])]
        BY <4>1, Zenon
      <4> QED BY <4>2
    <3> HIDE DEF Upto, f
    <3> QED BY <2>1, <3>1
  <2>3. ASSUME NEW n \in 0..(Len(r) - 1), n \in Good
        PROVE  n + 1 \in Good
    <3>1. PICK g : Upto(n, g)
      BY <2>3
    <3> DEFINE f == [i \in 0..(n + 1) |-> IF i = 0 THEN base ELSE Made(g[i - 1], r[i])]
    <3>2. \A i \in 0..n : f[i] = g[i]
      BY <3>1
    <3>3. \A i \in 0..(n + 1) : i # 0 => i - 1 \in 0..n
      OBVIOUS
    <3>4. \A i \in 0..(n + 1) : i # 0 => f[i - 1] = g[i - 1]
      BY <3>2, <3>3
    <3>5. Upto(n + 1, f)
      BY <3>4
    <3> HIDE DEF Upto, f
    <3> QED BY <2>1, <3>5
  <2>4. Len(r) \in 0..Len(r)
    BY <2>1
  <2>5. Len(r) \in Good
    <3> HIDE DEF Good
    <3> QED BY <2>1, <2>2, <2>3, <2>4, Onwards
  <2>6. \E f : Is(f, r)
    BY <2>5
  <2>7. Is(up(r), r)
    <3> HIDE DEF Is
    <3> QED BY <2>6
  <2> DEFINE u == up(r)
  <2> HIDE DEF u
  <2>8. u = [i \in 0..Len(r) |-> IF i = 0 THEN base ELSE Made(u[i - 1], r[i])]
    BY <2>7 DEF u
  <2>9. \A i \in 1..Len(r) : i \in 0..Len(r) /\ i # 0
    BY <2>1
  <2>10. 0 \in 0..Len(r)
    BY <2>1
  <2>11. u[0] = base /\ \A i \in 1..Len(r) : u[i] = Made(u[i - 1], r[i])
    BY <2>8, <2>9, <2>10
  <2> HIDE DEF up
  <2> QED BY <2>11 DEF u
<1> HIDE DEF up
<1>4. TheWire!Concat(<<>>) = base
  <2>1. <<>> \in Seq(E) /\ Len(<<>>) = 0
    OBVIOUS
  <2> QED BY <1>1, <1>3, <2>1
<1>5. ASSUME NEW c \in E
      PROVE  TheWire!Concat(Append(s, c)) = Made(TheWire!Concat(s), c)
  <2> DEFINE t == Append(s, c)
             n == Len(s)
             f == up(s)
             g == up(t)
  <2>1. n \in Nat /\ t \in Seq(E) /\ Len(t) = n + 1 /\ t[n + 1] = c /\ \A i \in 1..n : t[i] = s[i]
    OBVIOUS
  <2> HIDE DEF t, n
  <2>2. f[0] = base /\ \A i \in 1..n : f[i] = Made(f[i - 1], s[i])
    BY <1>3 DEF n
  <2>3. g[0] = base /\ \A i \in 1..(n + 1) : g[i] = Made(g[i - 1], t[i])
    BY <1>3, <2>1
  <2> HIDE DEF f, g
  <2> DEFINE Good == {i \in 0..n : g[i] = f[i]}
  <2>4. 0 \in Good
    BY <2>1, <2>2, <2>3
  <2>5. ASSUME NEW i \in 0..(n - 1), i \in Good PROVE i + 1 \in Good
    <3>1. i + 1 \in 1..n /\ i + 1 \in 1..(n + 1) /\ i + 1 \in 0..n /\ (i + 1) - 1 = i
      BY <2>1
    <3>2. f[i + 1] = Made(f[i], s[i + 1])
      BY <2>2, <3>1
    <3>3. g[i + 1] = Made(g[i], t[i + 1])
      BY <2>3, <3>1
    <3> QED BY <2>1, <2>5, <3>1, <3>2, <3>3
  <2>6. n \in Good
    <3>1. n \in 0..n
      BY <2>1
    <3> HIDE DEF Good
    <3> QED BY <2>1, <2>4, <2>5, <3>1, Onwards
  <2>7. n + 1 \in 1..(n + 1) /\ (n + 1) - 1 = n
    BY <2>1
  <2>8. g[n + 1] = Made(f[n], c)
    BY <2>1, <2>3, <2>6, <2>7
  <2> QED BY <1>1, <2>1, <2>8 DEF f, g, t, n
<1> QED BY <1>2, <1>4, <1>5 DEF base

\* A number, and a digit more.
LEMMA ValueSteps ==
  ASSUME NEW E, NEW s \in Seq(E)
  PROVE  /\ TheWire!Value(<<>>) = 0
         /\ \A c \in E : TheWire!Value(Append(s, c)) = 10 * TheWire!Value(s) + TheWire!DigitOf(c)
<1> DEFINE base == 0
           Made(a, c) == 10 * a + TheWire!DigitOf(c)
           Is(f, r) == f = [i \in 0..Len(r) |-> IF i = 0 THEN base ELSE Made(f[i - 1], r[i])]
           up(r) == CHOOSE f : Is(f, r)
<1>1. \A r : TheWire!Value(r) = up(r)[Len(r)]
  BY DEF TheWire!Value
<1>2. \A a, c : Made(a, c) = 10 * a + TheWire!DigitOf(c)
  OBVIOUS
<1> HIDE DEF base, Made
<1>3. ASSUME NEW r \in Seq(E)
      PROVE  /\ up(r)[0] = base
             /\ \A i \in 1..Len(r) : up(r)[i] = Made(up(r)[i - 1], r[i])
  <2> DEFINE Upto(n, f) == f = [i \in 0..n |-> IF i = 0 THEN base ELSE Made(f[i - 1], r[i])]
             Good == {n \in 0..Len(r) : \E f : Upto(n, f)}
  <2>1. Len(r) \in Nat
    OBVIOUS
  <2>2. 0 \in Good
    <3> DEFINE f == [i \in 0..0 |-> base]
    <3>1. Upto(0, f)
      <4>1. \A i \in 0..0 : i = 0
        OBVIOUS
      <4>2. f = [i \in 0..0 |-> IF i = 0 THEN base ELSE Made(f[i - 1], r[i])]
        BY <4>1, Zenon
      <4> QED BY <4>2
    <3> HIDE DEF Upto, f
    <3> QED BY <2>1, <3>1
  <2>3. ASSUME NEW n \in 0..(Len(r) - 1), n \in Good
        PROVE  n + 1 \in Good
    <3>1. PICK g : Upto(n, g)
      BY <2>3
    <3> DEFINE f == [i \in 0..(n + 1) |-> IF i = 0 THEN base ELSE Made(g[i - 1], r[i])]
    <3>2. \A i \in 0..n : f[i] = g[i]
      BY <3>1
    <3>3. \A i \in 0..(n + 1) : i # 0 => i - 1 \in 0..n
      OBVIOUS
    <3>4. \A i \in 0..(n + 1) : i # 0 => f[i - 1] = g[i - 1]
      BY <3>2, <3>3
    <3>5. Upto(n + 1, f)
      BY <3>4
    <3> HIDE DEF Upto, f
    <3> QED BY <2>1, <3>5
  <2>4. Len(r) \in 0..Len(r)
    BY <2>1
  <2>5. Len(r) \in Good
    <3> HIDE DEF Good
    <3> QED BY <2>1, <2>2, <2>3, <2>4, Onwards
  <2>6. \E f : Is(f, r)
    BY <2>5
  <2>7. Is(up(r), r)
    <3> HIDE DEF Is
    <3> QED BY <2>6
  <2> DEFINE u == up(r)
  <2> HIDE DEF u
  <2>8. u = [i \in 0..Len(r) |-> IF i = 0 THEN base ELSE Made(u[i - 1], r[i])]
    BY <2>7 DEF u
  <2>9. \A i \in 1..Len(r) : i \in 0..Len(r) /\ i # 0
    BY <2>1
  <2>10. 0 \in 0..Len(r)
    BY <2>1
  <2>11. u[0] = base /\ \A i \in 1..Len(r) : u[i] = Made(u[i - 1], r[i])
    BY <2>8, <2>9, <2>10
  <2> HIDE DEF up
  <2> QED BY <2>11 DEF u
<1> HIDE DEF up
<1>4. TheWire!Value(<<>>) = base
  <2>1. <<>> \in Seq(E) /\ Len(<<>>) = 0
    OBVIOUS
  <2> QED BY <1>1, <1>3, <2>1
<1>5. ASSUME NEW c \in E
      PROVE  TheWire!Value(Append(s, c)) = Made(TheWire!Value(s), c)
  <2> DEFINE t == Append(s, c)
             n == Len(s)
             f == up(s)
             g == up(t)
  <2>1. n \in Nat /\ t \in Seq(E) /\ Len(t) = n + 1 /\ t[n + 1] = c /\ \A i \in 1..n : t[i] = s[i]
    OBVIOUS
  <2> HIDE DEF t, n
  <2>2. f[0] = base /\ \A i \in 1..n : f[i] = Made(f[i - 1], s[i])
    BY <1>3 DEF n
  <2>3. g[0] = base /\ \A i \in 1..(n + 1) : g[i] = Made(g[i - 1], t[i])
    BY <1>3, <2>1
  <2> HIDE DEF f, g
  <2> DEFINE Good == {i \in 0..n : g[i] = f[i]}
  <2>4. 0 \in Good
    BY <2>1, <2>2, <2>3
  <2>5. ASSUME NEW i \in 0..(n - 1), i \in Good PROVE i + 1 \in Good
    <3>1. i + 1 \in 1..n /\ i + 1 \in 1..(n + 1) /\ i + 1 \in 0..n /\ (i + 1) - 1 = i
      BY <2>1
    <3>2. f[i + 1] = Made(f[i], s[i + 1])
      BY <2>2, <3>1
    <3>3. g[i + 1] = Made(g[i], t[i + 1])
      BY <2>3, <3>1
    <3> QED BY <2>1, <2>5, <3>1, <3>2, <3>3
  <2>6. n \in Good
    <3>1. n \in 0..n
      BY <2>1
    <3> HIDE DEF Good
    <3> QED BY <2>1, <2>4, <2>5, <3>1, Onwards
  <2>7. n + 1 \in 1..(n + 1) /\ (n + 1) - 1 = n
    BY <2>1
  <2>8. g[n + 1] = Made(f[n], c)
    BY <2>1, <2>3, <2>6, <2>7
  <2> QED BY <1>1, <2>1, <2>8 DEF f, g, t, n
<1> QED BY <1>2, <1>4, <1>5 DEF base

\* A text, and a character more.
LEMMA PiecesSteps ==
  ASSUME NEW at, NEW E, NEW s \in Seq(E)
  PROVE  /\ TheWire!Pieces(<<>>, at) = <<<<>>>>
         /\ \A c \in E : TheWire!Pieces(Append(s, c), at) = (IF c = at THEN Append(TheWire!Pieces(s, at), <<>>) ELSE TheWire!Longer(TheWire!Pieces(s, at), c))
<1> DEFINE base == <<<<>>>>
           Made(a, c) == (IF c = at THEN Append(a, <<>>) ELSE TheWire!Longer(a, c))
           Is(f, r) == f = [i \in 0..Len(r) |-> IF i = 0 THEN base ELSE Made(f[i - 1], r[i])]
           up(r) == CHOOSE f : Is(f, r)
<1>1. \A r : TheWire!Pieces(r, at) = up(r)[Len(r)]
  BY DEF TheWire!Pieces
<1>2. \A a, c : Made(a, c) = (IF c = at THEN Append(a, <<>>) ELSE TheWire!Longer(a, c))
  OBVIOUS
<1> HIDE DEF base, Made
<1>3. ASSUME NEW r \in Seq(E)
      PROVE  /\ up(r)[0] = base
             /\ \A i \in 1..Len(r) : up(r)[i] = Made(up(r)[i - 1], r[i])
  <2> DEFINE Upto(n, f) == f = [i \in 0..n |-> IF i = 0 THEN base ELSE Made(f[i - 1], r[i])]
             Good == {n \in 0..Len(r) : \E f : Upto(n, f)}
  <2>1. Len(r) \in Nat
    OBVIOUS
  <2>2. 0 \in Good
    <3> DEFINE f == [i \in 0..0 |-> base]
    <3>1. Upto(0, f)
      <4>1. \A i \in 0..0 : i = 0
        OBVIOUS
      <4>2. f = [i \in 0..0 |-> IF i = 0 THEN base ELSE Made(f[i - 1], r[i])]
        BY <4>1, Zenon
      <4> QED BY <4>2
    <3> HIDE DEF Upto, f
    <3> QED BY <2>1, <3>1
  <2>3. ASSUME NEW n \in 0..(Len(r) - 1), n \in Good
        PROVE  n + 1 \in Good
    <3>1. PICK g : Upto(n, g)
      BY <2>3
    <3> DEFINE f == [i \in 0..(n + 1) |-> IF i = 0 THEN base ELSE Made(g[i - 1], r[i])]
    <3>2. \A i \in 0..n : f[i] = g[i]
      BY <3>1
    <3>3. \A i \in 0..(n + 1) : i # 0 => i - 1 \in 0..n
      OBVIOUS
    <3>4. \A i \in 0..(n + 1) : i # 0 => f[i - 1] = g[i - 1]
      BY <3>2, <3>3
    <3>5. Upto(n + 1, f)
      BY <3>4
    <3> HIDE DEF Upto, f
    <3> QED BY <2>1, <3>5
  <2>4. Len(r) \in 0..Len(r)
    BY <2>1
  <2>5. Len(r) \in Good
    <3> HIDE DEF Good
    <3> QED BY <2>1, <2>2, <2>3, <2>4, Onwards
  <2>6. \E f : Is(f, r)
    BY <2>5
  <2>7. Is(up(r), r)
    <3> HIDE DEF Is
    <3> QED BY <2>6
  <2> DEFINE u == up(r)
  <2> HIDE DEF u
  <2>8. u = [i \in 0..Len(r) |-> IF i = 0 THEN base ELSE Made(u[i - 1], r[i])]
    BY <2>7 DEF u
  <2>9. \A i \in 1..Len(r) : i \in 0..Len(r) /\ i # 0
    BY <2>1
  <2>10. 0 \in 0..Len(r)
    BY <2>1
  <2>11. u[0] = base /\ \A i \in 1..Len(r) : u[i] = Made(u[i - 1], r[i])
    BY <2>8, <2>9, <2>10
  <2> HIDE DEF up
  <2> QED BY <2>11 DEF u
<1> HIDE DEF up
<1>4. TheWire!Pieces(<<>>, at) = base
  <2>1. <<>> \in Seq(E) /\ Len(<<>>) = 0
    OBVIOUS
  <2> QED BY <1>1, <1>3, <2>1
<1>5. ASSUME NEW c \in E
      PROVE  TheWire!Pieces(Append(s, c), at) = Made(TheWire!Pieces(s, at), c)
  <2> DEFINE t == Append(s, c)
             n == Len(s)
             f == up(s)
             g == up(t)
  <2>1. n \in Nat /\ t \in Seq(E) /\ Len(t) = n + 1 /\ t[n + 1] = c /\ \A i \in 1..n : t[i] = s[i]
    OBVIOUS
  <2> HIDE DEF t, n
  <2>2. f[0] = base /\ \A i \in 1..n : f[i] = Made(f[i - 1], s[i])
    BY <1>3 DEF n
  <2>3. g[0] = base /\ \A i \in 1..(n + 1) : g[i] = Made(g[i - 1], t[i])
    BY <1>3, <2>1
  <2> HIDE DEF f, g
  <2> DEFINE Good == {i \in 0..n : g[i] = f[i]}
  <2>4. 0 \in Good
    BY <2>1, <2>2, <2>3
  <2>5. ASSUME NEW i \in 0..(n - 1), i \in Good PROVE i + 1 \in Good
    <3>1. i + 1 \in 1..n /\ i + 1 \in 1..(n + 1) /\ i + 1 \in 0..n /\ (i + 1) - 1 = i
      BY <2>1
    <3>2. f[i + 1] = Made(f[i], s[i + 1])
      BY <2>2, <3>1
    <3>3. g[i + 1] = Made(g[i], t[i + 1])
      BY <2>3, <3>1
    <3> QED BY <2>1, <2>5, <3>1, <3>2, <3>3
  <2>6. n \in Good
    <3>1. n \in 0..n
      BY <2>1
    <3> HIDE DEF Good
    <3> QED BY <2>1, <2>4, <2>5, <3>1, Onwards
  <2>7. n + 1 \in 1..(n + 1) /\ (n + 1) - 1 = n
    BY <2>1
  <2>8. g[n + 1] = Made(f[n], c)
    BY <2>1, <2>3, <2>6, <2>7
  <2> QED BY <1>1, <2>1, <2>8 DEF f, g, t, n
<1> QED BY <1>2, <1>4, <1>5 DEF base

\* A word, and a character more.
LEMMA HearingSteps ==
  ASSUME NEW E, NEW s \in Seq(E)
  PROVE  /\ TheWire!Hearing(<<>>) = [out |-> <<>>, after |-> FALSE]
         /\ \A c \in E : TheWire!Hearing(Append(s, c)) = TheWire!Heard(TheWire!Hearing(s), c)
<1> DEFINE base == [out |-> <<>>, after |-> FALSE]
           Made(a, c) == TheWire!Heard(a, c)
           Is(f, r) == f = [i \in 0..Len(r) |-> IF i = 0 THEN base ELSE Made(f[i - 1], r[i])]
           up(r) == CHOOSE f : Is(f, r)
<1>1. \A r : TheWire!Hearing(r) = up(r)[Len(r)]
  BY DEF TheWire!Hearing
<1>2. \A a, c : Made(a, c) = TheWire!Heard(a, c)
  OBVIOUS
<1> HIDE DEF base, Made
<1>3. ASSUME NEW r \in Seq(E)
      PROVE  /\ up(r)[0] = base
             /\ \A i \in 1..Len(r) : up(r)[i] = Made(up(r)[i - 1], r[i])
  <2> DEFINE Upto(n, f) == f = [i \in 0..n |-> IF i = 0 THEN base ELSE Made(f[i - 1], r[i])]
             Good == {n \in 0..Len(r) : \E f : Upto(n, f)}
  <2>1. Len(r) \in Nat
    OBVIOUS
  <2>2. 0 \in Good
    <3> DEFINE f == [i \in 0..0 |-> base]
    <3>1. Upto(0, f)
      <4>1. \A i \in 0..0 : i = 0
        OBVIOUS
      <4>2. f = [i \in 0..0 |-> IF i = 0 THEN base ELSE Made(f[i - 1], r[i])]
        BY <4>1, Zenon
      <4> QED BY <4>2
    <3> HIDE DEF Upto, f
    <3> QED BY <2>1, <3>1
  <2>3. ASSUME NEW n \in 0..(Len(r) - 1), n \in Good
        PROVE  n + 1 \in Good
    <3>1. PICK g : Upto(n, g)
      BY <2>3
    <3> DEFINE f == [i \in 0..(n + 1) |-> IF i = 0 THEN base ELSE Made(g[i - 1], r[i])]
    <3>2. \A i \in 0..n : f[i] = g[i]
      BY <3>1
    <3>3. \A i \in 0..(n + 1) : i # 0 => i - 1 \in 0..n
      OBVIOUS
    <3>4. \A i \in 0..(n + 1) : i # 0 => f[i - 1] = g[i - 1]
      BY <3>2, <3>3
    <3>5. Upto(n + 1, f)
      BY <3>4
    <3> HIDE DEF Upto, f
    <3> QED BY <2>1, <3>5
  <2>4. Len(r) \in 0..Len(r)
    BY <2>1
  <2>5. Len(r) \in Good
    <3> HIDE DEF Good
    <3> QED BY <2>1, <2>2, <2>3, <2>4, Onwards
  <2>6. \E f : Is(f, r)
    BY <2>5
  <2>7. Is(up(r), r)
    <3> HIDE DEF Is
    <3> QED BY <2>6
  <2> DEFINE u == up(r)
  <2> HIDE DEF u
  <2>8. u = [i \in 0..Len(r) |-> IF i = 0 THEN base ELSE Made(u[i - 1], r[i])]
    BY <2>7 DEF u
  <2>9. \A i \in 1..Len(r) : i \in 0..Len(r) /\ i # 0
    BY <2>1
  <2>10. 0 \in 0..Len(r)
    BY <2>1
  <2>11. u[0] = base /\ \A i \in 1..Len(r) : u[i] = Made(u[i - 1], r[i])
    BY <2>8, <2>9, <2>10
  <2> HIDE DEF up
  <2> QED BY <2>11 DEF u
<1> HIDE DEF up
<1>4. TheWire!Hearing(<<>>) = base
  <2>1. <<>> \in Seq(E) /\ Len(<<>>) = 0
    OBVIOUS
  <2> QED BY <1>1, <1>3, <2>1
<1>5. ASSUME NEW c \in E
      PROVE  TheWire!Hearing(Append(s, c)) = Made(TheWire!Hearing(s), c)
  <2> DEFINE t == Append(s, c)
             n == Len(s)
             f == up(s)
             g == up(t)
  <2>1. n \in Nat /\ t \in Seq(E) /\ Len(t) = n + 1 /\ t[n + 1] = c /\ \A i \in 1..n : t[i] = s[i]
    OBVIOUS
  <2> HIDE DEF t, n
  <2>2. f[0] = base /\ \A i \in 1..n : f[i] = Made(f[i - 1], s[i])
    BY <1>3 DEF n
  <2>3. g[0] = base /\ \A i \in 1..(n + 1) : g[i] = Made(g[i - 1], t[i])
    BY <1>3, <2>1
  <2> HIDE DEF f, g
  <2> DEFINE Good == {i \in 0..n : g[i] = f[i]}
  <2>4. 0 \in Good
    BY <2>1, <2>2, <2>3
  <2>5. ASSUME NEW i \in 0..(n - 1), i \in Good PROVE i + 1 \in Good
    <3>1. i + 1 \in 1..n /\ i + 1 \in 1..(n + 1) /\ i + 1 \in 0..n /\ (i + 1) - 1 = i
      BY <2>1
    <3>2. f[i + 1] = Made(f[i], s[i + 1])
      BY <2>2, <3>1
    <3>3. g[i + 1] = Made(g[i], t[i + 1])
      BY <2>3, <3>1
    <3> QED BY <2>1, <2>5, <3>1, <3>2, <3>3
  <2>6. n \in Good
    <3>1. n \in 0..n
      BY <2>1
    <3> HIDE DEF Good
    <3> QED BY <2>1, <2>4, <2>5, <3>1, Onwards
  <2>7. n + 1 \in 1..(n + 1) /\ (n + 1) - 1 = n
    BY <2>1
  <2>8. g[n + 1] = Made(f[n], c)
    BY <2>1, <2>3, <2>6, <2>7
  <2> QED BY <1>1, <2>1, <2>8 DEF f, g, t, n
<1> QED BY <1>2, <1>4, <1>5 DEF base

\* Lines, and one more.
LEMMA ReadingSteps ==
  ASSUME NEW E, NEW s \in Seq(E)
  PROVE  /\ TheWire!ReadEach(<<>>) = TheWire!Nobody
         /\ \A c \in E : TheWire!ReadEach(Append(s, c)) = TheWire!ReadLine(TheWire!ReadEach(s), c)
<1> DEFINE base == TheWire!Nobody
           Made(a, c) == TheWire!ReadLine(a, c)
           Is(f, r) == f = [i \in 0..Len(r) |-> IF i = 0 THEN base ELSE Made(f[i - 1], r[i])]
           up(r) == CHOOSE f : Is(f, r)
<1>1. \A r : TheWire!ReadEach(r) = up(r)[Len(r)]
  BY DEF TheWire!ReadEach
<1>2. \A a, c : Made(a, c) = TheWire!ReadLine(a, c)
  OBVIOUS
<1> HIDE DEF base, Made
<1>3. ASSUME NEW r \in Seq(E)
      PROVE  /\ up(r)[0] = base
             /\ \A i \in 1..Len(r) : up(r)[i] = Made(up(r)[i - 1], r[i])
  <2> DEFINE Upto(n, f) == f = [i \in 0..n |-> IF i = 0 THEN base ELSE Made(f[i - 1], r[i])]
             Good == {n \in 0..Len(r) : \E f : Upto(n, f)}
  <2>1. Len(r) \in Nat
    OBVIOUS
  <2>2. 0 \in Good
    <3> DEFINE f == [i \in 0..0 |-> base]
    <3>1. Upto(0, f)
      <4>1. \A i \in 0..0 : i = 0
        OBVIOUS
      <4>2. f = [i \in 0..0 |-> IF i = 0 THEN base ELSE Made(f[i - 1], r[i])]
        BY <4>1, Zenon
      <4> QED BY <4>2
    <3> HIDE DEF Upto, f
    <3> QED BY <2>1, <3>1
  <2>3. ASSUME NEW n \in 0..(Len(r) - 1), n \in Good
        PROVE  n + 1 \in Good
    <3>1. PICK g : Upto(n, g)
      BY <2>3
    <3> DEFINE f == [i \in 0..(n + 1) |-> IF i = 0 THEN base ELSE Made(g[i - 1], r[i])]
    <3>2. \A i \in 0..n : f[i] = g[i]
      BY <3>1
    <3>3. \A i \in 0..(n + 1) : i # 0 => i - 1 \in 0..n
      OBVIOUS
    <3>4. \A i \in 0..(n + 1) : i # 0 => f[i - 1] = g[i - 1]
      BY <3>2, <3>3
    <3>5. Upto(n + 1, f)
      BY <3>4
    <3> HIDE DEF Upto, f
    <3> QED BY <2>1, <3>5
  <2>4. Len(r) \in 0..Len(r)
    BY <2>1
  <2>5. Len(r) \in Good
    <3> HIDE DEF Good
    <3> QED BY <2>1, <2>2, <2>3, <2>4, Onwards
  <2>6. \E f : Is(f, r)
    BY <2>5
  <2>7. Is(up(r), r)
    <3> HIDE DEF Is
    <3> QED BY <2>6
  <2> DEFINE u == up(r)
  <2> HIDE DEF u
  <2>8. u = [i \in 0..Len(r) |-> IF i = 0 THEN base ELSE Made(u[i - 1], r[i])]
    BY <2>7 DEF u
  <2>9. \A i \in 1..Len(r) : i \in 0..Len(r) /\ i # 0
    BY <2>1
  <2>10. 0 \in 0..Len(r)
    BY <2>1
  <2>11. u[0] = base /\ \A i \in 1..Len(r) : u[i] = Made(u[i - 1], r[i])
    BY <2>8, <2>9, <2>10
  <2> HIDE DEF up
  <2> QED BY <2>11 DEF u
<1> HIDE DEF up
<1>4. TheWire!ReadEach(<<>>) = base
  <2>1. <<>> \in Seq(E) /\ Len(<<>>) = 0
    OBVIOUS
  <2> QED BY <1>1, <1>3, <2>1
<1>5. ASSUME NEW c \in E
      PROVE  TheWire!ReadEach(Append(s, c)) = Made(TheWire!ReadEach(s), c)
  <2> DEFINE t == Append(s, c)
             n == Len(s)
             f == up(s)
             g == up(t)
  <2>1. n \in Nat /\ t \in Seq(E) /\ Len(t) = n + 1 /\ t[n + 1] = c /\ \A i \in 1..n : t[i] = s[i]
    OBVIOUS
  <2> HIDE DEF t, n
  <2>2. f[0] = base /\ \A i \in 1..n : f[i] = Made(f[i - 1], s[i])
    BY <1>3 DEF n
  <2>3. g[0] = base /\ \A i \in 1..(n + 1) : g[i] = Made(g[i - 1], t[i])
    BY <1>3, <2>1
  <2> HIDE DEF f, g
  <2> DEFINE Good == {i \in 0..n : g[i] = f[i]}
  <2>4. 0 \in Good
    BY <2>1, <2>2, <2>3
  <2>5. ASSUME NEW i \in 0..(n - 1), i \in Good PROVE i + 1 \in Good
    <3>1. i + 1 \in 1..n /\ i + 1 \in 1..(n + 1) /\ i + 1 \in 0..n /\ (i + 1) - 1 = i
      BY <2>1
    <3>2. f[i + 1] = Made(f[i], s[i + 1])
      BY <2>2, <3>1
    <3>3. g[i + 1] = Made(g[i], t[i + 1])
      BY <2>3, <3>1
    <3> QED BY <2>1, <2>5, <3>1, <3>2, <3>3
  <2>6. n \in Good
    <3>1. n \in 0..n
      BY <2>1
    <3> HIDE DEF Good
    <3> QED BY <2>1, <2>4, <2>5, <3>1, Onwards
  <2>7. n + 1 \in 1..(n + 1) /\ (n + 1) - 1 = n
    BY <2>1
  <2>8. g[n + 1] = Made(f[n], c)
    BY <2>1, <2>3, <2>6, <2>7
  <2> QED BY <1>1, <2>1, <2>8 DEF f, g, t, n
<1> QED BY <1>2, <1>4, <1>5 DEF base

\* Runs, and one more.
LEMMA PassedSteps ==
  ASSUME NEW E, NEW s \in Seq(E)
  PROVE  /\ TheWire!PassedBy(<<>>) = 0
         /\ \A c \in E : TheWire!PassedBy(Append(s, c)) = TheWire!PassedBy(s) + c.passed
<1> DEFINE base == 0
           Made(a, c) == a + c.passed
           Is(f, r) == f = [i \in 0..Len(r) |-> IF i = 0 THEN base ELSE Made(f[i - 1], r[i])]
           up(r) == CHOOSE f : Is(f, r)
<1>1. \A r : TheWire!PassedBy(r) = up(r)[Len(r)]
  BY DEF TheWire!PassedBy
<1>2. \A a, c : Made(a, c) = a + c.passed
  OBVIOUS
<1> HIDE DEF base, Made
<1>3. ASSUME NEW r \in Seq(E)
      PROVE  /\ up(r)[0] = base
             /\ \A i \in 1..Len(r) : up(r)[i] = Made(up(r)[i - 1], r[i])
  <2> DEFINE Upto(n, f) == f = [i \in 0..n |-> IF i = 0 THEN base ELSE Made(f[i - 1], r[i])]
             Good == {n \in 0..Len(r) : \E f : Upto(n, f)}
  <2>1. Len(r) \in Nat
    OBVIOUS
  <2>2. 0 \in Good
    <3> DEFINE f == [i \in 0..0 |-> base]
    <3>1. Upto(0, f)
      <4>1. \A i \in 0..0 : i = 0
        OBVIOUS
      <4>2. f = [i \in 0..0 |-> IF i = 0 THEN base ELSE Made(f[i - 1], r[i])]
        BY <4>1, Zenon
      <4> QED BY <4>2
    <3> HIDE DEF Upto, f
    <3> QED BY <2>1, <3>1
  <2>3. ASSUME NEW n \in 0..(Len(r) - 1), n \in Good
        PROVE  n + 1 \in Good
    <3>1. PICK g : Upto(n, g)
      BY <2>3
    <3> DEFINE f == [i \in 0..(n + 1) |-> IF i = 0 THEN base ELSE Made(g[i - 1], r[i])]
    <3>2. \A i \in 0..n : f[i] = g[i]
      BY <3>1
    <3>3. \A i \in 0..(n + 1) : i # 0 => i - 1 \in 0..n
      OBVIOUS
    <3>4. \A i \in 0..(n + 1) : i # 0 => f[i - 1] = g[i - 1]
      BY <3>2, <3>3
    <3>5. Upto(n + 1, f)
      BY <3>4
    <3> HIDE DEF Upto, f
    <3> QED BY <2>1, <3>5
  <2>4. Len(r) \in 0..Len(r)
    BY <2>1
  <2>5. Len(r) \in Good
    <3> HIDE DEF Good
    <3> QED BY <2>1, <2>2, <2>3, <2>4, Onwards
  <2>6. \E f : Is(f, r)
    BY <2>5
  <2>7. Is(up(r), r)
    <3> HIDE DEF Is
    <3> QED BY <2>6
  <2> DEFINE u == up(r)
  <2> HIDE DEF u
  <2>8. u = [i \in 0..Len(r) |-> IF i = 0 THEN base ELSE Made(u[i - 1], r[i])]
    BY <2>7 DEF u
  <2>9. \A i \in 1..Len(r) : i \in 0..Len(r) /\ i # 0
    BY <2>1
  <2>10. 0 \in 0..Len(r)
    BY <2>1
  <2>11. u[0] = base /\ \A i \in 1..Len(r) : u[i] = Made(u[i - 1], r[i])
    BY <2>8, <2>9, <2>10
  <2> HIDE DEF up
  <2> QED BY <2>11 DEF u
<1> HIDE DEF up
<1>4. TheWire!PassedBy(<<>>) = base
  <2>1. <<>> \in Seq(E) /\ Len(<<>>) = 0
    OBVIOUS
  <2> QED BY <1>1, <1>3, <2>1
<1>5. ASSUME NEW c \in E
      PROVE  TheWire!PassedBy(Append(s, c)) = Made(TheWire!PassedBy(s), c)
  <2> DEFINE t == Append(s, c)
             n == Len(s)
             f == up(s)
             g == up(t)
  <2>1. n \in Nat /\ t \in Seq(E) /\ Len(t) = n + 1 /\ t[n + 1] = c /\ \A i \in 1..n : t[i] = s[i]
    OBVIOUS
  <2> HIDE DEF t, n
  <2>2. f[0] = base /\ \A i \in 1..n : f[i] = Made(f[i - 1], s[i])
    BY <1>3 DEF n
  <2>3. g[0] = base /\ \A i \in 1..(n + 1) : g[i] = Made(g[i - 1], t[i])
    BY <1>3, <2>1
  <2> HIDE DEF f, g
  <2> DEFINE Good == {i \in 0..n : g[i] = f[i]}
  <2>4. 0 \in Good
    BY <2>1, <2>2, <2>3
  <2>5. ASSUME NEW i \in 0..(n - 1), i \in Good PROVE i + 1 \in Good
    <3>1. i + 1 \in 1..n /\ i + 1 \in 1..(n + 1) /\ i + 1 \in 0..n /\ (i + 1) - 1 = i
      BY <2>1
    <3>2. f[i + 1] = Made(f[i], s[i + 1])
      BY <2>2, <3>1
    <3>3. g[i + 1] = Made(g[i], t[i + 1])
      BY <2>3, <3>1
    <3> QED BY <2>1, <2>5, <3>1, <3>2, <3>3
  <2>6. n \in Good
    <3>1. n \in 0..n
      BY <2>1
    <3> HIDE DEF Good
    <3> QED BY <2>1, <2>4, <2>5, <3>1, Onwards
  <2>7. n + 1 \in 1..(n + 1) /\ (n + 1) - 1 = n
    BY <2>1
  <2>8. g[n + 1] = Made(f[n], c)
    BY <2>1, <2>3, <2>6, <2>7
  <2> QED BY <1>1, <2>1, <2>8 DEF f, g, t, n
<1> QED BY <1>2, <1>4, <1>5 DEF base

-----------------------------------------------------------------------------
(***************************************************************************)
(* What holds of the empty list and goes on with an element more holds of  *)
(* every list.                                                             *)
(***************************************************************************)
LEMMA Prefixes ==
  ASSUME NEW E, NEW s \in Seq(E)
  PROVE  /\ SubSeq(s, 1, 0) = <<>>
         /\ SubSeq(s, 1, Len(s)) = s
         /\ \A k \in 0..(Len(s) - 1) :
              /\ SubSeq(s, 1, k) \in Seq(E)
              /\ s[k + 1] \in E
              /\ SubSeq(s, 1, k + 1) = Append(SubSeq(s, 1, k), s[k + 1])
<1>1. \A k \in 0..(Len(s) - 1) : SubSeq(s, 1, k) \in Seq(E) /\ s[k + 1] \in E
  OBVIOUS
<1>2. ASSUME NEW k \in 0..(Len(s) - 1)
      PROVE  SubSeq(s, 1, k + 1) = Append(SubSeq(s, 1, k), s[k + 1])
  OBVIOUS
<1> QED BY <1>1, <1>2

LEMMA ListsGrow ==
  ASSUME NEW E, NEW s \in Seq(E), NEW G, <<>> \in G,
         \A t \in Seq(E) : t \in G => \A c \in E : Append(t, c) \in G
  PROVE  s \in G
<1> DEFINE Good == {k \in 0..Len(s) : SubSeq(s, 1, k) \in G}
<1>1. Len(s) \in Nat /\ Len(s) \in 0..Len(s) /\ 0 \in 0..Len(s)
  OBVIOUS
<1>2. 0 \in Good
  BY <1>1, Prefixes
<1>3. ASSUME NEW k \in 0..(Len(s) - 1), k \in Good PROVE k + 1 \in Good
  <2>1. SubSeq(s, 1, k) \in Seq(E) /\ s[k + 1] \in E
        /\ SubSeq(s, 1, k + 1) = Append(SubSeq(s, 1, k), s[k + 1])
    BY Prefixes
  <2>2. SubSeq(s, 1, k) \in G
    BY <1>3
  <2>3. SubSeq(s, 1, k + 1) \in G
    BY <2>1, <2>2
  <2>4. k + 1 \in 0..Len(s)
    BY <1>1
  <2> QED BY <2>3, <2>4
<1>4. Len(s) \in Good
  <2> HIDE DEF Good
  <2> QED BY <1>1, <1>2, <1>3, Onwards
<1> QED BY <1>4, Prefixes

LEMMA ConcatIsAList ==
  ASSUME NEW E, NEW s \in Seq(Seq(E))
  PROVE  TheWire!Concat(s) \in Seq(E)
<1> DEFINE G == {t \in Seq(Seq(E)) : TheWire!Concat(t) \in Seq(E)}
<1>1. <<>> \in Seq(Seq(E)) /\ <<>> \in Seq(E)
  OBVIOUS
<1>2. <<>> \in G
  BY <1>1, ConcatSteps
<1>3. ASSUME NEW t \in Seq(Seq(E)), t \in G, NEW c \in Seq(E) PROVE Append(t, c) \in G
  <2>1. TheWire!Concat(Append(t, c)) = TheWire!Concat(t) \o c
    BY ConcatSteps
  <2>2. TheWire!Concat(t) \in Seq(E)
    BY <1>3
  <2>3. TheWire!Concat(t) \o c \in Seq(E) /\ Append(t, c) \in Seq(Seq(E))
    BY <2>2
  <2> QED BY <2>1, <2>3
<1>4. s \in G
  <2> HIDE DEF G
  <2> QED BY <1>2, <1>3, ListsGrow
<1> QED BY <1>4

-----------------------------------------------------------------------------
(***************************************************************************)
(* Numbers: what is written of one is read as that number, and what is     *)
(* left of it when the end is missing is not a larger one.                 *)
(***************************************************************************)
LEMMA DigitsAre ==
  /\ \A c \in TheWire!DigitSet : TheWire!DigitOf(c) \in 0..9
  /\ \A d \in 0..9 : /\ TheWire!Digits[d + 1] \in TheWire!DigitSet
                     /\ TheWire!DigitOf(TheWire!Digits[d + 1]) = d
<1>1. \A c \in TheWire!DigitSet : \E d \in 0..9 : TheWire!Digits[d + 1] = c
  <2> SUFFICES ASSUME NEW e \in 1..10 PROVE \E d \in 0..9 : TheWire!Digits[d + 1] = TheWire!Digits[e]
    BY DEF TheWire!DigitSet
  <2>1. e - 1 \in 0..9 /\ (e - 1) + 1 = e
    OBVIOUS
  <2> QED BY <2>1
<1>2. \A c \in TheWire!DigitSet : TheWire!DigitOf(c) \in 0..9 /\ TheWire!Digits[TheWire!DigitOf(c) + 1] = c
  BY <1>1 DEF TheWire!DigitOf
<1>3. \A d, e \in 0..9 : TheWire!Digits[d + 1] = TheWire!Digits[e + 1] => d = e
  BY DEF TheWire!Digits
<1>4. \A d \in 0..9 : TheWire!Digits[d + 1] \in TheWire!DigitSet
  BY DEF TheWire!DigitSet
<1> QED BY <1>2, <1>3, <1>4

Numeral(w, m) ==
  /\ w \in Seq(TheWire!DigitSet)
  /\ w # <<>>
  /\ TheWire!Value(w) = m
  /\ \A k \in 0..Len(w) : TheWire!Value(SubSeq(w, 1, k)) \in 0..m

LEMMA OneDigit ==
  ASSUME NEW m \in 0..9
  PROVE  Numeral(<<TheWire!Digits[m + 1]>>, m)
<1> DEFINE d == TheWire!Digits[m + 1]
           w == <<d>>
<1>1. d \in TheWire!DigitSet /\ TheWire!DigitOf(d) = m
  BY DigitsAre
<1> HIDE DEF d
<1>2. <<>> \in Seq(TheWire!DigitSet) /\ w = Append(<<>>, d) /\ w \in Seq(TheWire!DigitSet) /\ w # <<>>
  BY <1>1
<1>3. TheWire!Value(<<>>) = 0
  BY <1>2, ValueSteps
<1>4. TheWire!Value(Append(<<>>, d)) = 10 * TheWire!Value(<<>>) + TheWire!DigitOf(d)
  BY <1>1, <1>2, ValueSteps
<1>5. TheWire!Value(w) = m
  BY <1>1, <1>2, <1>3, <1>4
<1>6. SubSeq(w, 1, 0) = <<>> /\ SubSeq(w, 1, 1) = w /\ Len(w) = 1
  <2>1. Len(w) = 1
    OBVIOUS
  <2> HIDE DEF w
  <2> QED BY <1>2, <2>1, Prefixes
<1>7. \A k \in 0..Len(w) : TheWire!Value(SubSeq(w, 1, k)) \in 0..m
  <2>1. (\A k \in 0..1 : k = 0 \/ k = 1) /\ 0 \in 0..m /\ m \in 0..m
    OBVIOUS
  <2> HIDE DEF w
  <2> QED BY <1>3, <1>5, <1>6, <2>1, Zenon
<1> QED BY <1>2, <1>5, <1>7 DEF Numeral, d

LEMMA OneMoreDigit ==
  ASSUME NEW m \in Nat, NEW w, Numeral(w, m \div 10)
  PROVE  Numeral(Append(w, TheWire!Digits[(m % 10) + 1]), m)
<1> DEFINE d == TheWire!Digits[(m % 10) + 1]
           v == Append(w, d)
           D == TheWire!DigitSet
<1>1. m % 10 \in 0..9 /\ m = 10 * (m \div 10) + (m % 10) /\ m \div 10 \in 0..m
  OBVIOUS
<1>2. d \in D /\ TheWire!DigitOf(d) = m % 10
  BY <1>1, DigitsAre
<1> HIDE DEF d, D
<1>3. w \in Seq(D) /\ TheWire!Value(w) = m \div 10
      /\ \A k \in 0..Len(w) : TheWire!Value(SubSeq(w, 1, k)) \in 0..(m \div 10)
  BY DEF Numeral, D
<1>4. v \in Seq(D) /\ v # <<>> /\ Len(v) = Len(w) + 1
  BY <1>2, <1>3
<1>5. TheWire!Value(v) = m
  <2>1. TheWire!Value(v) = 10 * TheWire!Value(w) + TheWire!DigitOf(d)
    BY <1>2, <1>3, ValueSteps
  <2> QED BY <1>1, <1>2, <1>3, <2>1
<1>6. ASSUME NEW k \in 0..Len(v) PROVE TheWire!Value(SubSeq(v, 1, k)) \in 0..m
  <2>1. CASE k = Len(v)
    <3>1. SubSeq(v, 1, Len(v)) = v
      <4> HIDE DEF v
      <4> QED BY <1>4, Prefixes
    <3>2. m \in 0..m
      OBVIOUS
    <3> HIDE DEF v
    <3> QED BY <1>5, <2>1, <3>1, <3>2, Zenon
  <2>2. CASE k # Len(v)
    <3>1. k \in 0..Len(w) /\ SubSeq(v, 1, k) = SubSeq(w, 1, k)
      BY <1>2, <1>3, <1>4, <2>2
    <3>2. TheWire!Value(SubSeq(w, 1, k)) \in 0..(m \div 10)
      BY <1>3, <3>1
    <3> DEFINE x == TheWire!Value(SubSeq(w, 1, k))
    <3> HIDE DEF x
    <3>3. x \in 0..m
      BY <1>1, <3>2 DEF x
    <3> QED BY <3>1, <3>3 DEF x
  <2> QED BY <2>1, <2>2
<1> QED BY <1>4, <1>5, <1>6 DEF Numeral, d, D

LEMMA Numerals ==
  ASSUME NEW n \in Nat
  PROVE  Numeral(TheWire!NumberText(n), n)
<1> DEFINE First(m) == <<TheWire!Digits[m + 1]>>
           Made(a, m) == Append(a, TheWire!Digits[(m % 10) + 1])
           Is(f, k) == f = [m \in 0..k |-> IF m < 10 THEN First(m) ELSE Made(f[m \div 10], m)]
           Good == {k \in 0..n : \E f : Is(f, k)}
<1>1. \A f : Is(f, n) <=> f = [m \in 0..n |-> IF m < 10 THEN <<TheWire!Digits[m + 1]>>
                           ELSE Append(f[m \div 10], TheWire!Digits[(m % 10) + 1])]
  OBVIOUS
<1>2. TheWire!NumberText(n) = (CHOOSE f : Is(f, n))[n]
  BY DEF TheWire!NumberText
<1>3. \A m \in 0..9 : Numeral(First(m), m)
  BY OneDigit
<1>4. \A m \in Nat : \A a : Numeral(a, m \div 10) => Numeral(Made(a, m), m)
  BY OneMoreDigit
<1> HIDE DEF First, Made
<1>5. 0 \in Good
  <2> DEFINE f == [m \in 0..0 |-> First(m)]
  <2>1. \A m \in 0..0 : m < 10
    OBVIOUS
  <2>2. f = [m \in 0..0 |-> IF m < 10 THEN First(m) ELSE Made(f[m \div 10], m)]
    BY <2>1, Zenon
  <2>3. Is(f, 0)
    BY <2>2
  <2> HIDE DEF Is, f
  <2> QED BY <2>3
<1>6. ASSUME NEW k \in 0..(n - 1), k \in Good PROVE k + 1 \in Good
  <2>1. PICK g : Is(g, k)
    BY <1>6
  <2> DEFINE f == [m \in 0..(k + 1) |-> IF m < 10 THEN First(m) ELSE Made(g[m \div 10], m)]
  <2>2. \A m \in 0..k : m \in 0..(k + 1)
    OBVIOUS
  <2>3. \A m \in 0..k : f[m] = g[m]
    BY <2>1, <2>2, Zenon
  <2>4. \A m \in 0..(k + 1) : ~(m < 10) => m \div 10 \in 0..k
    OBVIOUS
  <2>5. \A m \in 0..(k + 1) : ~(m < 10) => f[m \div 10] = g[m \div 10]
    <3> HIDE DEF f
    <3> QED BY <2>3, <2>4
  <2>6. f = [m \in 0..(k + 1) |-> IF m < 10 THEN First(m) ELSE Made(f[m \div 10], m)]
    <3> DEFINE h == f
    <3> HIDE DEF h
    <3>1. \A m \in 0..(k + 1) : (IF m < 10 THEN First(m) ELSE Made(g[m \div 10], m))
                              = (IF m < 10 THEN First(m) ELSE Made(h[m \div 10], m))
      BY <2>5, Zenon DEF h
    <3>2. [m \in 0..(k + 1) |-> IF m < 10 THEN First(m) ELSE Made(g[m \div 10], m)]
            = [m \in 0..(k + 1) |-> IF m < 10 THEN First(m) ELSE Made(h[m \div 10], m)]
      BY <3>1, Zenon
    <3> QED BY <3>2 DEF h
  <2>7. Is(f, k + 1)
    BY <2>6
  <2>8. k + 1 \in 0..n
    OBVIOUS
  <2> HIDE DEF Is, f
  <2> QED BY <2>7, <2>8
<1>7. n \in Good
  <2>1. n \in 0..n
    OBVIOUS
  <2> HIDE DEF Good
  <2> QED BY <1>5, <1>6, <2>1, Onwards
<1> DEFINE f == CHOOSE g : Is(g, n)
<1>8. Is(f, n)
  <2>1. \E g : Is(g, n)
    BY <1>7
  <2> HIDE DEF Is
  <2> QED BY <2>1
<1> HIDE DEF f
<1>9. \A m \in 0..n : f[m] = IF m < 10 THEN First(m) ELSE Made(f[m \div 10], m)
  BY <1>8
<1> DEFINE Fine == {m \in 0..n : \A j \in 0..m : Numeral(f[j], j)}
<1>10. 0 \in Fine
  <2>1. f[0] = First(0)
    BY <1>9
  <2>2. Numeral(f[0], 0)
    BY <1>3, <2>1
  <2> QED BY <2>2
<1>11. ASSUME NEW k \in 0..(n - 1), k \in Fine PROVE k + 1 \in Fine
  <2>1. k + 1 \in 0..n
    OBVIOUS
  <2>2. CASE k + 1 < 10
    <3>1. f[k + 1] = First(k + 1) /\ k + 1 \in 0..9
      BY <1>9, <2>1, <2>2
    <3>2. Numeral(f[k + 1], k + 1)
      BY <1>3, <3>1
    <3> QED BY <1>11, <2>1, <3>2
  <2>3. CASE ~(k + 1 < 10)
    <3>1. f[k + 1] = Made(f[(k + 1) \div 10], k + 1) /\ (k + 1) \div 10 \in 0..k /\ k + 1 \in Nat
      BY <1>9, <2>1, <2>3
    <3>2. Numeral(f[(k + 1) \div 10], (k + 1) \div 10)
      BY <1>11, <3>1
    <3>3. Numeral(f[k + 1], k + 1)
      BY <1>4, <3>1, <3>2
    <3> QED BY <1>11, <2>1, <3>3
  <2> QED BY <2>2, <2>3
<1>12. n \in Fine
  <2>1. n \in 0..n
    OBVIOUS
  <2> HIDE DEF Fine
  <2> QED BY <1>10, <1>11, <2>1, Onwards
<1> QED BY <1>2, <1>12 DEF f

\* The characters there are, those the program itself writes among them.
Chars ==
  STRING \cup TheWire!DigitSet \cup TheWire!Whys \cup TheWire!Caught
    \cup {"newline", "return", "tab", "backslash", "n", "r", "t", "thread"}
    \cup {"counts", "unclassified", "kind", "skipfile", "stopfile", "failure"}

\* What may stand in a field of a line: neither what ends it nor what ends the line.
Plain == Chars \ {"tab", "newline"}

LEMMA DigitsArePlain == TheWire!DigitSet \subseteq Plain
<1>1. \A d \in 1..10 : TheWire!Digits[d] # "tab" /\ TheWire!Digits[d] # "newline"
  BY DEF TheWire!Digits
<1> QED BY <1>1 DEF TheWire!DigitSet, Plain, Chars

LEMMA NumbersAreRead ==
  ASSUME NEW n \in Nat
  PROVE  /\ TheWire!NumberText(n) \in Seq(TheWire!DigitSet)
         /\ TheWire!NumberText(n) \in Seq(Plain)
         /\ TheWire!Parsed(TheWire!NumberText(n)) = n
         /\ \A k \in 0..Len(TheWire!NumberText(n)) :
              TheWire!Parsed(SubSeq(TheWire!NumberText(n), 1, k)) \in 0..n
<1> DEFINE w == TheWire!NumberText(n)
           D == TheWire!DigitSet
<1>1. Numeral(w, n)
  BY Numerals
<1> HIDE DEF w, D
<1>2. w \in Seq(D) /\ w # <<>> /\ TheWire!Value(w) = n
      /\ \A k \in 0..Len(w) : TheWire!Value(SubSeq(w, 1, k)) \in 0..n
  BY <1>1 DEF Numeral, D
<1>3. w \in Seq(Plain)
  <2>1. D \subseteq Plain
    BY DigitsArePlain DEF D
  <2> QED BY <1>2, <2>1
<1>4. ASSUME NEW v \in Seq(D) PROVE TheWire!Parsed(v) = 0 \/ TheWire!Parsed(v) = TheWire!Value(v)
  BY DEF TheWire!Parsed
<1>5. TheWire!Parsed(w) = n
  <2>1. \A i \in DOMAIN w : w[i] \in D
    BY <1>2
  <2> QED BY <1>2, <2>1, Zenon DEF TheWire!Parsed, D
<1>6. ASSUME NEW k \in 0..Len(w) PROVE TheWire!Parsed(SubSeq(w, 1, k)) \in 0..n
  <2> DEFINE v == SubSeq(w, 1, k)
  <2>1. v \in Seq(D)
    BY <1>2
  <2>2. TheWire!Value(v) \in 0..n
    BY <1>2
  <2>3. 0 \in 0..n
    OBVIOUS
  <2> HIDE DEF v
  <2>4. TheWire!Parsed(v) = 0 \/ TheWire!Parsed(v) = TheWire!Value(v)
    BY <1>4, <2>1
  <2>5. TheWire!Parsed(v) \in 0..n
    BY <2>2, <2>3, <2>4, Zenon
  <2> QED BY <2>5 DEF v
<1> QED BY <1>2, <1>3, <1>5, <1>6 DEF w, D

-----------------------------------------------------------------------------
(***************************************************************************)
(* Words: they have nothing in them that ends a field or a line when they  *)
(* are written, and are read as they were.                                 *)
(***************************************************************************)
LEMMA EscapedMore ==
  ASSUME NEW w \in Seq(Chars), NEW c \in Chars
  PROVE  /\ TheWire!Escaped(<<>>) = <<>>
         /\ TheWire!Escaped(Append(w, c)) = TheWire!Escaped(w) \o TheWire!Escape(c)
<1> DEFINE Each(v) == [i \in DOMAIN v |-> TheWire!Escape(v[i])]
           E == {TheWire!Escape(x) : x \in Chars}
<1>1. Each(<<>>) = <<>>
  OBVIOUS
<1>2. Each(w) \in Seq(E) /\ TheWire!Escape(c) \in E
  <2>1. \A i \in DOMAIN w : TheWire!Escape(w[i]) \in E
    OBVIOUS
  <2>2. DOMAIN w = 1..Len(w) /\ Len(w) \in Nat
    OBVIOUS
  <2> HIDE DEF E
  <2> QED BY <2>1, <2>2 DEF E
<1>3. Each(Append(w, c)) = Append(Each(w), TheWire!Escape(c))
  <2> DEFINE n == Len(w)
             t == Append(w, c)
             u == Append(Each(w), TheWire!Escape(c))
  <2>1. n \in Nat /\ DOMAIN t = 1..(n + 1) /\ t[n + 1] = c /\ \A i \in 1..n : t[i] = w[i]
    <3> HIDE DEF Each, u
    <3> QED OBVIOUS
  <2>2. DOMAIN w = 1..n /\ DOMAIN Each(w) = 1..n /\ \A i \in 1..n : Each(w)[i] = TheWire!Escape(w[i])
    OBVIOUS
  <2> HIDE DEF t, n
  <2>3. Len(Each(w)) = n
    BY <1>2, <2>1, <2>2
  <2>4. u \in Seq(E) /\ Len(u) = n + 1 /\ u[n + 1] = TheWire!Escape(c)
        /\ \A i \in 1..n : u[i] = Each(w)[i]
    <3> DEFINE e == Each(w)
               x == TheWire!Escape(c)
    <3> HIDE DEF e, x, E
    <3>1. e \in Seq(E) /\ Len(e) = n /\ x \in E
      BY <1>2, <2>3 DEF e, x
    <3>2. Append(e, x) \in Seq(E) /\ Len(Append(e, x)) = n + 1 /\ Append(e, x)[n + 1] = x
          /\ \A i \in 1..n : Append(e, x)[i] = e[i]
      BY <2>1, <3>1
    <3> QED BY <3>2 DEF e, x
  <2> HIDE DEF u, E
  <2>5. u = [i \in 1..(n + 1) |-> u[i]]
    BY <2>1, <2>4
  <2>6. \A i \in 1..(n + 1) : u[i] = TheWire!Escape(t[i])
    <3> SUFFICES ASSUME NEW i \in 1..(n + 1) PROVE u[i] = TheWire!Escape(t[i])
      OBVIOUS
    <3>1. i = n + 1 \/ i \in 1..n
      BY <2>1
    <3> QED BY <2>1, <2>2, <2>4, <3>1, Zenon
  <2> QED BY <2>1, <2>5, <2>6 DEF u, t
<1> HIDE DEF Each, E
<1>4. TheWire!Concat(Append(Each(w), TheWire!Escape(c))) = TheWire!Concat(Each(w)) \o TheWire!Escape(c)
  BY <1>2, ConcatSteps
<1>5. TheWire!Concat(<<>>) = <<>>
  BY <1>2, ConcatSteps
<1>6. \A v : TheWire!Escaped(v) = TheWire!Concat(Each(v))
  BY DEF TheWire!Escaped, Each
<1> QED BY <1>1, <1>3, <1>4, <1>5, <1>6

LEMMA EscapedIsPlain ==
  ASSUME NEW w \in Seq(Chars)
  PROVE  TheWire!Escaped(w) \in Seq(Plain)
<1> DEFINE G == {v \in Seq(Chars) : TheWire!Escaped(v) \in Seq(Plain)}
<1>1. <<>> \in Seq(Chars) /\ <<>> \in Seq(Plain) /\ "n" \in Chars
  BY DEF Chars
<1>2. <<>> \in G
  BY <1>1, EscapedMore
<1>3. ASSUME NEW c \in Chars PROVE TheWire!Escape(c) \in Seq(Plain)
  <2>1. "backslash" \in Plain /\ "n" \in Plain /\ "t" \in Plain /\ "r" \in Plain
    BY DEF Plain, Chars
  <2>2. CASE c \in {"newline", "tab", "return", "backslash"}
    BY <2>1, <2>2 DEF TheWire!Escape
  <2>3. CASE c \notin {"newline", "tab", "return", "backslash"}
    <3>1. c \in Plain
      BY <2>3 DEF Plain
    <3>2. TheWire!Escape(c) = <<c>>
      BY <2>3 DEF TheWire!Escape
    <3> QED BY <3>1, <3>2
  <2> QED BY <2>2, <2>3
<1>4. ASSUME NEW v \in Seq(Chars), v \in G, NEW c \in Chars PROVE Append(v, c) \in G
  <2>1. TheWire!Escaped(v) \in Seq(Plain) /\ TheWire!Escape(c) \in Seq(Plain)
    BY <1>3, <1>4
  <2>2. TheWire!Escaped(v) \o TheWire!Escape(c) \in Seq(Plain)
    BY <2>1
  <2>3. Append(v, c) \in Seq(Chars)
    OBVIOUS
  <2> QED BY <2>2, <2>3, EscapedMore
<1>5. w \in G
  <2> HIDE DEF G
  <2> QED BY <1>2, <1>4, ListsGrow
<1> QED BY <1>5

LEMMA WordsAreRead ==
  ASSUME NEW w \in Seq(Chars)
  PROVE  TheWire!Unescaped(TheWire!Escaped(w)) = w
<1> DEFINE Is(v) == TheWire!Hearing(TheWire!Escaped(v)) = [out |-> v, after |-> FALSE]
           G == {v \in Seq(Chars) : Is(v)}
<1>1. <<>> \in Seq(Chars) /\ "n" \in Chars
  BY DEF Chars
<1>2. <<>> \in G
  BY <1>1, EscapedMore, HearingSteps
<1>3. ASSUME NEW v \in Seq(Chars), v \in G, NEW c \in Chars PROVE Append(v, c) \in G
  <2> DEFINE u == TheWire!Escaped(v)
  <2>1. u \in Seq(Chars)
    BY EscapedIsPlain DEF Plain
  <2>2. TheWire!Hearing(u) = [out |-> v, after |-> FALSE]
    BY <1>3
  <2>3. TheWire!Escaped(Append(v, c)) = u \o TheWire!Escape(c)
    BY EscapedMore
  <2> HIDE DEF u
  <2>4. ASSUME NEW x \in Chars, TheWire!Means(x) = c, TheWire!Escape(c) = <<"backslash", x>>
        PROVE  TheWire!Hearing(u \o TheWire!Escape(c)) = [out |-> Append(v, c), after |-> FALSE]
    <3>1. u \o TheWire!Escape(c) = Append(Append(u, "backslash"), x)
          /\ Append(u, "backslash") \in Seq(Chars) /\ "backslash" \in Chars
      BY <2>1, <2>4 DEF Chars
    <3>2. TheWire!Hearing(Append(u, "backslash")) = TheWire!Heard(TheWire!Hearing(u), "backslash")
      BY <2>1, <3>1, HearingSteps
    <3>3. TheWire!Heard(TheWire!Hearing(u), "backslash") = [out |-> v, after |-> TRUE]
      BY <2>2 DEF TheWire!Heard
    <3>4. TheWire!Hearing(Append(Append(u, "backslash"), x))
            = TheWire!Heard(TheWire!Hearing(Append(u, "backslash")), x)
      BY <3>1, HearingSteps
    <3>5. TheWire!Heard([out |-> v, after |-> TRUE], x) = [out |-> Append(v, c), after |-> FALSE]
      BY <2>4 DEF TheWire!Heard
    <3> QED BY <3>1, <3>2, <3>3, <3>4, <3>5
  <2>5. CASE c \in {"newline", "return", "tab", "backslash"}
    <3>1. \E x \in Chars : TheWire!Means(x) = c /\ TheWire!Escape(c) = <<"backslash", x>>
      <4>1. CASE c = "newline"
        <5>1. TheWire!Means("n") = c /\ TheWire!Escape(c) = <<"backslash", "n">> /\ "n" \in Chars
          BY <4>1 DEF TheWire!Means, TheWire!Escape, Chars
        <5> QED BY <5>1
      <4>2. CASE c = "return"
        <5>1. TheWire!Means("r") = c /\ TheWire!Escape(c) = <<"backslash", "r">> /\ "r" \in Chars
          BY <4>2 DEF TheWire!Means, TheWire!Escape, Chars
        <5> QED BY <5>1
      <4>3. CASE c = "tab"
        <5>1. TheWire!Means("t") = c /\ TheWire!Escape(c) = <<"backslash", "t">> /\ "t" \in Chars
          BY <4>3 DEF TheWire!Means, TheWire!Escape, Chars
        <5> QED BY <5>1
      <4>4. CASE c = "backslash"
        <5>1. TheWire!Means("backslash") = c /\ TheWire!Escape(c) = <<"backslash", "backslash">>
              /\ "backslash" \in Chars
          BY <4>4 DEF TheWire!Means, TheWire!Escape, Chars
        <5> QED BY <5>1
      <4> QED BY <2>5, <4>1, <4>2, <4>3, <4>4
    <3>2. Is(Append(v, c))
      BY <2>3, <2>4, <3>1
    <3> HIDE DEF Is
    <3> QED BY <3>2
  <2>6. CASE c \notin {"newline", "return", "tab", "backslash"}
    <3>1. TheWire!Escape(c) = <<c>>
      BY <2>6 DEF TheWire!Escape
    <3>2. u \o <<c>> = Append(u, c)
      BY <2>1
    <3>3. TheWire!Hearing(Append(u, c)) = TheWire!Heard(TheWire!Hearing(u), c)
      BY <2>1, HearingSteps
    <3>4. TheWire!Heard([out |-> v, after |-> FALSE], c) = [out |-> Append(v, c), after |-> FALSE]
      BY <2>6 DEF TheWire!Heard
    <3>5. Is(Append(v, c))
      BY <2>2, <2>3, <3>1, <3>2, <3>3, <3>4
    <3> HIDE DEF Is
    <3> QED BY <3>5
  <2> QED BY <2>5, <2>6
<1>4. w \in G
  <2> HIDE DEF G
  <2> QED BY <1>2, <1>3, ListsGrow
<1> QED BY <1>4 DEF TheWire!Unescaped

-----------------------------------------------------------------------------
(***************************************************************************)
(* A text is taken to pieces: what is put behind it goes on with the last  *)
(* piece until the next place to cut.                                      *)
(***************************************************************************)
LEMMA AppendIs ==
  ASSUME NEW E, NEW s \in Seq(E), NEW c \in E
  PROVE  Append(s, c) = [i \in 1..(Len(s) + 1) |-> IF i = Len(s) + 1 THEN c ELSE s[i]]
<1> DEFINE t == Append(s, c)
<1>1. t \in Seq(E) /\ Len(t) = Len(s) + 1 /\ Len(s) \in Nat /\ t[Len(s) + 1] = c
      /\ \A i \in 1..Len(s) : t[i] = s[i]
  OBVIOUS
<1> HIDE DEF t
<1>2. t = [i \in 1..(Len(s) + 1) |-> t[i]]
  BY <1>1
<1>3. \A i \in 1..(Len(s) + 1) : t[i] = IF i = Len(s) + 1 THEN c ELSE s[i]
  BY <1>1
<1> QED BY <1>2, <1>3 DEF t

LEMMA LongerIs ==
  ASSUME NEW L \in Seq(Seq(Chars)), NEW x \in Seq(Chars), NEW c \in Chars
  PROVE  TheWire!Longer(Append(L, x), c) = Append(L, Append(x, c))
<1> DEFINE p == Append(L, x)
           n == Len(L)
           y == Append(x, c)
           q == Append(L, y)
<1>1. n \in Nat /\ p = [i \in 1..(n + 1) |-> IF i = n + 1 THEN x ELSE L[i]] /\ Len(p) = n + 1
      /\ p[n + 1] = x
  BY AppendIs
<1>2. y \in Seq(Chars)
  OBVIOUS
<1> HIDE DEF p, y
<1>3. q = [i \in 1..(n + 1) |-> IF i = n + 1 THEN y ELSE L[i]]
  BY <1>2, AppendIs
<1> HIDE DEF q, n
<1>4. [p EXCEPT ![n + 1] = y] = [i \in 1..(n + 1) |-> IF i = n + 1 THEN y ELSE L[i]]
  BY <1>1
<1>5. TheWire!Longer(p, c) = [p EXCEPT ![n + 1] = y]
  BY <1>1 DEF TheWire!Longer, y
<1> QED BY <1>3, <1>4, <1>5 DEF p, q, y

LEMMA PiecesGrow ==
  ASSUME NEW at, NEW s \in Seq(Chars), NEW L \in Seq(Seq(Chars)), NEW x \in Seq(Chars),
         TheWire!Pieces(s, at) = Append(L, x), NEW w \in Seq(Chars \ {at})
  PROVE  TheWire!Pieces(s \o w, at) = Append(L, x \o w)
<1> DEFINE G == {v \in Seq(Chars \ {at}) : TheWire!Pieces(s \o v, at) = Append(L, x \o v)}
<1>1. s \o <<>> = s /\ x \o <<>> = x /\ <<>> \in Seq(Chars \ {at})
  OBVIOUS
<1>2. <<>> \in G
  BY <1>1
<1>3. ASSUME NEW v \in Seq(Chars \ {at}), v \in G, NEW c \in Chars \ {at} PROVE Append(v, c) \in G
  <2>1. /\ s \o v \in Seq(Chars) /\ x \o v \in Seq(Chars)
        /\ s \o Append(v, c) = Append(s \o v, c) /\ x \o Append(v, c) = Append(x \o v, c)
        /\ Append(v, c) \in Seq(Chars \ {at})
    <3>1. v \in Seq(Chars) /\ c \in Chars /\ Append(v, c) \in Seq(Chars \ {at})
      OBVIOUS
    <3>2. s \o Append(v, c) = Append(s \o v, c)
      BY <3>1
    <3>3. x \o Append(v, c) = Append(x \o v, c)
      BY <3>1
    <3> QED BY <3>1, <3>2, <3>3
  <2>2. TheWire!Pieces(s \o v, at) = Append(L, x \o v)
    BY <1>3
  <2>3. TheWire!Pieces(Append(s \o v, c), at) = TheWire!Longer(TheWire!Pieces(s \o v, at), c)
    <3> DEFINE t == s \o v
    <3> HIDE DEF t
    <3>1. t \in Seq(Chars) /\ c \in Chars /\ c # at
      BY <2>1 DEF t
    <3>2. TheWire!Pieces(Append(t, c), at) = TheWire!Longer(TheWire!Pieces(t, at), c)
      BY <3>1, PiecesSteps
    <3> QED BY <3>2 DEF t
  <2>4. TheWire!Longer(Append(L, x \o v), c) = Append(L, Append(x \o v, c))
    BY <2>1, LongerIs
  <2> QED BY <2>1, <2>2, <2>3, <2>4
<1>4. w \in G
  <2> HIDE DEF G
  <2> QED BY <1>2, <1>3, ListsGrow
<1> QED BY <1>4

LEMMA PiecesEnd ==
  ASSUME NEW at \in Chars, NEW s \in Seq(Chars)
  PROVE  /\ TheWire!Pieces(<<>>, at) = <<<<>>>>
         /\ TheWire!Pieces(Append(s, at), at) = Append(TheWire!Pieces(s, at), <<>>)
  BY PiecesSteps

\* One more field.
LEMMA PiecesField ==
  ASSUME NEW at \in Chars, NEW s \in Seq(Chars), NEW p \in Seq(Seq(Chars)), p = TheWire!Pieces(s, at),
         NEW w \in Seq(Chars \ {at})
  PROVE  TheWire!Pieces(s \o (<<at>> \o w), at) = Append(p, w)
<1>1. Append(s, at) \in Seq(Chars) /\ s \o (<<at>> \o w) = Append(s, at) \o w
      /\ <<>> \in Seq(Chars) /\ <<>> \o w = w
  OBVIOUS
<1>2. TheWire!Pieces(Append(s, at), at) = Append(p, <<>>)
  BY PiecesEnd
<1>3. TheWire!Pieces(Append(s, at) \o w, at) = Append(p, <<>> \o w)
  BY <1>1, <1>2, PiecesGrow
<1> QED BY <1>1, <1>3

-----------------------------------------------------------------------------
(***************************************************************************)
(* Fields: a line comes apart into its word and its fields, and one that   *)
(* is cut off into those it has left, of which the last may be shorter.    *)
(***************************************************************************)
Tabbed(f) == [i \in DOMAIN f |-> <<"tab">> \o f[i]]

Written(word, f) == <<word>> \o TheWire!Concat(Tabbed(f))

CutOff(p, word, f) ==
  \/ p = <<<<>>>>
  \/ /\ p \in Seq(Seq(Chars))
     /\ Len(p) \in 1..(Len(f) + 1)
     /\ p[1] = <<word>>
     /\ \A i \in 2..(Len(p) - 1) : p[i] = f[i - 1]
     /\ Len(p) > 1 => \E m \in 0..Len(f[Len(p) - 1]) : p[Len(p)] = SubSeq(f[Len(p) - 1], 1, m)

LEMMA PlainIsChars == Plain \subseteq Chars /\ Plain \subseteq Chars \ {"tab"}
                      /\ Plain \subseteq Chars \ {"newline"}
                      /\ {"tab", "newline", "thread"} \subseteq Chars
                      /\ "thread" \in Plain
  BY DEF Plain, Chars

LEMMA TabbedMore ==
  ASSUME NEW f \in Seq(Seq(Plain)), NEW w \in Seq(Plain)
  PROVE  /\ Tabbed(f) \in Seq(Seq(Chars \ {"newline"}))
         /\ Tabbed(<<>>) = <<>>
         /\ Tabbed(Append(f, w)) = Append(Tabbed(f), <<"tab">> \o w)
<1> DEFINE E == Seq(Chars \ {"newline"})
<1>1. ASSUME NEW v \in Seq(Plain) PROVE <<"tab">> \o v \in E
  <2>1. "tab" \in Chars \ {"newline"} /\ v \in Seq(Chars \ {"newline"})
    BY PlainIsChars
  <2> QED BY <2>1
<1> HIDE DEF E
<1>2. \A i \in DOMAIN f : f[i] \in Seq(Plain)
  OBVIOUS
<1>3. DOMAIN f = 1..Len(f) /\ Len(f) \in Nat
  OBVIOUS
<1>4. Tabbed(f) \in Seq(E)
  <2>1. \A i \in 1..Len(f) : <<"tab">> \o f[i] \in E
    BY <1>1, <1>2, <1>3
  <2> QED BY <1>3, <2>1 DEF Tabbed
<1>5. Tabbed(<<>>) = <<>>
  BY DEF Tabbed
<1>6. Tabbed(Append(f, w)) = Append(Tabbed(f), <<"tab">> \o w)
  <2> DEFINE n == Len(f)
             t == Append(f, w)
             e == Tabbed(f)
             y == <<"tab">> \o w
             u == Append(e, y)
  <2>1. n \in Nat /\ DOMAIN t = 1..(n + 1) /\ t[n + 1] = w /\ \A i \in 1..n : t[i] = f[i]
    <3> HIDE DEF e, y, u
    <3> QED OBVIOUS
  <2>2. DOMAIN e = 1..n /\ \A i \in 1..n : e[i] = <<"tab">> \o f[i]
    BY <1>3 DEF Tabbed
  <2>3. e \in Seq(E) /\ y \in E
    BY <1>1, <1>4
  <2> HIDE DEF t, n, e, y
  <2>4. Len(e) = n
    BY <2>1, <2>2, <2>3
  <2>5. u = [i \in 1..(n + 1) |-> u[i]] /\ u[n + 1] = y /\ \A i \in 1..n : u[i] = e[i]
    <3>1. u = [i \in 1..(n + 1) |-> IF i = n + 1 THEN y ELSE e[i]]
      BY <2>3, <2>4, AppendIs
    <3> HIDE DEF u
    <3> QED BY <2>1, <3>1
  <2> HIDE DEF u
  <2>6. \A i \in 1..(n + 1) : u[i] = <<"tab">> \o t[i]
    <3> SUFFICES ASSUME NEW i \in 1..(n + 1) PROVE u[i] = <<"tab">> \o t[i]
      OBVIOUS
    <3>1. i = n + 1 \/ i \in 1..n
      BY <2>1
    <3> QED BY <2>1, <2>2, <2>5, <3>1, Zenon DEF y
  <2> QED BY <2>1, <2>5, <2>6 DEF Tabbed, u, t, e, y
<1> QED BY <1>4, <1>5, <1>6 DEF E

LEMMA WrittenMore ==
  ASSUME NEW word \in Plain, NEW f \in Seq(Seq(Plain)), NEW w \in Seq(Plain)
  PROVE  /\ Written(word, f) \in Seq(Chars \ {"newline"})
         /\ Written(word, <<>>) = <<word>>
         /\ Written(word, Append(f, w)) = Written(word, f) \o (<<"tab">> \o w)
<1> DEFINE E == Chars \ {"newline"}
<1>1. word \in E /\ "tab" \in E
  BY PlainIsChars
<1> HIDE DEF E
<1>2. Tabbed(f) \in Seq(Seq(E)) /\ <<"tab">> \o w \in Seq(E)
  <2>1. w \in Seq(E)
    BY PlainIsChars DEF E
  <2> QED BY <1>1, <2>1, TabbedMore DEF E
<1>3. TheWire!Concat(Tabbed(f)) \in Seq(E)
  BY <1>2, ConcatIsAList
<1>4. TheWire!Concat(<<>>) = <<>>
  BY <1>2, ConcatSteps
<1>5. TheWire!Concat(Append(Tabbed(f), <<"tab">> \o w)) = TheWire!Concat(Tabbed(f)) \o (<<"tab">> \o w)
  BY <1>2, ConcatSteps
<1>6. <<word>> \o TheWire!Concat(Tabbed(f)) \in Seq(E)
  BY <1>1, <1>3
<1>7. <<word>> \o (TheWire!Concat(Tabbed(f)) \o (<<"tab">> \o w))
        = (<<word>> \o TheWire!Concat(Tabbed(f))) \o (<<"tab">> \o w)
  BY <1>1, <1>2, <1>3, SMTT(30)
<1>8. <<word>> \o <<>> = <<word>>
  BY <1>1
<1> QED BY <1>4, <1>5, <1>6, <1>7, <1>8, TabbedMore DEF Written, E

LEMMA LinesComeApart ==
  ASSUME NEW word \in Plain, NEW f \in Seq(Seq(Plain))
  PROVE  TheWire!Pieces(Written(word, f), "tab") = <<<<word>>>> \o f
<1> DEFINE G == {g \in Seq(Seq(Plain)) : TheWire!Pieces(Written(word, g), "tab") = <<<<word>>>> \o g}
<1>1. <<>> \in Seq(Seq(Plain)) /\ <<word>> \in Seq(Chars) /\ <<<<word>>>> \in Seq(Seq(Chars))
      /\ <<>> \in Seq(Chars) /\ <<>> \in Seq(Seq(Chars)) /\ word \in Chars /\ word # "tab" /\ "tab" \in Chars
  BY PlainIsChars
<1>2. <<>> \in G
  <2>1. Written(word, <<>>) = <<word>>
    BY <1>1, WrittenMore
  <2>2. TheWire!Pieces(<<>>, "tab") = Append(<<>>, <<>>)
    <3>1. Append(<<>>, <<>>) = <<<<>>>>
      OBVIOUS
    <3> QED BY <1>1, <3>1, PiecesEnd
  <2>3. <<word>> \in Seq(Chars \ {"tab"}) /\ <<>> \o <<word>> = <<word>>
    BY <1>1
  <2>4. TheWire!Pieces(<<>> \o <<word>>, "tab") = Append(<<>>, <<>> \o <<word>>)
    BY <1>1, <2>2, <2>3, PiecesGrow
  <2>5. Append(<<>>, <<word>>) = <<<<word>>>> /\ <<<<word>>>> \o <<>> = <<<<word>>>>
    BY <1>1
  <2> QED BY <1>1, <2>1, <2>3, <2>4, <2>5
<1>3. ASSUME NEW g \in Seq(Seq(Plain)), g \in G, NEW w \in Seq(Plain) PROVE Append(g, w) \in G
  <2> DEFINE s == Written(word, g)
             p == <<<<word>>>> \o g
  <2>1. s \in Seq(Chars) /\ Written(word, Append(g, w)) = s \o (<<"tab">> \o w)
    <3>1. s \in Seq(Chars \ {"newline"}) /\ Written(word, Append(g, w)) = s \o (<<"tab">> \o w)
      BY WrittenMore
    <3> HIDE DEF s
    <3> QED BY <3>1
  <2>2. p \in Seq(Seq(Chars)) /\ <<<<word>>>> \o Append(g, w) = Append(p, w) /\ Append(g, w) \in Seq(Seq(Plain))
        /\ w \in Seq(Chars \ {"tab"})
    <3>1. g \in Seq(Seq(Chars)) /\ w \in Seq(Chars) /\ w \in Seq(Chars \ {"tab"})
      BY PlainIsChars
    <3> QED BY <1>1, <3>1
  <2>3. p = TheWire!Pieces(s, "tab")
    BY <1>3
  <2> HIDE DEF s, p
  <2>4. TheWire!Pieces(s \o (<<"tab">> \o w), "tab") = Append(p, w)
    BY <1>1, <2>1, <2>2, <2>3, PiecesField
  <2> QED BY <2>1, <2>2, <2>4
<1>4. f \in G
  <2> HIDE DEF G
  <2> QED BY <1>2, <1>3, ListsGrow
<1> QED BY <1>4

\* The beginning of two lists that are joined.
LEMMA CutJoin ==
  ASSUME NEW E, NEW s \in Seq(E), NEW b \in Seq(E), NEW j \in 0..Len(s \o b)
  PROVE  /\ j <= Len(s) => SubSeq(s \o b, 1, j) = SubSeq(s, 1, j)
         /\ j > Len(s) => SubSeq(s \o b, 1, j) = s \o SubSeq(b, 1, j - Len(s))
<1> DEFINE n == Len(s)
           t == s \o b
<1>1. n \in Nat /\ Len(b) \in Nat /\ t \in Seq(E) /\ Len(t) = n + Len(b)
      /\ (\A i \in 1..n : t[i] = s[i]) /\ \A i \in (n + 1)..(n + Len(b)) : t[i] = b[i - n]
  OBVIOUS
<1> HIDE DEF t, n
<1>2. j \in 0..(n + Len(b))
  BY <1>1 DEF t
<1>3. ASSUME j <= n PROVE SubSeq(t, 1, j) = SubSeq(s, 1, j)
  BY <1>1, <1>2, <1>3 DEF n
<1>4. ASSUME j > n PROVE SubSeq(t, 1, j) = s \o SubSeq(b, 1, j - n)
  <2> DEFINE x == SubSeq(b, 1, j - n)
             y == s \o x
             z == SubSeq(t, 1, j)
  <2>1. j - n \in 1..Len(b) /\ x \in Seq(E) /\ Len(x) = j - n /\ \A i \in 1..(j - n) : x[i] = b[i]
    BY <1>1, <1>2, <1>4
  <2> HIDE DEF x
  <2>2. y = [i \in 1..j |-> IF i <= n THEN s[i] ELSE x[i - n]]
    <3>1. Len(s) = n /\ Len(x) \in Nat /\ n + Len(x) = j
      BY <1>1, <1>2, <1>4, <2>1 DEF n
    <3>2. y \in Seq(E) /\ Len(y) = Len(s) + Len(x) /\ (\A i \in 1..Len(s) : y[i] = s[i])
          /\ \A i \in (Len(s) + 1)..(Len(s) + Len(x)) : y[i] = x[i - Len(s)]
      BY <2>1
    <3> HIDE DEF y
    <3>3. y \in Seq(E) /\ Len(y) = j /\ (\A i \in 1..n : y[i] = s[i]) /\ \A i \in (n + 1)..j : y[i] = x[i - n]
      BY <3>1, <3>2
    <3>4. y = [i \in 1..j |-> y[i]]
      BY <3>3
    <3>5. \A i \in 1..j : y[i] = IF i <= n THEN s[i] ELSE x[i - n]
      BY <1>1, <1>2, <1>4, <3>3
    <3> HIDE DEF n
    <3>6. [i \in 1..j |-> y[i]] = [i \in 1..j |-> IF i <= n THEN s[i] ELSE x[i - n]]
      BY <3>5, Zenon
    <3> QED BY <3>4, <3>6
  <2>3. z = [i \in 1..j |-> t[i]]
    BY <1>1, <1>2
  <2> HIDE DEF y, z
  <2>4. \A i \in 1..j : t[i] = IF i <= n THEN s[i] ELSE x[i - n]
    BY <1>1, <1>2, <2>1
  <2>5. y = z
    BY <2>2, <2>3, <2>4
  <2> QED BY <2>5 DEF x, y, z
<1> QED BY <1>3, <1>4 DEF t, n

LEMMA WholeIsCutOff ==
  ASSUME NEW word \in Plain, NEW f \in Seq(Seq(Plain))
  PROVE  CutOff(<<<<word>>>> \o f, word, f)
<1> DEFINE p == <<<<word>>>> \o f
           n == Len(f)
<1>1. f \in Seq(Seq(Chars)) /\ <<<<word>>>> \in Seq(Seq(Chars)) /\ Len(<<<<word>>>>) = 1 /\ <<<<word>>>>[1] = <<word>>
  BY PlainIsChars
<1>2. n \in Nat /\ \A i \in 1..n : f[i] \in Seq(Chars)
  BY <1>1
<1>3. p \in Seq(Seq(Chars)) /\ Len(p) = n + 1 /\ p[1] = <<word>> /\ \A i \in 2..(n + 1) : p[i] = f[i - 1]
  <2> DEFINE h == <<<<word>>>>
  <2> HIDE DEF h
  <2>1. h \o f \in Seq(Seq(Chars)) /\ Len(h \o f) = n + 1 /\ (h \o f)[1] = h[1]
        /\ \A i \in 2..(n + 1) : (h \o f)[i] = f[i - 1]
    BY <1>1 DEF h
  <2> QED BY <1>1, <2>1 DEF h
<1> HIDE DEF p
<1>4. ASSUME Len(p) > 1 PROVE \E m \in 0..Len(f[Len(p) - 1]) : p[Len(p)] = SubSeq(f[Len(p) - 1], 1, m)
  <2>1. p[Len(p)] = f[n] /\ Len(p) - 1 = n /\ f[n] \in Seq(Chars)
    <3>1. n + 1 \in 2..(n + 1) /\ (n + 1) - 1 = n /\ Len(p) = n + 1 /\ n \in 1..n
      BY <1>2, <1>3, <1>4
    <3> HIDE DEF n
    <3>2. p[n + 1] = f[(n + 1) - 1]
      BY <1>3, <3>1
    <3> QED BY <1>2, <3>1, <3>2
  <2>2. SubSeq(f[n], 1, Len(f[n])) = f[n] /\ Len(f[n]) \in 0..Len(f[n])
    <3> DEFINE w == f[n]
    <3> HIDE DEF w
    <3>1. w \in Seq(Chars)
      BY <2>1 DEF w
    <3>2. SubSeq(w, 1, Len(w)) = w /\ Len(w) \in 0..Len(w)
      BY <3>1, Prefixes
    <3> QED BY <3>2 DEF w
  <2> QED BY <2>1, <2>2
<1>5. Len(p) \in 1..(n + 1) /\ \A i \in 2..(Len(p) - 1) : p[i] = f[i - 1]
  BY <1>2, <1>3, SMTT(30)
<1> QED BY <1>3, <1>4, <1>5 DEF CutOff, p

LEMMA StillCutOff ==
  ASSUME NEW word \in Plain, NEW f \in Seq(Seq(Plain)), NEW w \in Seq(Plain), NEW p, CutOff(p, word, f)
  PROVE  CutOff(p, word, Append(f, w))
<1> DEFINE g == Append(f, w)
<1>1. Len(f) \in Nat /\ Len(g) = Len(f) + 1 /\ \A i \in 1..Len(f) : g[i] = f[i]
  OBVIOUS
<1> HIDE DEF g
<1>2. CASE p = <<<<>>>>
  BY <1>2 DEF CutOff
<1>3. CASE p # <<<<>>>>
  <2>1. /\ p \in Seq(Seq(Chars))
        /\ Len(p) \in 1..(Len(f) + 1)
        /\ p[1] = <<word>>
        /\ \A i \in 2..(Len(p) - 1) : p[i] = f[i - 1]
        /\ Len(p) > 1 => \E m \in 0..Len(f[Len(p) - 1]) : p[Len(p)] = SubSeq(f[Len(p) - 1], 1, m)
    BY <1>3 DEF CutOff
  <2> DEFINE k == Len(p)
             n == Len(f)
  <2>5. k \in 1..(n + 1) /\ n \in Nat /\ Len(g) = n + 1
    BY <1>1, <2>1
  <2> HIDE DEF k, n
  <2>2. Len(p) \in 1..(Len(g) + 1)
    BY <2>5 DEF k
  <2>3. \A i \in 2..(Len(p) - 1) : p[i] = g[i - 1]
    <3>1. \A i \in 2..(k - 1) : i - 1 \in 1..n
      BY <2>5
    <3> QED BY <1>1, <2>1, <3>1, Zenon DEF k, n
  <2>4. Len(p) > 1 => g[Len(p) - 1] = f[Len(p) - 1]
    <3>1. k > 1 => k - 1 \in 1..n
      BY <2>5
    <3> QED BY <1>1, <3>1, Zenon DEF k, n
  <2> QED BY <2>1, <2>2, <2>3, <2>4 DEF CutOff, g
<1> QED BY <1>2, <1>3

LEMMA LastCutOff ==
  ASSUME NEW word \in Plain, NEW f \in Seq(Seq(Plain)), NEW w \in Seq(Plain), NEW m \in 0..Len(w)
  PROVE  CutOff(Append(<<<<word>>>> \o f, SubSeq(w, 1, m)), word, Append(f, w))
<1> DEFINE h == <<<<word>>>> \o f
           n == Len(f)
           g == Append(f, w)
           x == SubSeq(w, 1, m)
           p == Append(h, x)
<1>1. n \in Nat /\ h \in Seq(Seq(Chars)) /\ Len(h) = n + 1 /\ h[1] = <<word>>
      /\ \A i \in 2..(n + 1) : h[i] = f[i - 1]
  <2>1. f \in Seq(Seq(Chars)) /\ <<<<word>>>> \in Seq(Seq(Chars)) /\ Len(<<<<word>>>>) = 1 /\ <<<<word>>>>[1] = <<word>>
    BY PlainIsChars
  <2> DEFINE k == <<<<word>>>>
  <2> HIDE DEF k
  <2>2. k \o f \in Seq(Seq(Chars)) /\ Len(k \o f) = n + 1 /\ (k \o f)[1] = k[1]
        /\ \A i \in 2..(n + 1) : (k \o f)[i] = f[i - 1]
    BY <2>1 DEF k
  <2> QED BY <2>1, <2>2 DEF k
<1>2. Len(g) = n + 1 /\ g[n + 1] = w /\ \A i \in 1..n : g[i] = f[i]
  OBVIOUS
<1>3. x \in Seq(Chars)
  <2>1. w \in Seq(Chars)
    BY PlainIsChars
  <2> QED BY <2>1
<1> HIDE DEF h, g
<1>4. p \in Seq(Seq(Chars)) /\ Len(p) = n + 2 /\ p[n + 2] = x /\ \A i \in 1..(n + 1) : p[i] = h[i]
  <2> HIDE DEF x, n
  <2> QED BY <1>1, <1>3
<1> HIDE DEF p
<1>5. Len(p) \in 1..(Len(g) + 1) /\ p[1] = <<word>> /\ Len(p) - 1 = n + 1
  BY <1>1, <1>2, <1>4
<1>6. ASSUME NEW i \in 2..(Len(p) - 1) PROVE p[i] = g[i - 1]
  <2>1. i \in 2..(n + 1) /\ i \in 1..(n + 1) /\ i - 1 \in 1..n
    BY <1>1, <1>4
  <2> QED BY <1>1, <1>2, <1>4, <2>1, Zenon
<1>7. \E j \in 0..Len(g[Len(p) - 1]) : p[Len(p)] = SubSeq(g[Len(p) - 1], 1, j)
  BY <1>2, <1>4, <1>5
<1> QED BY <1>4, <1>5, <1>6, <1>7 DEF CutOff, p, h, g, x

LEMMA LinesCutOff ==
  ASSUME NEW word \in Plain, NEW f \in Seq(Seq(Plain)), NEW k \in 0..Len(Written(word, f))
  PROVE  CutOff(TheWire!Pieces(SubSeq(Written(word, f), 1, k), "tab"), word, f)
<1> DEFINE Cut(s, g) == CutOff(TheWire!Pieces(s, "tab"), word, g)
           G == {g \in Seq(Seq(Plain)) : \A j \in 0..Len(Written(word, g)) : Cut(SubSeq(Written(word, g), 1, j), g)}
<1>1. <<>> \in Seq(Seq(Plain)) /\ <<>> \in Seq(Plain) /\ <<>> \in Seq(Chars) /\ "tab" \in Chars
  BY PlainIsChars
<1>2. \A g \in Seq(Seq(Plain)) : Cut(Written(word, g), g)
  BY LinesComeApart, WholeIsCutOff
<1>3. <<>> \in G
  <2>1. Written(word, <<>>) = <<word>>
    BY <1>1, WrittenMore
  <2>2. SubSeq(<<word>>, 1, 0) = <<>> /\ SubSeq(<<word>>, 1, 1) = <<word>> /\ Len(<<word>>) = 1
    <3> DEFINE s == <<word>>
    <3>1. s \in Seq(Plain) /\ Len(s) = 1
      OBVIOUS
    <3> HIDE DEF s
    <3>2. SubSeq(s, 1, 0) = <<>> /\ SubSeq(s, 1, Len(s)) = s
      BY <3>1, Prefixes
    <3> QED BY <3>1, <3>2 DEF s
  <2>3. Cut(<<>>, <<>>)
    BY <1>1, PiecesEnd DEF CutOff
  <2>4. Cut(<<word>>, <<>>)
    BY <1>1, <1>2, <2>1
  <2>5. \A j \in 0..1 : j = 0 \/ j = 1
    OBVIOUS
  <2> HIDE DEF Cut
  <2> QED BY <1>1, <2>1, <2>2, <2>3, <2>4, <2>5, Zenon
<1>4. ASSUME NEW g \in Seq(Seq(Plain)), g \in G, NEW w \in Seq(Plain) PROVE Append(g, w) \in G
  <2> DEFINE s == Written(word, g)
             t == Written(word, Append(g, w))
             b == <<"tab">> \o w
  <2>1. s \in Seq(Chars \ {"newline"}) /\ t = s \o b
    BY WrittenMore
  <2>2. b \in Seq(Chars) /\ Len(b) = Len(w) + 1 /\ w \in Seq(Chars) /\ w \in Seq(Chars \ {"tab"})
    BY PlainIsChars
  <2>3. Append(g, w) \in Seq(Seq(Plain))
    OBVIOUS
  <2>4. \A j \in 0..Len(s) : Cut(SubSeq(s, 1, j), g)
    BY <1>4
  <2> HIDE DEF s, t
  <2>5. s \in Seq(Chars)
    BY <2>1
  <2>6. ASSUME NEW j \in 0..Len(t) PROVE Cut(SubSeq(t, 1, j), Append(g, w))
    <3>1. CASE j <= Len(s)
      <4>1. SubSeq(t, 1, j) = SubSeq(s, 1, j) /\ j \in 0..Len(s)
        <5> HIDE DEF b
        <5>1. j \in 0..Len(s \o b) /\ j \in 0..Len(s)
          BY <2>1, <2>5, <3>1
        <5> QED BY <2>1, <2>2, <2>5, <3>1, <5>1, CutJoin
      <4>2. Cut(SubSeq(s, 1, j), g)
        BY <2>4, <4>1
      <4> QED BY <4>1, <4>2, StillCutOff
    <3>2. CASE j > Len(s)
      <4> DEFINE m == j - Len(s) - 1
                 x == SubSeq(w, 1, m)
      <4>1. m \in 0..Len(w)
        <5> HIDE DEF b
        <5> QED BY <2>1, <2>2, <2>5, <3>2
      <4>2. SubSeq(t, 1, j) = s \o (<<"tab">> \o x)
        <5>1. SubSeq(t, 1, j) = s \o SubSeq(b, 1, m + 1)
          <6>1. m + 1 = j - Len(s) /\ j \in 0..Len(s \o b)
            BY <2>1, <2>5
          <6> HIDE DEF b, m
          <6>2. SubSeq(s \o b, 1, j) = s \o SubSeq(b, 1, j - Len(s))
            BY <2>2, <2>5, <3>2, <6>1, CutJoin
          <6> QED BY <2>1, <6>1, <6>2
        <5>2. SubSeq(b, 1, m + 1) = <<"tab">> \o x
          <6> HIDE DEF m
          <6> QED BY <2>2, <4>1
        <5> QED BY <5>1, <5>2
      <4> HIDE DEF m
      <4>3. x \in Seq(Chars \ {"tab"})
        BY <2>2, <4>1
      <4>4. <<<<word>>>> \o g = TheWire!Pieces(s, "tab")
        BY LinesComeApart DEF s
      <4>5. <<<<word>>>> \o g \in Seq(Seq(Chars))
        BY WholeIsCutOff, PlainIsChars
      <4> HIDE DEF x
      <4>6. TheWire!Pieces(s \o (<<"tab">> \o x), "tab") = Append(<<<<word>>>> \o g, x)
        BY <1>1, <2>5, <4>3, <4>4, <4>5, PiecesField
      <4>7. CutOff(Append(<<<<word>>>> \o g, x), word, Append(g, w))
        BY <4>1, LastCutOff DEF x
      <4> QED BY <4>2, <4>6, <4>7
    <3> QED BY <2>1, <2>5, <3>1, <3>2
  <2> HIDE DEF Cut
  <2> QED BY <2>3, <2>6 DEF t
<1>5. f \in G
  <2> HIDE DEF G
  <2> QED BY <1>3, <1>4, ListsGrow
<1> HIDE DEF Cut
<1>6. Cut(SubSeq(Written(word, f), 1, k), f)
  BY <1>5
<1> QED BY <1>6 DEF Cut

-----------------------------------------------------------------------------
(***************************************************************************)
(* Lines: what whole lines say is read, and each line more is one more     *)
(* that is read, whether it is ended or not.                               *)
(***************************************************************************)
Counts(chars) == TheWire!Pieces(chars, "tab")[1] = <<"counts">>

\* s is whole lines that say x, and one that counts is among them when c.
Says(s, x, c) ==
  /\ s \in Seq(Chars)
  /\ \E L \in Seq(Seq(Chars)) :
       /\ TheWire!Pieces(s, "newline") = Append(L, <<>>)
       /\ TheWire!ReadEach(L) = x
       /\ c => \E i \in DOMAIN L : Counts(L[i])

LEMMA NothingSays ==
  /\ Says(<<>>, TheWire!Nobody, FALSE)
  /\ ~TheWire!Counted(<<>>)
<1>1. <<>> \in Seq(Chars) /\ <<>> \in Seq(Seq(Chars)) /\ Append(<<>>, <<>>) = <<<<>>>> /\ "newline" \in Chars
      /\ "tab" \in Chars
  BY PlainIsChars
<1>2. TheWire!Pieces(<<>>, "newline") = <<<<>>>> /\ TheWire!Pieces(<<>>, "tab") = <<<<>>>>
  BY <1>1, PiecesEnd
<1>3. TheWire!ReadEach(<<>>) = TheWire!Nobody
  BY <1>1, ReadingSteps
<1>4. ~TheWire!Counted(<<>>)
  <2>1. DOMAIN <<<<>>>> = {1} /\ <<<<>>>>[1] = <<>> /\ <<>> # <<"counts">>
    OBVIOUS
  <2> QED BY <1>2, <2>1 DEF TheWire!Counted
<1> QED BY <1>1, <1>2, <1>3, <1>4 DEF Says

LEMMA OneLineMore ==
  ASSUME NEW s, NEW x, NEW c, Says(s, x, c), NEW w \in Seq(Chars \ {"newline"})
  PROVE  /\ Says(s \o (w \o <<"newline">>), TheWire!ReadLine(x, w), c)
         /\ Counts(w) => Says(s \o (w \o <<"newline">>), TheWire!ReadLine(x, w), TRUE)
         /\ TheWire!ReadLines(s \o w) = TheWire!ReadLine(x, w)
<1>1. PICK L \in Seq(Seq(Chars)) : /\ TheWire!Pieces(s, "newline") = Append(L, <<>>)
                                   /\ TheWire!ReadEach(L) = x
                                   /\ c => \E i \in DOMAIN L : Counts(L[i])
  BY DEF Says
<1>2. s \in Seq(Chars) /\ w \in Seq(Chars) /\ "newline" \in Chars /\ <<>> \in Seq(Chars) /\ <<>> \o w = w
  BY PlainIsChars DEF Says
<1>3. s \o w \in Seq(Chars) /\ s \o (w \o <<"newline">>) = Append(s \o w, "newline")
      /\ Append(s \o w, "newline") \in Seq(Chars)
  BY <1>2
<1>4. TheWire!Pieces(s \o w, "newline") = Append(L, w)
  <2>1. TheWire!Pieces(s \o w, "newline") = Append(L, <<>> \o w)
    BY <1>1, <1>2, PiecesGrow
  <2> QED BY <1>2, <2>1
<1>5. TheWire!Pieces(Append(s \o w, "newline"), "newline") = Append(Append(L, w), <<>>)
  BY <1>2, <1>3, <1>4, PiecesEnd
<1>6. TheWire!ReadEach(Append(L, w)) = TheWire!ReadLine(x, w)
  BY <1>1, <1>2, ReadingSteps
<1>7. Append(L, w) \in Seq(Seq(Chars)) /\ (\A i \in DOMAIN L : i \in DOMAIN Append(L, w) /\ Append(L, w)[i] = L[i])
      /\ Len(L) + 1 \in DOMAIN Append(L, w) /\ Append(L, w)[Len(L) + 1] = w
  BY <1>2
<1>8. c => \E i \in DOMAIN Append(L, w) : Counts(Append(L, w)[i])
  BY <1>1, <1>7
<1>9. Counts(w) => \E i \in DOMAIN Append(L, w) : Counts(Append(L, w)[i])
  BY <1>7
<1>10. Says(s \o (w \o <<"newline">>), TheWire!ReadLine(x, w), c)
  BY <1>3, <1>5, <1>6, <1>7, <1>8 DEF Says
<1>11. Counts(w) => Says(s \o (w \o <<"newline">>), TheWire!ReadLine(x, w), TRUE)
  BY <1>3, <1>5, <1>6, <1>7, <1>9 DEF Says
<1>12. TheWire!ReadLines(s \o w) = TheWire!ReadLine(x, w)
  BY <1>4, <1>6 DEF TheWire!ReadLines
<1> QED BY <1>10, <1>11, <1>12

\* Nothing behind the last line says nothing, and noise does not either.
LEMMA NoiseSaysNothing ==
  ASSUME NEW x
  PROVE  /\ TheWire!ReadLine(x, <<>>) = x
         /\ TheWire!ReadLine(x, <<"thread", "tab">>) = x
<1>1. <<>> \in Seq(Chars) /\ "tab" \in Chars /\ "thread" \in Plain
  BY PlainIsChars
<1>2. TheWire!Pieces(<<>>, "tab") = <<<<>>>>
  BY <1>1, PiecesEnd
<1>3. TheWire!ReadLine(x, <<>>) = x
  <2>1. <<<<>>>>[1] = <<>> /\ <<>> # <<"counts">> /\ <<>> # <<"unclassified">> /\ <<>> # <<"kind">>
        /\ <<>> # <<"skipfile">> /\ <<>> # <<"stopfile">> /\ <<>> # <<"failure">>
    OBVIOUS
  <2> QED BY <1>2, <2>1, Zenon DEF TheWire!ReadLine
<1>4. TheWire!Pieces(<<"thread", "tab">>, "tab")[1] = <<"thread">>
  <2>1. <<"thread", "tab">> = <<"thread">> \o (<<"tab">> \o <<>>) /\ <<"thread">> \in Seq(Chars)
        /\ <<>> \in Seq(Chars \ {"tab"}) /\ <<<<"thread">>>> \in Seq(Seq(Chars))
    BY <1>1, PlainIsChars
  <2>2. TheWire!Pieces(<<"thread">>, "tab") = <<<<"thread">>>>
    <3>1. <<>> \in Seq(Seq(Plain)) /\ <<>> \in Seq(Plain) /\ <<<<"thread">>>> \o <<>> = <<<<"thread">>>>
      BY <2>1
    <3>2. Written("thread", <<>>) = <<"thread">>
      BY <1>1, <3>1, WrittenMore
    <3> QED BY <1>1, <3>1, <3>2, LinesComeApart
  <2>3. TheWire!Pieces(<<"thread", "tab">>, "tab") = Append(<<<<"thread">>>>, <<>>)
    <3> DEFINE s == <<"thread">>
               p == <<<<"thread">>>>
               e == <<>>
               b == <<"tab">>
    <3>1. s \in Seq(Chars) /\ p \in Seq(Seq(Chars)) /\ p = TheWire!Pieces(s, "tab") /\ e \in Seq(Chars \ {"tab"})
          /\ <<"thread", "tab">> = s \o (b \o e)
      BY <2>1, <2>2
    <3> HIDE DEF s, p, e
    <3>2. TheWire!Pieces(s \o (<<"tab">> \o e), "tab") = Append(p, e)
      BY <1>1, <3>1, PiecesField
    <3> QED BY <3>1, <3>2 DEF p, e
  <2>4. Append(<<<<"thread">>>>, <<>>)[1] = <<"thread">>
    OBVIOUS
  <2> QED BY <2>3, <2>4
<1>5. TheWire!ReadLine(x, <<"thread", "tab">>) = x
  <2>1. <<"thread">> # <<"counts">> /\ <<"thread">> # <<"unclassified">> /\ <<"thread">> # <<"kind">>
        /\ <<"thread">> # <<"skipfile">> /\ <<"thread">> # <<"stopfile">> /\ <<"thread">> # <<"failure">>
    OBVIOUS
  <2> QED BY <1>4, <2>1, Zenon DEF TheWire!ReadLine
<1> QED BY <1>3, <1>5

LEMMA WholeLinesAreRead ==
  ASSUME NEW s, NEW x, NEW c, Says(s, x, c)
  PROVE  /\ TheWire!ReadLines(s) = x
         /\ c => TheWire!Counted(s)
<1>1. TheWire!ReadLines(s \o <<>>) = TheWire!ReadLine(x, <<>>)
  <2>1. <<>> \in Seq(Chars \ {"newline"})
    OBVIOUS
  <2> QED BY <2>1, OneLineMore
<1>2. s \o <<>> = s
  BY DEF Says
<1>3. TheWire!ReadLines(s) = x
  BY <1>1, <1>2, NoiseSaysNothing
<1>4. ASSUME c PROVE TheWire!Counted(s)
  <2>1. PICK L \in Seq(Seq(Chars)) : /\ TheWire!Pieces(s, "newline") = Append(L, <<>>)
                                     /\ \E i \in DOMAIN L : Counts(L[i])
    BY <1>4 DEF Says
  <2>2. PICK i \in DOMAIN L : Counts(L[i])
    BY <2>1
  <2>3. i \in DOMAIN Append(L, <<>>) /\ Append(L, <<>>)[i] = L[i]
    BY <2>2
  <2> QED BY <2>1, <2>2, <2>3 DEF TheWire!Counted, Counts
<1> QED BY <1>3, <1>4

-----------------------------------------------------------------------------
(***************************************************************************)
(* A run, its lines, and what the first so many of them say.               *)
(***************************************************************************)
LEMMA MoreLists == ASSUME NEW A, NEW B, A \subseteq B PROVE Seq(A) \subseteq Seq(B)
  OBVIOUS

LEMMA Joined ==
  ASSUME NEW E, NEW s \in Seq(E), NEW b \in Seq(E)
  PROVE  /\ s \o b \in Seq(E)
         /\ Len(s \o b) = Len(s) + Len(b)
         /\ \A i \in 1..Len(s) : (s \o b)[i] = s[i]
         /\ \A i \in 1..Len(b) : (s \o b)[Len(s) + i] = b[i]
<1>1. /\ s \o b \in Seq(E)
      /\ Len(s \o b) = Len(s) + Len(b)
      /\ \A i \in 1..Len(s) : (s \o b)[i] = s[i]
  OBVIOUS
<1>2. \A i \in 1..Len(b) : (s \o b)[Len(s) + i] = b[i]
  OBVIOUS
<1> QED BY <1>1, <1>2

LEMMA WireCardinality ==
  /\ \A S : TheWire!Cardinality(S) = Cardinality(S)
  /\ \A S : TheWire!IsFiniteSet(S) <=> IsFiniteSet(S)
<1>1. \A S : TheWire!Cardinality(S) = Cardinality(S)
  BY DEF TheWire!Cardinality, Cardinality
<1>2. \A S : TheWire!IsFiniteSet(S) <=> IsFiniteSet(S)
  BY DEF TheWire!IsFiniteSet, IsFiniteSet
<1> QED BY <1>1, <1>2

LEMMA ListedAll ==
  ASSUME NEW S, IsFiniteSet(S)
  PROVE  /\ TheWire!Listed(S) \in Seq(S)
         /\ \A k \in S : \E i \in 1..Len(TheWire!Listed(S)) : TheWire!Listed(S)[i] = k
         /\ \A i, j \in 1..Len(TheWire!Listed(S)) :
              TheWire!Listed(S)[i] = TheWire!Listed(S)[j] => i = j
<1> DEFINE n == Cardinality(S)
           list == TheWire!Listed(S)
<1>1. n \in Nat /\ ExistsBijection(1..n, S)
  BY FS_CardinalityType
<1>2. IsFiniteSet(1..n) /\ Cardinality(1..n) = n
  BY <1>1, FS_Interval
<1>3. \E f \in [1..n -> S] : \A k \in S : \E i \in DOMAIN f : f[i] = k
  <2>1. PICK f : f \in Bijection(1..n, S)
    BY <1>1 DEF ExistsBijection
  <2>2. f \in [1..n -> S] /\ \A k \in S : \E i \in 1..n : f[i] = k
    BY <2>1 DEF Bijection, Surjection
  <2> HIDE DEF n
  <2>3. DOMAIN f = 1..n
    BY <2>2
  <2> QED BY <2>2, <2>3
<1>4. list = CHOOSE f \in [1..n -> S] : \A k \in S : \E i \in DOMAIN f : f[i] = k
  BY WireCardinality DEF TheWire!Listed
<1> HIDE DEF n, list
<1>5. list \in [1..n -> S] /\ \A k \in S : \E i \in DOMAIN list : list[i] = k
  BY <1>3, <1>4
<1>6. list \in Surjection(1..n, S)
  BY <1>5 DEF Surjection
<1>7. list \in Injection(1..n, S)
  BY <1>2, <1>6, FS_SurjSameCardinalityImpliesInj DEF n
<1>8. list \in Seq(S) /\ Len(list) = n
  <2>1. list \in [1..n -> S]
    BY <1>5
  <2> QED BY <1>1, <2>1
<1>9. \A i, j \in 1..n : list[i] = list[j] => i = j
  BY <1>5, <1>7 DEF Injection, IsInjective
<1>10. \A k \in S : \E i \in 1..n : list[i] = k
  BY <1>5
<1> QED BY <1>8, <1>9, <1>10 DEF list

Listing(run) == TheWire!Listed(DOMAIN run.kinds.seen)

\* The words, counts and lists of a run.
LEMMA RunShape ==
  ASSUME NEW run, TheWire!IsRun(run)
  PROVE  /\ run.files \in Nat /\ run.passed \in Nat /\ run.failed \in Nat
         /\ run.skips \in [1..Len(Rows7) -> Nat]
         /\ run.kinds = [seen |-> run.kinds.seen, unclassified |-> run.kinds.unclassified]
         /\ run.kinds.unclassified \in Nat
         /\ run.kinds.seen \in [DOMAIN run.kinds.seen -> [passed : Nat, failed : Nat]]
         /\ Listing(run) \in Seq(DOMAIN run.kinds.seen)
         /\ \A k \in DOMAIN run.kinds.seen : \E i \in 1..Len(Listing(run)) : Listing(run)[i] = k
         /\ \A i, j \in 1..Len(Listing(run)) : Listing(run)[i] = Listing(run)[j] => i = j
         /\ \A k \in DOMAIN run.kinds.seen : k \in Seq(Chars)
         /\ run.skipped_files \in Seq(Seq(Chars) \X Seq(Chars))
         /\ run.stopped \in Seq(TheWire!Stops)
         /\ run.failures \in Seq(TheWire!Failures)
<1>1. STRING \subseteq Chars
  BY DEF Chars
<1>2. TheWire!IsKinds(run.kinds)
  BY DEF TheWire!IsRun
<1>3. IsFiniteSet(DOMAIN run.kinds.seen)
  BY <1>2, WireCardinality DEF TheWire!IsKinds
<1>4. \A k \in DOMAIN run.kinds.seen : k \in Seq(Chars)
  <2>1. \A k \in DOMAIN run.kinds.seen : k \in Seq(STRING)
    BY <1>2 DEF TheWire!IsKinds, TheWire!IsWord
  <2> QED BY <1>1, <2>1, MoreLists
<1>5. run.skipped_files \in Seq(Seq(Chars) \X Seq(Chars))
  <2>1. run.skipped_files \in Seq(Seq(STRING) \X Seq(STRING))
    BY DEF TheWire!IsRun
  <2>2. Seq(STRING) \subseteq Seq(Chars)
    BY <1>1, MoreLists
  <2>3. Seq(STRING) \X Seq(STRING) \subseteq Seq(Chars) \X Seq(Chars)
    BY <2>2
  <2> QED BY <2>1, <2>3
<1>6. run.files \in Nat /\ run.passed \in Nat /\ run.failed \in Nat
      /\ run.skips \in [1..Len(Rows7) -> Nat] /\ run.stopped \in Seq(TheWire!Stops)
      /\ run.failures \in Seq(TheWire!Failures)
  BY DEF TheWire!IsRun
<1>7. run.kinds = [seen |-> run.kinds.seen, unclassified |-> run.kinds.unclassified]
      /\ run.kinds.unclassified \in Nat
      /\ run.kinds.seen \in [DOMAIN run.kinds.seen -> [passed : Nat, failed : Nat]]
  BY <1>2 DEF TheWire!IsKinds
<1> QED BY <1>3, <1>4, <1>5, <1>6, <1>7, ListedAll DEF Listing

LEMMA NamesArePlain ==
  /\ {"counts", "unclassified", "kind", "skipfile", "stopfile", "failure"} \subseteq Plain
  /\ TheWire!Caught \subseteq Plain
  /\ TheWire!Whys \subseteq Plain
<1>1. {"counts", "unclassified", "kind", "skipfile", "stopfile", "failure"} \subseteq Plain
  BY DEF Plain, Chars
<1>2. TheWire!Caught \subseteq Plain
  BY DEF Plain, Chars, TheWire!Caught
<1>3. TheWire!Whys \subseteq Plain
  BY DEF Plain, Chars, TheWire!Whys
<1> QED BY <1>1, <1>2, <1>3

\* A line has a word and fields, and is written with a tab before each.
IsLine(l) == l.word \in Plain /\ l.fields \in Seq(Seq(Plain))

LEMMA ContentIs ==
  \A l : TheWire!Content(l) = Written(l.word, l.fields)
  BY DEF TheWire!Content, Written, Tabbed

\* The line that counts.
CountsLine(run) ==
  TheWire!Line("counts",
    <<TheWire!NumberText(run.files), TheWire!NumberText(run.passed), TheWire!NumberText(run.failed)>>
      \o [r \in 1..Len(Rows7) |-> TheWire!NumberText(run.skips[r])])
RestLine(run) == TheWire!Line("unclassified", <<TheWire!NumberText(run.kinds.unclassified)>>)

LEMMA CountsFields ==
  ASSUME NEW run, TheWire!IsRun(run)
  PROVE  /\ CountsLine(run).word = "counts"
         /\ CountsLine(run).fields \in Seq(Seq(Plain))
         /\ Len(CountsLine(run).fields) = Len(Rows7) + 3
         /\ CountsLine(run).fields[1] = TheWire!NumberText(run.files)
         /\ CountsLine(run).fields[2] = TheWire!NumberText(run.passed)
         /\ CountsLine(run).fields[3] = TheWire!NumberText(run.failed)
         /\ \A r \in 1..Len(Rows7) : CountsLine(run).fields[r + 3] = TheWire!NumberText(run.skips[r])
<1> DEFINE n == Len(Rows7)
           a == TheWire!NumberText(run.files)
           b == TheWire!NumberText(run.passed)
           c == TheWire!NumberText(run.failed)
           h == <<a, b, c>>
           g == [r \in 1..n |-> TheWire!NumberText(run.skips[r])]
           f == CountsLine(run).fields
<1>1. n \in Nat
  BY ToolsAssumption DEF ToolsAssumption
<1>2. a \in Seq(Plain) /\ b \in Seq(Plain) /\ c \in Seq(Plain)
  BY RunShape, NumbersAreRead
<1>3. g \in Seq(Seq(Plain)) /\ Len(g) = n /\ \A r \in 1..n : g[r] = TheWire!NumberText(run.skips[r])
  <2>1. \A r \in 1..n : TheWire!NumberText(run.skips[r]) \in Seq(Plain)
    <3>0. run.skips \in [1..n -> Nat]
      BY RunShape
    <3>1. \A r \in 1..n : run.skips[r] \in Nat
      BY <3>0
    <3>2. \A m \in Nat : TheWire!NumberText(m) \in Seq(Plain)
      BY NumbersAreRead
    <3> QED BY <3>1, <3>2
  <2> HIDE DEF n
  <2> QED BY <1>1, <2>1
<1>4. f = h \o g /\ CountsLine(run).word = "counts"
  BY DEF CountsLine, TheWire!Line
<1> HIDE DEF a, b, c, g, n, f
<1>5. h \in Seq(Seq(Plain)) /\ Len(h) = 3 /\ h[1] = a /\ h[2] = b /\ h[3] = c
  BY <1>2
<1> HIDE DEF h
<1>6. f \in Seq(Seq(Plain)) /\ Len(f) = n + 3 /\ f[1] = h[1] /\ f[2] = h[2] /\ f[3] = h[3]
      /\ \A r \in 1..n : f[r + 3] = g[r]
  <2>1. h \o g \in Seq(Seq(Plain)) /\ Len(h \o g) = Len(h) + Len(g) /\ (\A i \in 1..Len(h) : (h \o g)[i] = h[i])
        /\ \A i \in 1..Len(g) : (h \o g)[Len(h) + i] = g[i]
    <3> DEFINE E == Seq(Plain)
    <3> HIDE DEF E
    <3>1. h \in Seq(E) /\ g \in Seq(E)
      BY <1>3, <1>5 DEF E
    <3>2. h \o g \in Seq(E)
      BY <3>1
    <3> QED BY <3>1, <3>2, Joined DEF E
  <2>2. \A r \in 1..n : r + 3 = 3 + r
    BY <1>1
  <2>3. f \in Seq(Seq(Plain)) /\ Len(f) = n + 3 /\ \A i \in 1..3 : f[i] = h[i]
    BY <1>1, <1>3, <1>4, <1>5, <2>1
  <2>4. \A r \in 1..n : f[r + 3] = g[r]
    BY <1>3, <1>4, <1>5, <2>1, <2>2
  <2> QED BY <2>3, <2>4
<1> QED BY <1>3, <1>4, <1>5, <1>6 DEF a, b, c, f, n

LEMMA RestFields ==
  ASSUME NEW run, TheWire!IsRun(run)
  PROVE  /\ RestLine(run).word = "unclassified"
         /\ RestLine(run).fields \in Seq(Seq(Plain))
         /\ Len(RestLine(run).fields) = 1
         /\ RestLine(run).fields[1] = TheWire!NumberText(run.kinds.unclassified)
<1>1. TheWire!NumberText(run.kinds.unclassified) \in Seq(Plain)
  BY RunShape, NumbersAreRead
<1> QED BY <1>1 DEF RestLine, TheWire!Line

LEMMA KindFields ==
  ASSUME NEW k \in Seq(Chars), NEW tally \in [passed : Nat, failed : Nat]
  PROVE  /\ TheWire!KindLine(k, tally).word = "kind"
         /\ TheWire!KindLine(k, tally).fields \in Seq(Seq(Plain))
         /\ Len(TheWire!KindLine(k, tally).fields) = 3
         /\ TheWire!KindLine(k, tally).fields[1] = TheWire!Escaped(k)
         /\ TheWire!KindLine(k, tally).fields[2] = TheWire!NumberText(tally.passed)
         /\ TheWire!KindLine(k, tally).fields[3] = TheWire!NumberText(tally.failed)
<1>1. TheWire!Escaped(k) \in Seq(Plain) /\ TheWire!NumberText(tally.passed) \in Seq(Plain)
      /\ TheWire!NumberText(tally.failed) \in Seq(Plain)
  BY EscapedIsPlain, NumbersAreRead
<1> QED BY <1>1 DEF TheWire!KindLine, TheWire!Line

LEMMA SkipFields ==
  ASSUME NEW s \in Seq(Chars) \X Seq(Chars)
  PROVE  /\ TheWire!SkipLine(s).word = "skipfile"
         /\ TheWire!SkipLine(s).fields \in Seq(Seq(Plain))
         /\ Len(TheWire!SkipLine(s).fields) = 2
         /\ TheWire!SkipLine(s).fields[1] = TheWire!Escaped(s[1])
         /\ TheWire!SkipLine(s).fields[2] = TheWire!Escaped(s[2])
<1>1. TheWire!Escaped(s[1]) \in Seq(Plain) /\ TheWire!Escaped(s[2]) \in Seq(Plain)
  BY EscapedIsPlain
<1> QED BY <1>1 DEF TheWire!SkipLine, TheWire!Line

\* What is kept of a stop is the name of a file, what stopped it, and how.
LEMMA StopShape ==
  ASSUME NEW s \in TheWire!Stops
  PROVE  /\ s = <<s[1], s[2], s[3]>>
         /\ s[1] \in Seq(Chars)
         /\ s[2] \in TheWire!Caught
         /\ s[2] = "died" => s[3] \in Seq(Chars)
         /\ s[2] # "died" => s[3] \in Nat
<1>1. STRING \subseteq Chars
  BY DEF Chars
<1>2. Seq(STRING) \subseteq Seq(Chars)
  BY <1>1, MoreLists
<1>3. CASE s \in Seq(STRING) \X {"died"} \X Seq(STRING)
  BY <1>2, <1>3 DEF TheWire!Caught
<1>4. CASE s \in Seq(STRING) \X {"time", "memory"} \X Nat
  BY <1>2, <1>4 DEF TheWire!Caught
<1> QED BY <1>3, <1>4 DEF TheWire!Stops

\* What is written of a stop, and what is not a word of it is a number.
Spelt(s)  == TheWire!StopText(s)
Amount(s) == IF s[2] = "time" THEN s[3] \div TheWire!SECOND ELSE s[3]

LEMMA SpeltIs ==
  ASSUME NEW s \in TheWire!Stops
  PROVE  /\ s[2] = "died" => Spelt(s) = s[3]
         /\ s[2] # "died" => Amount(s) \in Nat /\ Spelt(s) = TheWire!NumberText(Amount(s))
<1>1. s[2] \in {"time", "memory", "died"} /\ (s[2] # "died" => s[3] \in Nat)
  BY StopShape DEF TheWire!Caught
<1>2. CASE s[2] = "died"
  BY <1>2 DEF Spelt, TheWire!StopText
<1>3. CASE s[2] = "memory"
  BY <1>1, <1>3 DEF Spelt, TheWire!StopText, Amount
<1>4. CASE s[2] = "time"
  <2>1. s[3] \div TheWire!SECOND \in Nat
    BY <1>1, <1>4 DEF TheWire!SECOND
  <2> QED BY <1>4, <2>1 DEF Spelt, TheWire!StopText, Amount
<1> QED BY <1>1, <1>2, <1>3, <1>4

LEMMA StopFields ==
  ASSUME NEW s \in TheWire!Stops
  PROVE  /\ TheWire!StopLine(s).word = "stopfile"
         /\ TheWire!StopLine(s).fields \in Seq(Seq(Plain))
         /\ Len(TheWire!StopLine(s).fields) = 3
         /\ TheWire!StopLine(s).fields[1] = TheWire!Escaped(s[1])
         /\ TheWire!StopLine(s).fields[2] = <<s[2]>>
         /\ TheWire!StopLine(s).fields[3] = TheWire!Escaped(Spelt(s))
         /\ Spelt(s) \in Seq(Chars)
<1>1. Spelt(s) \in Seq(Chars)
  <2>1. CASE s[2] = "died"
    BY <2>1, StopShape, SpeltIs
  <2>2. CASE s[2] # "died"
    <3>1. Amount(s) \in Nat /\ Spelt(s) = TheWire!NumberText(Amount(s))
      BY <2>2, SpeltIs
    <3>2. Spelt(s) \in Seq(Plain)
      BY <3>1, NumbersAreRead
    <3> QED BY <3>2, PlainIsChars
  <2> QED BY <2>1, <2>2
<1>2. TheWire!Escaped(s[1]) \in Seq(Plain) /\ TheWire!Escaped(Spelt(s)) \in Seq(Plain) /\ <<s[2]>> \in Seq(Plain)
  BY <1>1, StopShape, EscapedIsPlain, NamesArePlain
<1>3. TheWire!StopLine(s)
        = [word |-> "stopfile", fields |-> <<TheWire!Escaped(s[1]), <<s[2]>>, TheWire!Escaped(Spelt(s))>>]
  BY DEF TheWire!StopLine, TheWire!Line, Spelt
<1> QED BY <1>1, <1>2, <1>3

LEMMA FailureShape ==
  ASSUME NEW f \in TheWire!Failures
  PROVE  /\ f = [file |-> f.file, line |-> f.line, sql |-> f.sql, reason |-> f.reason,
                 detail |-> f.detail]
         /\ f.file \in Seq(Chars) /\ f.sql \in Seq(Chars) /\ f.detail \in Seq(Chars)
         /\ f.line \in Nat /\ f.reason \in TheWire!Whys
<1>1. STRING \subseteq Chars
  BY DEF Chars
<1>2. Seq(STRING) \subseteq Seq(Chars)
  BY <1>1, MoreLists
<1> QED BY <1>2 DEF TheWire!Failures

LEMMA FailureFields ==
  ASSUME NEW f \in TheWire!Failures
  PROVE  /\ TheWire!FailureLine(f).word = "failure"
         /\ TheWire!FailureLine(f).fields \in Seq(Seq(Plain))
         /\ Len(TheWire!FailureLine(f).fields) = 5
         /\ TheWire!FailureLine(f).fields[1] = TheWire!Escaped(f.file)
         /\ TheWire!FailureLine(f).fields[2] = TheWire!NumberText(f.line)
         /\ TheWire!FailureLine(f).fields[3] = TheWire!Escaped(f.sql)
         /\ TheWire!FailureLine(f).fields[4] = <<f.reason>>
         /\ TheWire!FailureLine(f).fields[5] = TheWire!Escaped(f.detail)
<1>1. TheWire!Escaped(f.file) \in Seq(Plain) /\ TheWire!NumberText(f.line) \in Seq(Plain)
      /\ TheWire!Escaped(f.sql) \in Seq(Plain) /\ <<f.reason>> \in Seq(Plain)
      /\ TheWire!Escaped(f.detail) \in Seq(Plain)
  BY FailureShape, EscapedIsPlain, NumbersAreRead, NamesArePlain
<1> QED BY <1>1 DEF TheWire!FailureLine, TheWire!Line

-----------------------------------------------------------------------------
(***************************************************************************)
(* Reading a line of each kind.                                            *)
(***************************************************************************)
Summary(files_, passed, failed, skips, kinds, skipped, stopped, broken) ==
  [files |-> files_, passed |-> passed, failed |-> failed, skips |-> skips, kinds |-> kinds,
   skipped_files |-> skipped, stopped |-> stopped, failures |-> broken]

\* The number in a field, when there is the field.
NumberAt(p, n) == IF n + 1 \in DOMAIN p THEN TheWire!Parsed(p[n + 1]) ELSE 0

Stop(p) ==
  TheWire!StopOf(TheWire!Unescaped(p[2]), TheWire!Named(p[3], TheWire!Caught, "died"),
                 TheWire!Unescaped(p[4]))

Failure(p) ==
  [file |-> TheWire!Unescaped(p[2]), line |-> TheWire!Parsed(p[3]),
   sql |-> TheWire!Unescaped(p[4]), reason |-> TheWire!Named(p[5], TheWire!Whys, "runtime"),
   detail |-> TheWire!Unescaped(p[6])]

LEMMA WordsDiffer ==
  /\ <<>> # <<"counts">> /\ <<>> # <<"unclassified">> /\ <<>> # <<"kind">>
  /\ <<>> # <<"skipfile">> /\ <<>> # <<"stopfile">> /\ <<>> # <<"failure">>
  /\ <<"counts">> # <<"unclassified">> /\ <<"counts">> # <<"kind">> /\ <<"counts">> # <<"skipfile">>
  /\ <<"counts">> # <<"stopfile">> /\ <<"counts">> # <<"failure">>
  /\ <<"unclassified">> # <<"kind">> /\ <<"unclassified">> # <<"skipfile">>
  /\ <<"unclassified">> # <<"stopfile">> /\ <<"unclassified">> # <<"failure">>
  /\ <<"kind">> # <<"skipfile">> /\ <<"kind">> # <<"stopfile">> /\ <<"kind">> # <<"failure">>
  /\ <<"skipfile">> # <<"stopfile">> /\ <<"skipfile">> # <<"failure">>
  /\ <<"stopfile">> # <<"failure">>
  OBVIOUS

\* A line that has no word, or not as many parts as its word wants, says nothing.
SaysLittle(p) ==
  \/ p[1] = <<>>
  \/ p[1] = <<"unclassified">> /\ Len(p) # 2
  \/ p[1] = <<"kind">> /\ Len(p) # 4
  \/ p[1] = <<"skipfile">> /\ Len(p) # 3
  \/ p[1] = <<"stopfile">> /\ Len(p) # 4
  \/ p[1] = <<"failure">> /\ Len(p) # 6

\* What a line does to what was read before it, by its word and how many parts it has.
PutCounts(x, p) ==
  [x EXCEPT !.files = NumberAt(p, 1), !.passed = NumberAt(p, 2), !.failed = NumberAt(p, 3),
            !.skips = [r \in 1..Len(Rows7) |-> NumberAt(p, r + 3)]]
PutRest(x, p) == [x EXCEPT !.kinds.unclassified = @ + NumberAt(p, 1)]
PutKind(x, p) ==
  [x EXCEPT !.kinds = TheWire!Charged(@, TheWire!Unescaped(p[2]), NumberAt(p, 2), NumberAt(p, 3))]
PutSkip(x, p) ==
  [x EXCEPT !.skipped_files = Append(@, <<TheWire!Unescaped(p[2]), TheWire!Unescaped(p[3])>>)]
PutStop(x, p)    == [x EXCEPT !.stopped = Append(@, Stop(p))]
PutFailure(x, p) == [x EXCEPT !.failures = Append(@, Failure(p))]

LEMMA ReadCases ==
  ASSUME NEW x, NEW w, NEW p, p = TheWire!Pieces(w, "tab")
  PROVE  /\ p[1] = <<"counts">> => TheWire!ReadLine(x, w) = PutCounts(x, p)
         /\ p[1] = <<"unclassified">> /\ Len(p) = 2 => TheWire!ReadLine(x, w) = PutRest(x, p)
         /\ p[1] = <<"kind">> /\ Len(p) = 4 => TheWire!ReadLine(x, w) = PutKind(x, p)
         /\ p[1] = <<"skipfile">> /\ Len(p) = 3 => TheWire!ReadLine(x, w) = PutSkip(x, p)
         /\ p[1] = <<"stopfile">> /\ Len(p) = 4 => TheWire!ReadLine(x, w) = PutStop(x, p)
         /\ p[1] = <<"failure">> /\ Len(p) = 6 => TheWire!ReadLine(x, w) = PutFailure(x, p)
         /\ SaysLittle(p) => TheWire!ReadLine(x, w) = x
<1>1. TheWire!ReadLine(x, w)
        = CASE p[1] = <<"counts">> -> PutCounts(x, p)
            [] p[1] = <<"unclassified">> /\ Len(p) = 2 -> PutRest(x, p)
            [] p[1] = <<"kind">> /\ Len(p) = 4 -> PutKind(x, p)
            [] p[1] = <<"skipfile">> /\ Len(p) = 3 -> PutSkip(x, p)
            [] p[1] = <<"stopfile">> /\ Len(p) = 4 -> PutStop(x, p)
            [] p[1] = <<"failure">> /\ Len(p) = 6 -> PutFailure(x, p)
            [] OTHER -> x
  BY Zenon DEF TheWire!ReadLine, NumberAt, Stop, Failure, PutCounts, PutRest, PutKind, PutSkip, PutStop,
               PutFailure
<1>2. p[1] = <<"counts">> => TheWire!ReadLine(x, w) = PutCounts(x, p)
  BY <1>1, WordsDiffer, Zenon
<1>3. p[1] = <<"unclassified">> /\ Len(p) = 2 => TheWire!ReadLine(x, w) = PutRest(x, p)
  BY <1>1, WordsDiffer, Zenon
<1>4. p[1] = <<"kind">> /\ Len(p) = 4 => TheWire!ReadLine(x, w) = PutKind(x, p)
  BY <1>1, WordsDiffer, Zenon
<1>5. p[1] = <<"skipfile">> /\ Len(p) = 3 => TheWire!ReadLine(x, w) = PutSkip(x, p)
  BY <1>1, WordsDiffer, Zenon
<1>6. p[1] = <<"stopfile">> /\ Len(p) = 4 => TheWire!ReadLine(x, w) = PutStop(x, p)
  BY <1>1, WordsDiffer, Zenon
<1>7. p[1] = <<"failure">> /\ Len(p) = 6 => TheWire!ReadLine(x, w) = PutFailure(x, p)
  BY <1>1, WordsDiffer, Zenon
<1>8. SaysLittle(p) => TheWire!ReadLine(x, w) = x
  <2>1. p[1] = <<>> => TheWire!ReadLine(x, w) = x
    BY <1>1, WordsDiffer, Zenon
  <2>2. p[1] = <<"unclassified">> /\ Len(p) # 2 => TheWire!ReadLine(x, w) = x
    BY <1>1, WordsDiffer, Zenon
  <2>3. p[1] = <<"kind">> /\ Len(p) # 4 => TheWire!ReadLine(x, w) = x
    BY <1>1, WordsDiffer, Zenon
  <2>4. p[1] = <<"skipfile">> /\ Len(p) # 3 => TheWire!ReadLine(x, w) = x
    BY <1>1, WordsDiffer, Zenon
  <2>5. p[1] = <<"stopfile">> /\ Len(p) # 4 => TheWire!ReadLine(x, w) = x
    BY <1>1, WordsDiffer, Zenon
  <2>6. p[1] = <<"failure">> /\ Len(p) # 6 => TheWire!ReadLine(x, w) = x
    BY <1>1, WordsDiffer, Zenon
  <2> QED BY <2>1, <2>2, <2>3, <2>4, <2>5, <2>6, Zenon DEF SaysLittle
<1> QED BY <1>2, <1>3, <1>4, <1>5, <1>6, <1>7, <1>8, Zenon

\* The counts.
LEMMA ReadsCounts ==
  ASSUME NEW a, NEW b, NEW c, NEW s, NEW k, NEW d, NEW e, NEW f,
         NEW w, NEW p, p = TheWire!Pieces(w, "tab"), p[1] = <<"counts">>
  PROVE  TheWire!ReadLine(Summary(a, b, c, s, k, d, e, f), w)
           = Summary(NumberAt(p, 1), NumberAt(p, 2), NumberAt(p, 3), [r \in 1..Len(Rows7) |-> NumberAt(p, r + 3)], k, d, e, f)
<1> DEFINE x == Summary(a, b, c, s, k, d, e, f)
<1> HIDE DEF x
<1>1. TheWire!ReadLine(x, w) = PutCounts(x, p)
  BY ReadCases
<1>2. PutCounts(x, p) = Summary(NumberAt(p, 1), NumberAt(p, 2), NumberAt(p, 3), [r \in 1..Len(Rows7) |-> NumberAt(p, r + 3)], k, d, e, f)
  <2> DEFINE v1 == NumberAt(p, 1)
             v2 == NumberAt(p, 2)
             v3 == NumberAt(p, 3)
             v4 == [r \in 1..Len(Rows7) |-> NumberAt(p, r + 3)]
  <2> HIDE DEF v1, v2, v3, v4
  <2>1. [x EXCEPT !.files = v1, !.passed = v2, !.failed = v3, !.skips = v4]
          = [[[[x EXCEPT !.files = v1] EXCEPT !.passed = v2] EXCEPT !.failed = v3] EXCEPT !.skips = v4]
    BY Zenon
  <2>2. [x EXCEPT !.files = v1] = Summary(v1, b, c, s, k, d, e, f)
    BY DEF Summary, x
  <2>3. [Summary(v1, b, c, s, k, d, e, f) EXCEPT !.passed = v2] = Summary(v1, v2, c, s, k, d, e, f)
    BY DEF Summary
  <2>4. [Summary(v1, v2, c, s, k, d, e, f) EXCEPT !.failed = v3] = Summary(v1, v2, v3, s, k, d, e, f)
    BY DEF Summary
  <2>5. [Summary(v1, v2, v3, s, k, d, e, f) EXCEPT !.skips = v4] = Summary(v1, v2, v3, v4, k, d, e, f)
    BY DEF Summary
  <2>6. PutCounts(x, p) = [x EXCEPT !.files = v1, !.passed = v2, !.failed = v3, !.skips = v4]
    BY Zenon DEF PutCounts, v1, v2, v3, v4
  <2>7. PutCounts(x, p) = Summary(v1, v2, v3, v4, k, d, e, f)
    BY <2>1, <2>2, <2>3, <2>4, <2>5, <2>6, Zenon
  <2> QED BY <2>7, Zenon DEF v1, v2, v3, v4
<1> QED BY <1>1, <1>2 DEF x

\* How many records the grammar could not sort.
LEMMA ReadsRest ==
  ASSUME NEW a, NEW b, NEW c, NEW s, NEW seen, NEW rest, NEW d, NEW e, NEW f,
         NEW w, NEW p, p = TheWire!Pieces(w, "tab"), p[1] = <<"unclassified">>, Len(p) = 2
  PROVE  TheWire!ReadLine(Summary(a, b, c, s, [seen |-> seen, unclassified |-> rest], d, e, f), w)
           = Summary(a, b, c, s, [seen |-> seen, unclassified |-> rest + NumberAt(p, 1)], d, e, f)
<1> DEFINE x == Summary(a, b, c, s, [seen |-> seen, unclassified |-> rest], d, e, f)
<1> HIDE DEF x
<1>1. TheWire!ReadLine(x, w) = PutRest(x, p)
  BY ReadCases
<1>2. PutRest(x, p) = Summary(a, b, c, s, [seen |-> seen, unclassified |-> rest + NumberAt(p, 1)], d, e, f)
  BY DEF Summary, x, PutRest
<1> QED BY <1>1, <1>2 DEF x

\* A kind.
LEMMA ReadsKind ==
  ASSUME NEW a, NEW b, NEW c, NEW s, NEW k, NEW d, NEW e, NEW f,
         NEW w, NEW p, p = TheWire!Pieces(w, "tab"), p[1] = <<"kind">>, Len(p) = 4
  PROVE  TheWire!ReadLine(Summary(a, b, c, s, k, d, e, f), w)
           = Summary(a, b, c, s, TheWire!Charged(k, TheWire!Unescaped(p[2]), NumberAt(p, 2), NumberAt(p, 3)),
                     d, e, f)
<1> DEFINE x == Summary(a, b, c, s, k, d, e, f)
<1> HIDE DEF x
<1>1. TheWire!ReadLine(x, w) = PutKind(x, p)
  BY ReadCases
<1>2. PutKind(x, p) = Summary(a, b, c, s, TheWire!Charged(k, TheWire!Unescaped(p[2]), NumberAt(p, 2), NumberAt(p, 3)),
                     d, e, f)
  <2> DEFINE Charge(K) == TheWire!Charged(K, TheWire!Unescaped(p[2]), NumberAt(p, 2), NumberAt(p, 3))
  <2> HIDE DEF Charge
  <2>3. x.kinds = k /\ \A Y : [x EXCEPT !.kinds = Y] = Summary(a, b, c, s, Y, d, e, f)
    BY DEF Summary, x
  <2>1. [x EXCEPT !.kinds = Charge(@)] = Summary(a, b, c, s, Charge(k), d, e, f)
    BY <2>3, Zenon
  <2>2. PutKind(x, p) = [x EXCEPT !.kinds = Charge(@)]
    BY Zenon DEF PutKind, Charge
  <2> QED BY <2>1, <2>2, Zenon DEF Charge
<1> QED BY <1>1, <1>2 DEF x

\* A file that was skipped.
LEMMA ReadsSkip ==
  ASSUME NEW a, NEW b, NEW c, NEW s, NEW k, NEW d, NEW e, NEW f,
         NEW w, NEW p, p = TheWire!Pieces(w, "tab"), p[1] = <<"skipfile">>, Len(p) = 3
  PROVE  TheWire!ReadLine(Summary(a, b, c, s, k, d, e, f), w)
           = Summary(a, b, c, s, k, Append(d, <<TheWire!Unescaped(p[2]), TheWire!Unescaped(p[3])>>), e, f)
<1> DEFINE x == Summary(a, b, c, s, k, d, e, f)
<1> HIDE DEF x
<1>1. TheWire!ReadLine(x, w) = PutSkip(x, p)
  BY ReadCases
<1>2. PutSkip(x, p) = Summary(a, b, c, s, k, Append(d, <<TheWire!Unescaped(p[2]), TheWire!Unescaped(p[3])>>), e, f)
  <2> DEFINE v == <<TheWire!Unescaped(p[2]), TheWire!Unescaped(p[3])>>
  <2> HIDE DEF v
  <2>3. x.skipped_files = d /\ \A Y : [x EXCEPT !.skipped_files = Y] = Summary(a, b, c, s, k, Y, e, f)
    BY DEF Summary, x
  <2>1. [x EXCEPT !.skipped_files = Append(@, v)] = Summary(a, b, c, s, k, Append(d, v), e, f)
    BY <2>3, Zenon
  <2>2. PutSkip(x, p) = [x EXCEPT !.skipped_files = Append(@, v)]
    BY Zenon DEF PutSkip, v
  <2> QED BY <2>1, <2>2, Zenon DEF v
<1> QED BY <1>1, <1>2 DEF x

\* A file that was stopped.
LEMMA ReadsStop ==
  ASSUME NEW a, NEW b, NEW c, NEW s, NEW k, NEW d, NEW e, NEW f,
         NEW w, NEW p, p = TheWire!Pieces(w, "tab"), p[1] = <<"stopfile">>, Len(p) = 4
  PROVE  TheWire!ReadLine(Summary(a, b, c, s, k, d, e, f), w)
           = Summary(a, b, c, s, k, d, Append(e, Stop(p)), f)
<1> DEFINE x == Summary(a, b, c, s, k, d, e, f)
<1> HIDE DEF x
<1>1. TheWire!ReadLine(x, w) = PutStop(x, p)
  BY ReadCases
<1>2. PutStop(x, p) = Summary(a, b, c, s, k, d, Append(e, Stop(p)), f)
  <2> DEFINE v == Stop(p)
  <2> HIDE DEF v
  <2>3. x.stopped = e /\ \A Y : [x EXCEPT !.stopped = Y] = Summary(a, b, c, s, k, d, Y, f)
    BY DEF Summary, x
  <2>1. [x EXCEPT !.stopped = Append(@, v)] = Summary(a, b, c, s, k, d, Append(e, v), f)
    BY <2>3, Zenon
  <2>2. PutStop(x, p) = [x EXCEPT !.stopped = Append(@, v)]
    BY Zenon DEF PutStop, v
  <2> QED BY <2>1, <2>2, Zenon DEF v
<1> QED BY <1>1, <1>2 DEF x

\* A failure.
LEMMA ReadsFailure ==
  ASSUME NEW a, NEW b, NEW c, NEW s, NEW k, NEW d, NEW e, NEW f,
         NEW w, NEW p, p = TheWire!Pieces(w, "tab"), p[1] = <<"failure">>, Len(p) = 6
  PROVE  TheWire!ReadLine(Summary(a, b, c, s, k, d, e, f), w)
           = Summary(a, b, c, s, k, d, e, Append(f, Failure(p)))
<1> DEFINE x == Summary(a, b, c, s, k, d, e, f)
<1> HIDE DEF x
<1>1. TheWire!ReadLine(x, w) = PutFailure(x, p)
  BY ReadCases
<1>2. PutFailure(x, p) = Summary(a, b, c, s, k, d, e, Append(f, Failure(p)))
  <2> DEFINE v == Failure(p)
  <2> HIDE DEF v
  <2>3. x.failures = f /\ \A Y : [x EXCEPT !.failures = Y] = Summary(a, b, c, s, k, d, e, Y)
    BY DEF Summary, x
  <2>1. [x EXCEPT !.failures = Append(@, v)] = Summary(a, b, c, s, k, d, e, Append(f, v))
    BY <2>3, Zenon
  <2>2. PutFailure(x, p) = [x EXCEPT !.failures = Append(@, v)]
    BY Zenon DEF PutFailure, v
  <2> QED BY <2>1, <2>2, Zenon DEF v
<1> QED BY <1>1, <1>2 DEF x

\* What was said when so many lines of each kind were read.
OfHeader(h, n) == IF h > 0 THEN n ELSE 0
ToldSkips(run, h) == [r \in 1..Len(Rows7) |-> OfHeader(h, run.skips[r])]
ToldSeen(run, a)  == [k \in {Listing(run)[j] : j \in 1..a} |-> run.kinds.seen[k]]
ToldRest(run, h)  == IF h > 1 THEN run.kinds.unclassified ELSE 0
ToldKinds(run, h, a) == [seen |-> ToldSeen(run, a), unclassified |-> ToldRest(run, h)]

Told(run, h, a, b, c, d) ==
  Summary(OfHeader(h, run.files), OfHeader(h, run.passed), OfHeader(h, run.failed), ToldSkips(run, h),
          ToldKinds(run, h, a), SubSeq(run.skipped_files, 1, b), SubSeq(run.stopped, 1, c),
          SubSeq(run.failures, 1, d))

LEMMA NothingTold ==
  ASSUME NEW run, TheWire!IsRun(run)
  PROVE  Told(run, 0, 0, 0, 0, 0) = TheWire!Nobody
<1>1. ToldSkips(run, 0) = [r \in 1..Len(Rows7) |-> 0]
  BY DEF ToldSkips, OfHeader
<1>2. ToldKinds(run, 0, 0) = TheWire!NoKinds
  <2>1. {Listing(run)[j] : j \in 1..0} = {}
    OBVIOUS
  <2>2. ToldSeen(run, 0) = [k \in {} |-> TheWire!NoTally]
    BY <2>1 DEF ToldSeen
  <2>3. ToldRest(run, 0) = 0
    BY DEF ToldRest
  <2> QED BY <2>2, <2>3 DEF ToldKinds, TheWire!NoKinds
<1>3. SubSeq(run.skipped_files, 1, 0) = <<>> /\ SubSeq(run.stopped, 1, 0) = <<>>
      /\ SubSeq(run.failures, 1, 0) = <<>>
  BY RunShape, Prefixes
<1>4. OfHeader(0, run.files) = 0 /\ OfHeader(0, run.passed) = 0 /\ OfHeader(0, run.failed) = 0
  BY DEF OfHeader
<1> QED BY <1>1, <1>2, <1>3, <1>4 DEF Told, Summary, TheWire!Nobody

LEMMA AllTold ==
  ASSUME NEW run, TheWire!IsRun(run)
  PROVE  Told(run, 2, Len(Listing(run)), Len(run.skipped_files), Len(run.stopped), Len(run.failures)) = run
<1>1. ToldSkips(run, 2) = run.skips
  <2>1. run.skips \in [1..Len(Rows7) -> Nat]
    BY RunShape
  <2>2. \A n : OfHeader(2, n) = n
    BY DEF OfHeader
  <2>3. run.skips = [r \in 1..Len(Rows7) |-> run.skips[r]]
    BY <2>1
  <2> QED BY <2>2, <2>3 DEF ToldSkips
<1>2. ToldKinds(run, 2, Len(Listing(run))) = run.kinds
  <2>1. {Listing(run)[j] : j \in 1..Len(Listing(run))} = DOMAIN run.kinds.seen
    <3> DEFINE list == Listing(run)
               S == DOMAIN run.kinds.seen
    <3>1. list \in Seq(S) /\ \A k \in S : \E i \in 1..Len(list) : list[i] = k
      BY RunShape
    <3> HIDE DEF list, S
    <3>2. \A j \in 1..Len(list) : list[j] \in S
      BY <3>1
    <3>3. {list[j] : j \in 1..Len(list)} = S
      BY <3>1, <3>2
    <3> QED BY <3>3 DEF list, S
  <2>2. ToldSeen(run, Len(Listing(run))) = run.kinds.seen
    <3>1. run.kinds.seen = [k \in DOMAIN run.kinds.seen |-> run.kinds.seen[k]]
      BY RunShape
    <3> QED BY <2>1, <3>1 DEF ToldSeen
  <2>3. ToldRest(run, 2) = run.kinds.unclassified
    BY DEF ToldRest
  <2> QED BY <2>2, <2>3, RunShape DEF ToldKinds
<1>3. /\ SubSeq(run.skipped_files, 1, Len(run.skipped_files)) = run.skipped_files
      /\ SubSeq(run.stopped, 1, Len(run.stopped)) = run.stopped
      /\ SubSeq(run.failures, 1, Len(run.failures)) = run.failures
  BY RunShape, Prefixes
<1>4. OfHeader(2, run.files) = run.files /\ OfHeader(2, run.passed) = run.passed
      /\ OfHeader(2, run.failed) = run.failed
  BY DEF OfHeader
<1>5. run = Summary(run.files, run.passed, run.failed, run.skips, run.kinds, run.skipped_files,
                    run.stopped, run.failures)
  BY DEF TheWire!IsRun, Summary
<1> QED BY <1>1, <1>2, <1>3, <1>4, <1>5 DEF Told

-----------------------------------------------------------------------------
(***************************************************************************)
(* A line that is there as it was written is read as what it is about.     *)
(***************************************************************************)
IsParts(p, l) ==
  /\ Len(p) = Len(l.fields) + 1
  /\ DOMAIN p = 1..Len(p)
  /\ p[1] = <<l.word>>
  /\ \A j \in 2..Len(p) : p[j] = l.fields[j - 1]

LEMMA WholeParts ==
  ASSUME NEW l, IsLine(l)
  PROVE  /\ TheWire!Content(l) \in Seq(Chars \ {"newline"})
         /\ IsParts(TheWire!Pieces(TheWire!Content(l), "tab"), l)
<1> DEFINE f == l.fields
           h == <<<<l.word>>>>
           p == h \o f
<1>1. l.word \in Plain /\ f \in Seq(Seq(Plain))
  BY DEF IsLine
<1>2. TheWire!Pieces(TheWire!Content(l), "tab") = p
  BY <1>1, ContentIs, LinesComeApart
<1>3. TheWire!Content(l) \in Seq(Chars \ {"newline"})
  <2>1. <<>> \in Seq(Plain)
    OBVIOUS
  <2> QED BY <1>1, <2>1, ContentIs, WrittenMore
<1>4. h \in Seq(Seq(Plain)) /\ Len(h) = 1 /\ h[1] = <<l.word>>
  BY <1>1
<1> HIDE DEF h, f
<1>5. p \in Seq(Seq(Plain)) /\ Len(p) = Len(h) + Len(f) /\ (\A i \in 1..Len(h) : p[i] = h[i])
      /\ \A i \in 1..Len(f) : p[Len(h) + i] = f[i]
  <2> DEFINE E == Seq(Plain)
  <2> HIDE DEF E
  <2>1. h \in Seq(E) /\ f \in Seq(E)
    BY <1>1, <1>4 DEF E
  <2>2. h \o f \in Seq(E)
    BY <2>1
  <2> QED BY <2>1, <2>2, Joined DEF E
<1> HIDE DEF p
<1>6. Len(f) \in Nat /\ Len(p) = Len(f) + 1 /\ DOMAIN p = 1..Len(p) /\ p[1] = <<l.word>>
  BY <1>1, <1>4, <1>5
<1>7. ASSUME NEW j \in 2..Len(p) PROVE p[j] = f[j - 1]
  <2>1. j - 1 \in 1..Len(f) /\ Len(h) + (j - 1) = j
    BY <1>4, <1>6
  <2>2. p[Len(h) + (j - 1)] = f[j - 1]
    BY <1>5, <2>1
  <2> QED BY <2>1, <2>2
<1> QED BY <1>2, <1>3, <1>6, <1>7 DEF IsParts, f

LEMMA NumbersInLines ==
  ASSUME NEW p, NEW l, IsParts(p, l), NEW i \in 1..Len(l.fields), Len(l.fields) \in Nat,
         NEW v \in Nat, l.fields[i] = TheWire!NumberText(v)
  PROVE  NumberAt(p, i) = v
<1>1. i + 1 \in 2..Len(p) /\ (i + 1) - 1 = i /\ i + 1 \in DOMAIN p
  BY DEF IsParts
<1>2. p[i + 1] = TheWire!NumberText(v)
  BY <1>1 DEF IsParts
<1> QED BY <1>1, <1>2, NumbersAreRead DEF NumberAt

LEMMA NamesInLines ==
  ASSUME NEW names, NEW name \in names, NEW otherwise
  PROVE  TheWire!Named(<<name>>, names, otherwise) = name
<1>1. <<name>>[1] = name
  OBVIOUS
<1> QED BY <1>1, Zenon DEF TheWire!Named

LEMMA CountsAreRead ==
  ASSUME NEW run, TheWire!IsRun(run), NEW a, NEW b, NEW c, NEW d
  PROVE  /\ TheWire!ReadLine(Told(run, 0, a, b, c, d), TheWire!Content(CountsLine(run)))
              = Told(run, 1, a, b, c, d)
         /\ Counts(TheWire!Content(CountsLine(run)))
<1> DEFINE l == CountsLine(run)
           w == TheWire!Content(l)
           p == TheWire!Pieces(w, "tab")
           x == Told(run, 0, a, b, c, d)
           n == Len(Rows7)
<1>1. n \in Nat
  BY ToolsAssumption DEF ToolsAssumption
<1>2. IsLine(l) /\ l.word = "counts" /\ Len(l.fields) = n + 3
      /\ l.fields[1] = TheWire!NumberText(run.files)
      /\ l.fields[2] = TheWire!NumberText(run.passed)
      /\ l.fields[3] = TheWire!NumberText(run.failed)
      /\ \A r \in 1..n : l.fields[r + 3] = TheWire!NumberText(run.skips[r])
  BY CountsFields, NamesArePlain DEF IsLine
<1>3. run.files \in Nat /\ run.passed \in Nat /\ run.failed \in Nat /\ run.skips \in [1..n -> Nat]
  BY RunShape
<1> HIDE DEF l, n
<1>4. IsParts(p, l)
  BY <1>2, WholeParts
<1> HIDE DEF w, p
<1>5. NumberAt(p, 1) = run.files /\ NumberAt(p, 2) = run.passed /\ NumberAt(p, 3) = run.failed
  <2>1. 1 \in 1..Len(l.fields) /\ 2 \in 1..Len(l.fields) /\ 3 \in 1..Len(l.fields) /\ Len(l.fields) \in Nat
    BY <1>1, <1>2
  <2> QED BY <1>2, <1>3, <1>4, <2>1, NumbersInLines
<1>6. [r \in 1..n |-> NumberAt(p, r + 3)] = ToldSkips(run, 1)
  <2>1. ASSUME NEW r \in 1..n PROVE NumberAt(p, r + 3) = OfHeader(1, run.skips[r])
    <3>1. r + 3 \in 1..Len(l.fields) /\ Len(l.fields) \in Nat /\ run.skips[r] \in Nat
      BY <1>1, <1>2, <1>3
    <3>2. l.fields[r + 3] = TheWire!NumberText(run.skips[r])
      BY <1>2
    <3>3. NumberAt(p, r + 3) = run.skips[r]
      BY <1>4, <3>1, <3>2, NumbersInLines
    <3> QED BY <3>3 DEF OfHeader
  <2> QED BY <2>1 DEF ToldSkips, n
<1>7. p[1] = <<"counts">>
  BY <1>2, <1>4 DEF IsParts
<1>8. TheWire!ReadLine(x, w)
        = Summary(NumberAt(p, 1), NumberAt(p, 2), NumberAt(p, 3), [r \in 1..Len(Rows7) |-> NumberAt(p, r + 3)],
                  ToldKinds(run, 0, a), SubSeq(run.skipped_files, 1, b), SubSeq(run.stopped, 1, c),
                  SubSeq(run.failures, 1, d))
  BY <1>7, ReadsCounts DEF p, Told
<1>9. ToldKinds(run, 0, a) = ToldKinds(run, 1, a) /\ \A v : OfHeader(1, v) = v
  BY DEF ToldKinds, ToldRest, OfHeader
<1>10. TheWire!ReadLine(x, w)
         = Summary(run.files, run.passed, run.failed, ToldSkips(run, 1), ToldKinds(run, 0, a),
                   SubSeq(run.skipped_files, 1, b), SubSeq(run.stopped, 1, c), SubSeq(run.failures, 1, d))
  BY <1>5, <1>6, <1>8 DEF n
<1>11. TheWire!ReadLine(x, w) = Told(run, 1, a, b, c, d)
  BY <1>9, <1>10 DEF Told
<1> QED BY <1>7, <1>11 DEF Counts, p, w, l

LEMMA RestIsRead ==
  ASSUME NEW run, TheWire!IsRun(run), NEW a, NEW b, NEW c, NEW d
  PROVE  TheWire!ReadLine(Told(run, 1, a, b, c, d), TheWire!Content(RestLine(run)))
           = Told(run, 2, a, b, c, d)
<1> DEFINE l == RestLine(run)
           w == TheWire!Content(l)
           p == TheWire!Pieces(w, "tab")
           x == Told(run, 1, a, b, c, d)
           n == run.kinds.unclassified
<1>1. n \in Nat
  BY RunShape
<1>2. IsLine(l) /\ l.word = "unclassified" /\ Len(l.fields) = 1
      /\ l.fields[1] = TheWire!NumberText(n)
  BY RestFields, NamesArePlain DEF IsLine
<1> HIDE DEF l, n
<1>3. IsParts(p, l)
  BY <1>2, WholeParts
<1> HIDE DEF w, p
<1>4. NumberAt(p, 1) = n
  <2>1. 1 \in 1..Len(l.fields) /\ Len(l.fields) \in Nat
    BY <1>2
  <2> QED BY <1>1, <1>2, <1>3, <2>1, NumbersInLines
<1>5. p[1] = <<"unclassified">> /\ Len(p) = 2
  BY <1>2, <1>3 DEF IsParts
<1>7. ToldRest(run, 1) + n = ToldRest(run, 2)
  BY <1>1 DEF ToldRest, n
<1>8. ToldSkips(run, 1) = ToldSkips(run, 2) /\ \A v : OfHeader(1, v) = OfHeader(2, v)
  BY DEF ToldSkips, OfHeader
<1>9. TheWire!ReadLine(x, w)
        = Summary(OfHeader(1, run.files), OfHeader(1, run.passed), OfHeader(1, run.failed), ToldSkips(run, 1),
                  [seen |-> ToldSeen(run, a), unclassified |-> ToldRest(run, 1) + n],
                  SubSeq(run.skipped_files, 1, b), SubSeq(run.stopped, 1, c), SubSeq(run.failures, 1, d))
  BY <1>4, <1>5, ReadsRest DEF Told, ToldKinds, p
<1>10. TheWire!ReadLine(x, w) = Told(run, 2, a, b, c, d)
  BY <1>7, <1>8, <1>9 DEF Told, ToldKinds
<1> QED BY <1>10 DEF w, l

\* One more kind, which nothing was said of before.
LEMMA KindListed ==
  ASSUME NEW run, TheWire!IsRun(run), NEW a \in 0..(Len(Listing(run)) - 1)
  PROVE  Listing(run)[a + 1] \in DOMAIN run.kinds.seen
<1> DEFINE list == Listing(run)
           S == DOMAIN run.kinds.seen
<1>1. list \in Seq(S)
  BY RunShape
<1> HIDE DEF list, S
<1>2. a + 1 \in 1..Len(list)
  BY <1>1 DEF list
<1>3. list[a + 1] \in S
  BY <1>1, <1>2
<1> QED BY <1>3 DEF list, S

PassedIn(run, k) == run.kinds.seen[k].passed
FailedIn(run, k) == run.kinds.seen[k].failed

SeenMore(run, a, k, m, n) ==
  [j \in DOMAIN ToldSeen(run, a) \cup {k} |->
     IF j = k THEN [passed |-> m, failed |-> n] ELSE run.kinds.seen[j]]

\* The kinds that were told are the first so many, and the next is not one of them.
LEMMA KindIsNext ==
  ASSUME NEW run, TheWire!IsRun(run), NEW a \in 0..(Len(Listing(run)) - 1),
         NEW more, more = a + 1, NEW k, k = Listing(run)[more]
  PROVE  /\ k \notin DOMAIN ToldSeen(run, a)
         /\ \A j : j \in DOMAIN ToldSeen(run, more) <=> j \in DOMAIN ToldSeen(run, a) \/ j = k
<1> DEFINE list == Listing(run)
           S == DOMAIN run.kinds.seen
           had == ToldSeen(run, a)
<1>1. list \in Seq(S) /\ Len(list) \in Nat /\ \A i, j \in 1..Len(list) : list[i] = list[j] => i = j
  <2>1. Listing(run) \in Seq(DOMAIN run.kinds.seen)
        /\ \A i, j \in 1..Len(Listing(run)) : Listing(run)[i] = Listing(run)[j] => i = j
    BY RunShape
  <2> QED BY <2>1
<1>2. DOMAIN had = {list[j] : j \in 1..a} /\ \A j \in DOMAIN had : had[j] = run.kinds.seen[j]
  BY DEF ToldSeen
<1> HIDE DEF list, S, had
<1>10. a \in Nat /\ a + 1 \in 1..Len(list) /\ \A j \in 1..a : j \in 1..Len(list) /\ j # a + 1
  <2>1. a \in 0..(Len(list) - 1)
    BY DEF list
  <2> QED BY <1>1, <2>1
<1>8. DOMAIN ToldSeen(run, more) = {list[j] : j \in 1..more}
  BY DEF ToldSeen, list
<1>3. k \in S
  BY <1>1, <1>10 DEF list
<1>4. k \notin DOMAIN had
  BY <1>1, <1>2, <1>10 DEF list
<1>5. {list[j] : j \in 1..more} = DOMAIN had \cup {k}
  <2>1. \A j \in 1..more : j \in 1..a \/ j = a + 1
    OBVIOUS
  <2>2. a + 1 \in 1..(a + 1) /\ \A j \in 1..a : j \in 1..more
    OBVIOUS
  <2>3. k = list[a + 1]
    BY DEF list
  <2> QED BY <1>2, <2>1, <2>2, <2>3
<1>6. \A j : j \in DOMAIN ToldSeen(run, more) <=> j \in DOMAIN had \/ j = k
  BY <1>5, <1>8
<1> QED BY <1>4, <1>6 DEF had

LEMMA KindPut ==
  ASSUME NEW run, TheWire!IsRun(run), NEW h, NEW a \in 0..(Len(Listing(run)) - 1),
         NEW more, more = a + 1, NEW k, k = Listing(run)[more], NEW m \in Nat, NEW n \in Nat
  PROVE  TheWire!Charged(ToldKinds(run, h, a), k, m, n)
           = [seen |-> SeenMore(run, a, k, m, n), unclassified |-> ToldRest(run, h)]
<1> DEFINE had == ToldSeen(run, a)
           K == [seen |-> had, unclassified |-> ToldRest(run, h)]
           new == [passed |-> 0 + m, failed |-> 0 + n]
<1>1. \A j \in DOMAIN had : had[j] = run.kinds.seen[j]
  BY DEF ToldSeen
<1>2. k \notin DOMAIN had
  BY KindIsNext
<1>3. ToldKinds(run, h, a) = K
  BY DEF ToldKinds
<1> HIDE DEF had
<1>4. TheWire!TallyOf(K, k) = [passed |-> 0, failed |-> 0]
  BY <1>2 DEF TheWire!TallyOf, TheWire!NoTally
<1>5. TheWire!Charged(K, k, m, n)
        = [K EXCEPT !.seen = [j \in DOMAIN @ \cup {k} |-> IF j = k THEN new ELSE @[j]]]
  BY <1>4 DEF TheWire!Charged
<1>6. new = [passed |-> m, failed |-> n]
  OBVIOUS
<1> HIDE DEF new
<1>7. [K EXCEPT !.seen = [j \in DOMAIN @ \cup {k} |-> IF j = k THEN new ELSE @[j]]]
        = [seen |-> [j \in DOMAIN had \cup {k} |-> IF j = k THEN new ELSE had[j]],
           unclassified |-> ToldRest(run, h)]
  OBVIOUS
<1>8. [j \in DOMAIN had \cup {k} |-> IF j = k THEN new ELSE had[j]]
        = [j \in DOMAIN had \cup {k} |-> IF j = k THEN new ELSE run.kinds.seen[j]]
  BY <1>1
<1>9. [j \in DOMAIN had \cup {k} |-> IF j = k THEN new ELSE run.kinds.seen[j]] = SeenMore(run, a, k, m, n)
  BY <1>6, Zenon DEF SeenMore, had
<1> QED BY <1>3, <1>5, <1>7, <1>8, <1>9

LEMMA KindCharged ==
  ASSUME NEW run, TheWire!IsRun(run), NEW h, NEW a \in 0..(Len(Listing(run)) - 1),
         NEW more, more = a + 1, NEW k, k = Listing(run)[more]
  PROVE  TheWire!Charged(ToldKinds(run, h, a), k, PassedIn(run, k), FailedIn(run, k))
           = ToldKinds(run, h, more)
<1> DEFINE m == PassedIn(run, k)
           n == FailedIn(run, k)
           seen == run.kinds.seen
           E == [passed : Nat, failed : Nat]
           D == DOMAIN ToldSeen(run, a) \cup {k}
<1>1. seen \in [DOMAIN seen -> E] /\ k \in DOMAIN seen
  BY RunShape, KindListed
<1>2. seen[k] \in E
  <2> HIDE DEF seen, E
  <2> QED BY <1>1
<1>3. m \in Nat /\ n \in Nat /\ [passed |-> m, failed |-> n] = seen[k]
  BY <1>2 DEF PassedIn, FailedIn
<1> HIDE DEF D
<1>4. DOMAIN ToldSeen(run, more) = D
  <2>1. \A j : j \in DOMAIN ToldSeen(run, more) <=> j \in DOMAIN ToldSeen(run, a) \/ j = k
    BY KindIsNext
  <2> QED BY <2>1 DEF D
<1> HIDE DEF m, n, seen, E
<1>5. TheWire!Charged(ToldKinds(run, h, a), k, m, n)
        = [seen |-> SeenMore(run, a, k, m, n), unclassified |-> ToldRest(run, h)]
  BY <1>3, KindPut
<1>6. SeenMore(run, a, k, m, n) = [j \in D |-> IF j = k THEN [passed |-> m, failed |-> n] ELSE seen[j]]
  BY Zenon DEF SeenMore, D, seen
<1>7. ToldSeen(run, more) = [j \in D |-> seen[j]]
  <2>1. ToldSeen(run, more) = [j \in DOMAIN ToldSeen(run, more) |-> seen[j]]
    BY DEF ToldSeen, seen
  <2> QED BY <1>4, <2>1, Zenon
<1>8. [j \in D |-> IF j = k THEN [passed |-> m, failed |-> n] ELSE seen[j]] = [j \in D |-> seen[j]]
  BY <1>3
<1> QED BY <1>5, <1>6, <1>7, <1>8 DEF ToldKinds, m, n

LEMMA KindIsRead ==
  ASSUME NEW run, TheWire!IsRun(run), NEW h, NEW a \in 0..(Len(Listing(run)) - 1), NEW b, NEW c, NEW d
  PROVE  LET k == Listing(run)[a + 1]
         IN  TheWire!ReadLine(Told(run, h, a, b, c, d),
                              TheWire!Content(TheWire!KindLine(k, run.kinds.seen[k])))
               = Told(run, h, a + 1, b, c, d)
<1> DEFINE k == Listing(run)[a + 1]
           tally == run.kinds.seen[k]
           l == TheWire!KindLine(k, tally)
           w == TheWire!Content(l)
           p == TheWire!Pieces(w, "tab")
           x == Told(run, h, a, b, c, d)
<1>1. k \in DOMAIN run.kinds.seen
  BY KindListed
<1> HIDE DEF k
<1>2. k \in Seq(Chars) /\ tally \in [passed : Nat, failed : Nat]
  <2>1. run.kinds.seen \in [DOMAIN run.kinds.seen -> [passed : Nat, failed : Nat]]
        /\ \A j \in DOMAIN run.kinds.seen : j \in Seq(Chars)
    BY RunShape
  <2> DEFINE seen == run.kinds.seen
             E == [passed : Nat, failed : Nat]
  <2>2. seen[k] \in E
    <3> HIDE DEF seen, E
    <3>1. seen \in [DOMAIN seen -> E] /\ k \in DOMAIN seen
      BY <1>1, <2>1 DEF seen, E
    <3> QED BY <3>1
  <2> QED BY <1>1, <2>1, <2>2
<1> HIDE DEF tally
<1>3. IsLine(l) /\ l.word = "kind" /\ Len(l.fields) = 3
      /\ l.fields[1] = TheWire!Escaped(k)
      /\ l.fields[2] = TheWire!NumberText(tally.passed)
      /\ l.fields[3] = TheWire!NumberText(tally.failed)
  BY <1>2, KindFields, NamesArePlain DEF IsLine
<1> HIDE DEF l
<1>4. IsParts(p, l)
  BY <1>3, WholeParts
<1> HIDE DEF w, p
<1>5. p[1] = <<"kind">> /\ Len(p) = 4 /\ p[2] = TheWire!Escaped(k)
  BY <1>3, <1>4 DEF IsParts
<1>6. NumberAt(p, 2) = tally.passed /\ NumberAt(p, 3) = tally.failed
  <2>1. 2 \in 1..Len(l.fields) /\ 3 \in 1..Len(l.fields) /\ Len(l.fields) \in Nat
    BY <1>3
  <2>2. tally.passed \in Nat /\ tally.failed \in Nat
    BY <1>2
  <2> QED BY <1>3, <1>4, <2>1, <2>2, NumbersInLines
<1>7. TheWire!Unescaped(p[2]) = k
  BY <1>2, <1>5, WordsAreRead
<1>9. TheWire!Charged(ToldKinds(run, h, a), k, tally.passed, tally.failed) = ToldKinds(run, h, a + 1)
  <2>1. TheWire!Charged(ToldKinds(run, h, a), k, PassedIn(run, k), FailedIn(run, k))
          = ToldKinds(run, h, a + 1)
    BY KindCharged DEF k
  <2>2. PassedIn(run, k) = tally.passed /\ FailedIn(run, k) = tally.failed
    BY Zenon DEF PassedIn, FailedIn, tally
  <2> QED BY <2>1, <2>2
<1>10. TheWire!ReadLine(x, w)
         = Summary(OfHeader(h, run.files), OfHeader(h, run.passed), OfHeader(h, run.failed),
                   ToldSkips(run, h), TheWire!Charged(ToldKinds(run, h, a), k, tally.passed, tally.failed),
                   SubSeq(run.skipped_files, 1, b), SubSeq(run.stopped, 1, c), SubSeq(run.failures, 1, d))
  BY <1>5, <1>6, <1>7, ReadsKind DEF Told, p
<1>11. TheWire!ReadLine(x, w) = Told(run, h, a + 1, b, c, d)
  BY <1>9, <1>10 DEF Told
<1> QED BY <1>11 DEF w, l, k, tally

LEMMA SkipIsRead ==
  ASSUME NEW run, TheWire!IsRun(run), NEW h, NEW a, NEW b \in 0..(Len(run.skipped_files) - 1), NEW c, NEW d
  PROVE  TheWire!ReadLine(Told(run, h, a, b, c, d),
                          TheWire!Content(TheWire!SkipLine(run.skipped_files[b + 1])))
           = Told(run, h, a, b + 1, c, d)
<1> DEFINE s == run.skipped_files[b + 1]
           l == TheWire!SkipLine(s)
           w == TheWire!Content(l)
           p == TheWire!Pieces(w, "tab")
           x == Told(run, h, a, b, c, d)
           list == run.skipped_files
<1>1. list \in Seq(Seq(Chars) \X Seq(Chars))
  BY RunShape
<1>2. s \in Seq(Chars) \X Seq(Chars) /\ SubSeq(list, 1, b + 1) = Append(SubSeq(list, 1, b), s)
  <2> DEFINE E == Seq(Chars) \X Seq(Chars)
  <2> HIDE DEF E, list
  <2>1. list \in Seq(E) /\ b \in 0..(Len(list) - 1)
    BY <1>1 DEF E, list
  <2>2. list[b + 1] \in E
    BY <2>1
  <2>3. SubSeq(list, 1, b + 1) = Append(SubSeq(list, 1, b), list[b + 1])
    BY <2>1, Prefixes
  <2> QED BY <2>2, <2>3 DEF E, list
<1> HIDE DEF s, list
<1>3. IsLine(l) /\ l.word = "skipfile" /\ Len(l.fields) = 2
      /\ l.fields[1] = TheWire!Escaped(s[1]) /\ l.fields[2] = TheWire!Escaped(s[2])
  BY <1>2, SkipFields, NamesArePlain DEF IsLine
<1> HIDE DEF l
<1>4. IsParts(p, l)
  BY <1>3, WholeParts
<1> HIDE DEF w, p
<1>5. p[1] = <<"skipfile">> /\ Len(p) = 3 /\ p[2] = TheWire!Escaped(s[1]) /\ p[3] = TheWire!Escaped(s[2])
  BY <1>3, <1>4 DEF IsParts
<1>6. TheWire!Unescaped(p[2]) = s[1] /\ TheWire!Unescaped(p[3]) = s[2] /\ <<s[1], s[2]>> = s
  BY <1>2, <1>5, WordsAreRead
<1>8. TheWire!ReadLine(x, w)
        = Summary(OfHeader(h, run.files), OfHeader(h, run.passed), OfHeader(h, run.failed),
                  ToldSkips(run, h), ToldKinds(run, h, a), Append(SubSeq(list, 1, b), s),
                  SubSeq(run.stopped, 1, c), SubSeq(run.failures, 1, d))
  BY <1>5, <1>6, ReadsSkip DEF Told, p, list
<1>9. TheWire!ReadLine(x, w) = Told(run, h, a, b + 1, c, d)
  BY <1>2, <1>8 DEF Told, list
<1> QED BY <1>9 DEF w, l, s

\* A run every time of which is in whole seconds already.
Even(run) == \A i \in DOMAIN run.stopped : TheWire!ToTheSecond(run.stopped[i]) = run.stopped[i]

LEMMA StopMeans ==
  ASSUME NEW s \in TheWire!Stops
  PROVE  TheWire!StopOf(s[1], s[2], Spelt(s)) = TheWire!ToTheSecond(s)
<1>1. s = <<s[1], s[2], s[3]>> /\ s[2] \in {"time", "memory", "died"}
  BY StopShape DEF TheWire!Caught
<1>2. s[2] # "died" => TheWire!Parsed(Spelt(s)) = Amount(s)
  BY SpeltIs, NumbersAreRead
<1>3. CASE s[2] = "died"
  BY <1>1, <1>3, SpeltIs DEF TheWire!StopOf, TheWire!ToTheSecond
<1>4. CASE s[2] = "memory"
  BY <1>1, <1>2, <1>4 DEF TheWire!StopOf, TheWire!ToTheSecond, Amount
<1>5. CASE s[2] = "time"
  BY <1>1, <1>2, <1>5, Zenon DEF TheWire!StopOf, TheWire!ToTheSecond, Amount
<1> QED BY <1>1, <1>3, <1>4, <1>5

LEMMA StopIsRead ==
  ASSUME NEW run, TheWire!IsRun(run), Even(run),
         NEW h, NEW a, NEW b, NEW c \in 0..(Len(run.stopped) - 1), NEW d
  PROVE  TheWire!ReadLine(Told(run, h, a, b, c, d),
                          TheWire!Content(TheWire!StopLine(run.stopped[c + 1])))
           = Told(run, h, a, b, c + 1, d)
<1> DEFINE s == run.stopped[c + 1]
           l == TheWire!StopLine(s)
           w == TheWire!Content(l)
           p == TheWire!Pieces(w, "tab")
           x == Told(run, h, a, b, c, d)
           list == run.stopped
<1>1. list \in Seq(TheWire!Stops)
  BY RunShape
<1>2. s \in TheWire!Stops /\ SubSeq(list, 1, c + 1) = Append(SubSeq(list, 1, c), s)
      /\ TheWire!ToTheSecond(s) = s
  <2> HIDE DEF list
  <2>1. list \in Seq(TheWire!Stops) /\ c \in 0..(Len(list) - 1)
    BY <1>1 DEF list
  <2>2. list[c + 1] \in TheWire!Stops /\ c + 1 \in DOMAIN list
    BY <2>1
  <2>4. TheWire!ToTheSecond(list[c + 1]) = list[c + 1]
    BY <2>2 DEF Even, list
  <2>3. SubSeq(list, 1, c + 1) = Append(SubSeq(list, 1, c), list[c + 1])
    BY <2>1, Prefixes
  <2> QED BY <2>2, <2>3, <2>4 DEF list
<1> HIDE DEF s, list
<1>3. IsLine(l) /\ l.word = "stopfile" /\ Len(l.fields) = 3
      /\ l.fields[1] = TheWire!Escaped(s[1]) /\ l.fields[2] = <<s[2]>>
      /\ l.fields[3] = TheWire!Escaped(Spelt(s)) /\ Spelt(s) \in Seq(Chars)
  BY <1>2, StopFields, NamesArePlain DEF IsLine
<1> HIDE DEF l
<1>4. IsParts(p, l)
  BY <1>3, WholeParts
<1> HIDE DEF w, p
<1>5. p[1] = <<"stopfile">> /\ Len(p) = 4 /\ p[2] = TheWire!Escaped(s[1]) /\ p[3] = <<s[2]>>
      /\ p[4] = TheWire!Escaped(Spelt(s))
  BY <1>3, <1>4 DEF IsParts
<1>6. Stop(p) = s
  <2>1. TheWire!Unescaped(p[2]) = s[1] /\ TheWire!Unescaped(p[4]) = Spelt(s)
    BY <1>2, <1>3, <1>5, StopShape, WordsAreRead
  <2>2. TheWire!Named(p[3], TheWire!Caught, "died") = s[2]
    BY <1>2, <1>5, StopShape, NamesInLines
  <2>3. Stop(p) = TheWire!StopOf(s[1], s[2], Spelt(s))
    BY <2>1, <2>2 DEF Stop
  <2> QED BY <1>2, <2>3, StopMeans
<1>8. TheWire!ReadLine(x, w)
        = Summary(OfHeader(h, run.files), OfHeader(h, run.passed), OfHeader(h, run.failed),
                  ToldSkips(run, h), ToldKinds(run, h, a), SubSeq(run.skipped_files, 1, b),
                  Append(SubSeq(list, 1, c), s), SubSeq(run.failures, 1, d))
  BY <1>5, <1>6, ReadsStop DEF Told, p, list
<1>9. TheWire!ReadLine(x, w) = Told(run, h, a, b, c + 1, d)
  BY <1>2, <1>8 DEF Told, list
<1> QED BY <1>9 DEF w, l, s

LEMMA FailureIsRead ==
  ASSUME NEW run, TheWire!IsRun(run), NEW h, NEW a, NEW b, NEW c, NEW d \in 0..(Len(run.failures) - 1)
  PROVE  TheWire!ReadLine(Told(run, h, a, b, c, d),
                          TheWire!Content(TheWire!FailureLine(run.failures[d + 1])))
           = Told(run, h, a, b, c, d + 1)
<1> DEFINE s == run.failures[d + 1]
           l == TheWire!FailureLine(s)
           w == TheWire!Content(l)
           p == TheWire!Pieces(w, "tab")
           x == Told(run, h, a, b, c, d)
           list == run.failures
<1>1. list \in Seq(TheWire!Failures)
  BY RunShape
<1>2. s \in TheWire!Failures /\ SubSeq(list, 1, d + 1) = Append(SubSeq(list, 1, d), s)
  <2> HIDE DEF list
  <2>1. list \in Seq(TheWire!Failures) /\ d \in 0..(Len(list) - 1)
    BY <1>1 DEF list
  <2>2. list[d + 1] \in TheWire!Failures
    BY <2>1
  <2>3. SubSeq(list, 1, d + 1) = Append(SubSeq(list, 1, d), list[d + 1])
    BY <2>1, Prefixes
  <2> QED BY <2>2, <2>3 DEF list
<1> HIDE DEF s, list
<1>3. IsLine(l) /\ l.word = "failure" /\ Len(l.fields) = 5
      /\ l.fields[1] = TheWire!Escaped(s.file) /\ l.fields[2] = TheWire!NumberText(s.line)
      /\ l.fields[3] = TheWire!Escaped(s.sql) /\ l.fields[4] = <<s.reason>>
      /\ l.fields[5] = TheWire!Escaped(s.detail)
  BY <1>2, FailureFields, NamesArePlain DEF IsLine
<1> HIDE DEF l
<1>4. IsParts(p, l)
  BY <1>3, WholeParts
<1> HIDE DEF w, p
<1>5. p[1] = <<"failure">> /\ Len(p) = 6 /\ p[2] = TheWire!Escaped(s.file)
      /\ p[3] = TheWire!NumberText(s.line) /\ p[4] = TheWire!Escaped(s.sql) /\ p[5] = <<s.reason>>
      /\ p[6] = TheWire!Escaped(s.detail)
  BY <1>3, <1>4 DEF IsParts
<1>6. Failure(p) = s
  <2>1. TheWire!Unescaped(p[2]) = s.file /\ TheWire!Unescaped(p[4]) = s.sql
        /\ TheWire!Unescaped(p[6]) = s.detail /\ TheWire!Parsed(p[3]) = s.line
    BY <1>2, <1>5, FailureShape, WordsAreRead, NumbersAreRead
  <2>2. TheWire!Named(p[5], TheWire!Whys, "runtime") = s.reason
    BY <1>2, <1>5, FailureShape, NamesInLines
  <2>3. Failure(p) = [file |-> s.file, line |-> s.line, sql |-> s.sql, reason |-> s.reason,
                      detail |-> s.detail]
    BY <2>1, <2>2 DEF Failure
  <2> QED BY <1>2, <2>3, FailureShape
<1>8. TheWire!ReadLine(x, w)
        = Summary(OfHeader(h, run.files), OfHeader(h, run.passed), OfHeader(h, run.failed),
                  ToldSkips(run, h), ToldKinds(run, h, a), SubSeq(run.skipped_files, 1, b),
                  SubSeq(run.stopped, 1, c), Append(SubSeq(list, 1, d), s))
  BY <1>5, <1>6, ReadsFailure DEF Told, p, list
<1>9. TheWire!ReadLine(x, w) = Told(run, h, a, b, c, d + 1)
  BY <1>2, <1>8 DEF Told, list
<1> QED BY <1>9 DEF w, l, s

-----------------------------------------------------------------------------
(***************************************************************************)
(* A line that was cut says no more than it would have said.               *)
(***************************************************************************)
Pass(kinds, k) == TheWire!TallyOf(kinds, k).passed
Fail(kinds, k) == TheWire!TallyOf(kinds, k).failed

KindsShape(kinds) ==
  /\ kinds = [seen |-> kinds.seen, unclassified |-> kinds.unclassified]
  /\ kinds.unclassified \in Nat
  /\ kinds.seen \in [DOMAIN kinds.seen -> [passed : Nat, failed : Nat]]

LEMMA TalliesAreNumbers ==
  ASSUME NEW kinds, KindsShape(kinds), NEW k
  PROVE  /\ TheWire!TallyOf(kinds, k) \in [passed : Nat, failed : Nat]
         /\ Pass(kinds, k) \in Nat /\ Fail(kinds, k) \in Nat
<1> DEFINE seen == kinds.seen
           E == [passed : Nat, failed : Nat]
           t == TheWire!TallyOf(kinds, k)
<1>1. seen \in [DOMAIN seen -> E]
  BY DEF KindsShape
<1>2. TheWire!NoTally \in E
  BY DEF TheWire!NoTally
<1>3. t = IF k \in DOMAIN seen THEN seen[k] ELSE TheWire!NoTally
  BY DEF TheWire!TallyOf
<1> HIDE DEF seen, t
<1>4. t \in E
  <2> HIDE DEF E
  <2> QED BY <1>1, <1>2, <1>3
<1>5. t.passed \in Nat /\ t.failed \in Nat
  BY <1>4
<1> QED BY <1>4, <1>5 DEF t, Pass, Fail

LEMMA RunKinds == ASSUME NEW run, TheWire!IsRun(run) PROVE KindsShape(run.kinds)
  BY RunShape DEF KindsShape

Within(less, kinds) ==
  /\ less.unclassified <= kinds.unclassified
  /\ \A k \in DOMAIN less.seen :
       k \in DOMAIN kinds.seen /\ Pass(less, k) <= Pass(kinds, k) /\ Fail(less, k) <= Fail(kinds, k)

LEMMA SummaryNoMore ==
  ASSUME NEW run, NEW a, NEW b, NEW c, NEW s, NEW k, NEW d, NEW e, NEW f,
         a <= run.files, b <= run.passed, c <= run.failed,
         \A r \in DOMAIN Rows7 : s[r] <= run.skips[r],
         Within(k, run.kinds), TheWire!Begins(d, run.skipped_files),
         TheWire!Begins(e, run.stopped), TheWire!Begins(f, run.failures)
  PROVE  TheWire!NoMore(Summary(a, b, c, s, k, d, e, f), run)
<1> DEFINE x == Summary(a, b, c, s, k, d, e, f)
<1>1. x.files = a /\ x.passed = b /\ x.failed = c /\ x.skips = s /\ x.kinds = k
      /\ x.skipped_files = d /\ x.stopped = e /\ x.failures = f
  BY DEF Summary
<1> HIDE DEF x
<1>2. /\ x.files <= run.files /\ x.passed <= run.passed /\ x.failed <= run.failed
      /\ \A r \in DOMAIN Rows7 : x.skips[r] <= run.skips[r]
      /\ TheWire!Begins(x.skipped_files, run.skipped_files)
      /\ TheWire!Begins(x.stopped, run.stopped)
      /\ TheWire!Begins(x.failures, run.failures)
  BY <1>1, Zenon
<1>3. Within(x.kinds, run.kinds)
  BY <1>1, Zenon
<1>4. TheWire!NoMore(x, run)
  BY <1>2, <1>3, Zenon DEF TheWire!NoMore, Within, Pass, Fail
<1> QED BY <1>4 DEF x

LEMMA Beginnings ==
  ASSUME NEW E, NEW list \in Seq(E), NEW b \in 0..Len(list)
  PROVE  TheWire!Begins(SubSeq(list, 1, b), list)
<1>1. Len(SubSeq(list, 1, b)) = b /\ \A i \in 1..(b - 1) : SubSeq(list, 1, b)[i] = list[i]
  OBVIOUS
<1> QED BY <1>1 DEF TheWire!Begins

LEMMA BeginningsAndMore ==
  ASSUME NEW E, NEW list \in Seq(E), NEW b \in 0..(Len(list) - 1), NEW v
  PROVE  TheWire!Begins(Append(SubSeq(list, 1, b), v), list)
<1> DEFINE F == E \cup {v}
           s == SubSeq(list, 1, b)
           t == Append(s, v)
<1>1. list \in Seq(F) /\ v \in F
  <2>1. E \subseteq F
    OBVIOUS
  <2> QED BY <2>1, MoreLists
<1> HIDE DEF F
<1>2. s \in Seq(F) /\ Len(s) = b /\ \A i \in 1..b : s[i] = list[i]
  BY <1>1
<1> HIDE DEF s
<1>3. t = [i \in 1..(Len(s) + 1) |-> IF i = Len(s) + 1 THEN v ELSE s[i]] /\ t \in Seq(F)
  BY <1>1, <1>2, AppendIs
<1> HIDE DEF t
<1>4. Len(t) = b + 1 /\ \A i \in 1..b : t[i] = list[i]
  <2>1. DOMAIN t = 1..(b + 1)
    BY <1>2, <1>3
  <2>2. Len(t) = b + 1
    BY <1>3, <2>1
  <2>3. ASSUME NEW i \in 1..b PROVE t[i] = list[i]
    <3>1. i \in 1..(Len(s) + 1) /\ i # Len(s) + 1
      BY <1>2
    <3> QED BY <1>2, <1>3, <3>1
  <2> QED BY <2>2, <2>3
<1> QED BY <1>4 DEF TheWire!Begins, t, s

LEMMA ToldWithin ==
  ASSUME NEW run, TheWire!IsRun(run), NEW h \in 0..2, NEW a \in 0..Len(Listing(run))
  PROVE  /\ OfHeader(h, run.files) <= run.files
         /\ OfHeader(h, run.passed) <= run.passed
         /\ OfHeader(h, run.failed) <= run.failed
         /\ \A r \in DOMAIN Rows7 : ToldSkips(run, h)[r] <= run.skips[r]
         /\ Within(ToldKinds(run, h, a), run.kinds)
<1>1. ASSUME NEW n \in Nat PROVE OfHeader(h, n) <= n
  BY DEF OfHeader
<1>2. ASSUME NEW r \in DOMAIN Rows7 PROVE ToldSkips(run, h)[r] <= run.skips[r]
  <2> DEFINE skips == run.skips
             n == Len(Rows7)
  <2>1. r \in 1..n
    BY ToolsAssumption DEF ToolsAssumption
  <2>2. skips \in [1..n -> Nat]
    BY RunShape
  <2> HIDE DEF skips, n
  <2>3. skips[r] \in Nat
    BY <2>1, <2>2
  <2>4. ToldSkips(run, h) = [q \in 1..n |-> OfHeader(h, skips[q])]
    BY DEF ToldSkips, n, skips
  <2>5. ToldSkips(run, h)[r] = OfHeader(h, skips[r])
    BY <2>1, <2>4
  <2> QED BY <1>1, <2>3, <2>5 DEF skips
<1>3. Within(ToldKinds(run, h, a), run.kinds)
  <2> DEFINE less == ToldKinds(run, h, a)
             kinds == run.kinds
  <2>1. KindsShape(kinds)
    BY RunKinds
  <2>2. less.unclassified = ToldRest(run, h) /\ less.seen = ToldSeen(run, a)
    BY DEF ToldKinds
  <2>3. ToldRest(run, h) <= kinds.unclassified
    BY <2>1 DEF ToldRest, KindsShape
  <2>4. ASSUME NEW k \in DOMAIN ToldSeen(run, a)
        PROVE  k \in DOMAIN kinds.seen /\ ToldSeen(run, a)[k] = kinds.seen[k]
    <3> DEFINE list == Listing(run)
               S == DOMAIN run.kinds.seen
    <3>1. list \in Seq(S)
      BY RunShape
    <3>2. k \in {list[j] : j \in 1..a} /\ ToldSeen(run, a)[k] = kinds.seen[k]
      BY DEF ToldSeen
    <3>3. a \in 0..Len(list)
      OBVIOUS
    <3> HIDE DEF list, S
    <3>4. k \in S
      BY <3>1, <3>2, <3>3
    <3> QED BY <3>2, <3>4 DEF S
  <2> HIDE DEF less, kinds
  <2>5. ASSUME NEW k \in DOMAIN less.seen
        PROVE  k \in DOMAIN kinds.seen /\ Pass(less, k) <= Pass(kinds, k) /\ Fail(less, k) <= Fail(kinds, k)
    <3>1. k \in DOMAIN kinds.seen /\ less.seen[k] = kinds.seen[k]
      BY <2>2, <2>4, Zenon
    <3>2. TheWire!TallyOf(less, k) = TheWire!TallyOf(kinds, k)
      BY <3>1, Zenon DEF TheWire!TallyOf
    <3>3. Pass(less, k) = Pass(kinds, k) /\ Fail(less, k) = Fail(kinds, k)
      BY <3>2, Zenon DEF Pass, Fail
    <3>4. Pass(kinds, k) \in Nat /\ Fail(kinds, k) \in Nat
      BY <2>1, TalliesAreNumbers
    <3> QED BY <3>1, <3>3, <3>4
  <2> QED BY <2>2, <2>3, <2>5 DEF Within, less, kinds
<1> QED BY <1>1, <1>2, <1>3, RunShape

LEMMA ToldNoMore ==
  ASSUME NEW run, TheWire!IsRun(run), NEW h \in 0..2, NEW a \in 0..Len(Listing(run)),
         NEW b \in 0..Len(run.skipped_files), NEW c \in 0..Len(run.stopped),
         NEW d \in 0..Len(run.failures)
  PROVE  TheWire!NoMore(Told(run, h, a, b, c, d), run)
<1>1. /\ TheWire!Begins(SubSeq(run.skipped_files, 1, b), run.skipped_files)
      /\ TheWire!Begins(SubSeq(run.stopped, 1, c), run.stopped)
      /\ TheWire!Begins(SubSeq(run.failures, 1, d), run.failures)
  BY RunShape, Beginnings
<1> QED BY <1>1, ToldWithin, SummaryNoMore DEF Told

\* What is left of a number is no larger.
LEMMA CutNumbers ==
  ASSUME NEW p, NEW word, NEW f, Len(f) \in Nat, CutOff(p, word, f), NEW i \in 1..Len(f),
         NEW v \in Nat, f[i] = TheWire!NumberText(v)
  PROVE  NumberAt(p, i) \in 0..v
<1>1. CASE p = <<<<>>>>
  <2>1. DOMAIN p = {1} /\ i + 1 # 1
    BY <1>1
  <2>2. NumberAt(p, i) = 0
    BY <2>1 DEF NumberAt
  <2> QED BY <2>2
<1>2. CASE /\ p \in Seq(Seq(Chars))
           /\ Len(p) \in 1..(Len(f) + 1)
           /\ p[1] = <<word>>
           /\ \A j \in 2..(Len(p) - 1) : p[j] = f[j - 1]
           /\ Len(p) > 1 => \E m \in 0..Len(f[Len(p) - 1]) : p[Len(p)] = SubSeq(f[Len(p) - 1], 1, m)
  <2> DEFINE E == Seq(Chars)
  <2> HIDE DEF E
  <2>0. p \in Seq(E)
    BY <1>2 DEF E
  <2>1. DOMAIN p = 1..Len(p) /\ Len(p) \in Nat /\ i \in Nat /\ i >= 1 /\ (i + 1) - 1 = i
    BY <2>0
  <2>2. CASE i + 1 < Len(p)
    <3>1. i + 1 \in 2..(Len(p) - 1) /\ i + 1 \in DOMAIN p
      BY <2>1, <2>2
    <3>2. p[i + 1] = TheWire!NumberText(v)
      BY <1>2, <2>1, <3>1
    <3>3. NumberAt(p, i) = v
      BY <3>1, <3>2, NumbersAreRead DEF NumberAt
    <3> QED BY <3>3
  <2>3. CASE i + 1 = Len(p)
    <3>1. i + 1 \in DOMAIN p
      BY <2>1, <2>3
    <3>4. Len(p) > 1
      BY <2>1, <2>3
    <3>5. Len(p) - 1 = i
      BY <2>1, <2>3
    <3>2. PICK m \in 0..Len(TheWire!NumberText(v)) : p[i + 1] = SubSeq(TheWire!NumberText(v), 1, m)
      BY <1>2, <2>3, <3>4, <3>5
    <3>3. NumberAt(p, i) = TheWire!Parsed(SubSeq(TheWire!NumberText(v), 1, m))
      BY <3>1, <3>2 DEF NumberAt
    <3> QED BY <3>3, NumbersAreRead
  <2>4. CASE i + 1 > Len(p)
    <3>1. i + 1 \notin DOMAIN p
      BY <2>1, <2>4
    <3>2. NumberAt(p, i) = 0
      BY <3>1 DEF NumberAt
    <3> QED BY <3>2
  <2>5. i + 1 < Len(p) \/ i + 1 = Len(p) \/ i + 1 > Len(p)
    <3> DEFINE n == Len(p)
    <3>1. n \in Nat /\ i \in Nat
      BY <2>0
    <3> HIDE DEF n
    <3>2. i + 1 < n \/ i + 1 = n \/ i + 1 > n
      BY <3>1
    <3> QED BY <3>2 DEF n
  <2> QED BY <2>2, <2>3, <2>4, <2>5, Zenon
<1> QED BY <1>1, <1>2 DEF CutOff

\* It has the word, or it has nothing; and the fields before the last are there.
LEMMA CutParts ==
  ASSUME NEW p, NEW word, NEW f, Len(f) \in Nat, CutOff(p, word, f)
  PROVE  Len(p) \in Nat /\ (p[1] = <<>> \/ p[1] = <<word>>)
<1>1. CASE p = <<<<>>>>
  <2>1. Len(p) = 1 /\ p[1] = <<>>
    BY <1>1
  <2> QED BY <2>1
<1>2. CASE Len(p) \in 1..(Len(f) + 1) /\ p[1] = <<word>>
  <2>1. Len(p) \in Nat
    BY <1>2
  <2> QED BY <1>2, <2>1
<1> QED BY <1>1, <1>2 DEF CutOff

LEMMA FirstField ==
  ASSUME NEW p, NEW word, NEW f, Len(f) \in Nat, CutOff(p, word, f), Len(p) > 2
  PROVE  p[2] = f[1]
<1>1. CASE p = <<<<>>>>
  BY <1>1
<1>2. CASE Len(p) \in 1..(Len(f) + 1) /\ \A j \in 2..(Len(p) - 1) : p[j] = f[j - 1]
  <2>1. 2 \in 2..(Len(p) - 1) /\ 2 - 1 = 1
    BY <1>2
  <2> QED BY <1>2, <2>1
<1> QED BY <1>1, <1>2 DEF CutOff

LEMMA CutCounts ==
  ASSUME NEW run, TheWire!IsRun(run), NEW a \in 0..Len(Listing(run)),
         NEW b \in 0..Len(run.skipped_files), NEW c \in 0..Len(run.stopped),
         NEW d \in 0..Len(run.failures), NEW w, NEW p, p = TheWire!Pieces(w, "tab"),
         CutOff(p, CountsLine(run).word, CountsLine(run).fields)
  PROVE  TheWire!NoMore(TheWire!ReadLine(Told(run, 0, a, b, c, d), w), run)
<1> DEFINE f == CountsLine(run).fields
           n == Len(Rows7)
           skips == run.skips
<1>1. n \in Nat
  BY ToolsAssumption DEF ToolsAssumption
<1>2. /\ CutOff(p, "counts", f) /\ Len(f) \in Nat /\ Len(f) = n + 3
      /\ f[1] = TheWire!NumberText(run.files) /\ f[2] = TheWire!NumberText(run.passed)
      /\ f[3] = TheWire!NumberText(run.failed)
      /\ \A r \in 1..n : f[r + 3] = TheWire!NumberText(skips[r])
  BY <1>1, CountsFields, SMTT(30)
<1>3. run.files \in Nat /\ run.passed \in Nat /\ run.failed \in Nat /\ skips \in [1..n -> Nat]
  BY RunShape
<1> HIDE DEF f, n, skips
<1>4. CASE p[1] = <<>>
  <2>1. TheWire!ReadLine(Told(run, 0, a, b, c, d), w) = Told(run, 0, a, b, c, d)
    BY <1>4, ReadCases DEF SaysLittle
  <2> QED BY <2>1, ToldNoMore
<1>5. CASE p[1] = <<"counts">>
  <2> DEFINE s == [r \in 1..Len(Rows7) |-> NumberAt(p, r + 3)]
  <2>1. TheWire!ReadLine(Told(run, 0, a, b, c, d), w)
          = Summary(NumberAt(p, 1), NumberAt(p, 2), NumberAt(p, 3), s, ToldKinds(run, 0, a),
                    SubSeq(run.skipped_files, 1, b), SubSeq(run.stopped, 1, c), SubSeq(run.failures, 1, d))
    BY <1>5, ReadsCounts DEF Told
  <2>2. 1 \in 1..Len(f) /\ 2 \in 1..Len(f) /\ 3 \in 1..Len(f)
    BY <1>1, <1>2
  <2>3. NumberAt(p, 1) <= run.files /\ NumberAt(p, 2) <= run.passed /\ NumberAt(p, 3) <= run.failed
    <3>1. NumberAt(p, 1) \in 0..run.files
      BY <1>2, <1>3, <2>2, CutNumbers
    <3>2. NumberAt(p, 2) \in 0..run.passed
      BY <1>2, <1>3, <2>2, CutNumbers
    <3>3. NumberAt(p, 3) \in 0..run.failed
      BY <1>2, <1>3, <2>2, CutNumbers
    <3> QED BY <1>3, <3>1, <3>2, <3>3
  <2>4. ASSUME NEW r \in DOMAIN Rows7 PROVE s[r] <= run.skips[r]
    <3>1. r \in 1..n
      BY ToolsAssumption DEF ToolsAssumption, n
    <3>2. r + 3 \in 1..Len(f) /\ skips[r] \in Nat /\ f[r + 3] = TheWire!NumberText(skips[r])
      <4>1. r + 3 \in 1..Len(f)
        BY <1>1, <1>2, <3>1
      <4>2. skips[r] \in Nat
        BY <1>3, <3>1
      <4>3. f[r + 3] = TheWire!NumberText(skips[r])
        BY <1>2, <3>1
      <4> QED BY <4>1, <4>2, <4>3
    <3>3. NumberAt(p, r + 3) \in 0..skips[r]
      BY <1>2, <3>2, CutNumbers
    <3>4. s[r] = NumberAt(p, r + 3)
      BY <3>1 DEF n
    <3> QED BY <3>2, <3>3, <3>4 DEF skips
  <2>5. /\ TheWire!Begins(SubSeq(run.skipped_files, 1, b), run.skipped_files)
        /\ TheWire!Begins(SubSeq(run.stopped, 1, c), run.stopped)
        /\ TheWire!Begins(SubSeq(run.failures, 1, d), run.failures)
    BY RunShape, Beginnings
  <2>6. Within(ToldKinds(run, 0, a), run.kinds)
    BY ToldWithin
  <2> HIDE DEF s
  <2> QED BY <2>1, <2>3, <2>4, <2>5, <2>6, SummaryNoMore
<1> QED BY <1>2, <1>4, <1>5, CutParts

LEMMA CutRest ==
  ASSUME NEW run, TheWire!IsRun(run), NEW a \in 0..Len(Listing(run)),
         NEW b \in 0..Len(run.skipped_files), NEW c \in 0..Len(run.stopped),
         NEW d \in 0..Len(run.failures), NEW w, NEW p, p = TheWire!Pieces(w, "tab"),
         CutOff(p, RestLine(run).word, RestLine(run).fields)
  PROVE  TheWire!NoMore(TheWire!ReadLine(Told(run, 1, a, b, c, d), w), run)
<1> DEFINE f == RestLine(run).fields
           n == run.kinds.unclassified
<1>1. n \in Nat
  BY RunShape
<1>2. CutOff(p, "unclassified", f) /\ Len(f) = 1
      /\ f[1] = TheWire!NumberText(n)
  BY RestFields
<1> HIDE DEF f, n
<1>3. CASE SaysLittle(p)
  <2>1. TheWire!ReadLine(Told(run, 1, a, b, c, d), w) = Told(run, 1, a, b, c, d)
    BY <1>3, ReadCases
  <2> QED BY <2>1, ToldNoMore
<1>4. CASE p[1] = <<"unclassified">> /\ Len(p) = 2
  <2> DEFINE k == [seen |-> ToldSeen(run, a), unclassified |-> ToldRest(run, 1) + NumberAt(p, 1)]
  <2>1. TheWire!ReadLine(Told(run, 1, a, b, c, d), w)
          = Summary(OfHeader(1, run.files), OfHeader(1, run.passed), OfHeader(1, run.failed),
                    ToldSkips(run, 1), k,
                    SubSeq(run.skipped_files, 1, b), SubSeq(run.stopped, 1, c), SubSeq(run.failures, 1, d))
    BY <1>4, ReadsRest DEF Told, ToldKinds
  <2>2. NumberAt(p, 1) \in 0..n
    <3>1. 1 \in 1..Len(f) /\ Len(f) \in Nat
      BY <1>2
    <3> QED BY <1>1, <1>2, <3>1, CutNumbers
  <2>3. ToldRest(run, 1) = 0
    BY DEF ToldRest
  <2>4. /\ TheWire!Begins(SubSeq(run.skipped_files, 1, b), run.skipped_files)
        /\ TheWire!Begins(SubSeq(run.stopped, 1, c), run.stopped)
        /\ TheWire!Begins(SubSeq(run.failures, 1, d), run.failures)
    BY RunShape, Beginnings
  <2>5. Within(k, run.kinds)
    <3> DEFINE k0 == ToldKinds(run, 1, a)
    <3>1. k.seen = k0.seen /\ k.unclassified = NumberAt(p, 1)
      BY <2>2, <2>3 DEF ToldKinds
    <3>2. Within(k0, run.kinds)
      BY ToldWithin
    <3>3. k.unclassified <= run.kinds.unclassified
      BY <1>1, <2>2, <3>1 DEF n
    <3> HIDE DEF k, k0
    <3>4. ASSUME NEW j PROVE Pass(k, j) = Pass(k0, j) /\ Fail(k, j) = Fail(k0, j)
      BY <3>1, Zenon DEF Pass, Fail, TheWire!TallyOf
    <3> QED BY <3>1, <3>2, <3>3, <3>4, Zenon DEF Within
  <2> HIDE DEF k
  <2> QED BY <2>1, <2>4, <2>5, ToldWithin, SummaryNoMore
<1> QED BY <1>2, <1>3, <1>4, CutParts DEF SaysLittle

LEMMA CutKind ==
  ASSUME NEW run, TheWire!IsRun(run), NEW h \in 0..2, NEW a \in 0..(Len(Listing(run)) - 1),
         NEW b \in 0..Len(run.skipped_files), NEW c \in 0..Len(run.stopped),
         NEW d \in 0..Len(run.failures), NEW w, NEW p, p = TheWire!Pieces(w, "tab"),
         NEW k, k = Listing(run)[a + 1], NEW l, l = TheWire!KindLine(k, run.kinds.seen[k]),
         CutOff(p, l.word, l.fields)
  PROVE  TheWire!NoMore(TheWire!ReadLine(Told(run, h, a, b, c, d), w), run)
<1> DEFINE f == l.fields
           seen == run.kinds.seen
           E == [passed : Nat, failed : Nat]
           t == seen[k]
           n1 == t.passed
           n2 == t.failed
           kinds == run.kinds
<1>1. k \in DOMAIN seen /\ k \in Seq(Chars) /\ t \in E
  <2>1. k \in DOMAIN seen /\ seen \in [DOMAIN seen -> E] /\ \A j \in DOMAIN seen : j \in Seq(Chars)
    BY RunShape, KindListed
  <2> HIDE DEF seen, E
  <2> QED BY <2>1
<1>2. KindsShape(kinds)
  BY RunKinds
<1>3. l = TheWire!KindLine(k, t)
  OBVIOUS
<1> HIDE DEF seen, t
<1>4. n1 \in Nat /\ n2 \in Nat
  BY <1>1
<1>5. l.word = "kind" /\ Len(f) = 3 /\ Len(f) \in Nat /\ f[1] = TheWire!Escaped(k)
      /\ f[2] = TheWire!NumberText(n1) /\ f[3] = TheWire!NumberText(n2)
  <2> DEFINE g == TheWire!KindLine(k, t)
  <2>1. g.word = "kind" /\ Len(g.fields) = 3 /\ g.fields[1] = TheWire!Escaped(k)
        /\ g.fields[2] = TheWire!NumberText(n1) /\ g.fields[3] = TheWire!NumberText(n2)
    BY <1>1, KindFields, Zenon
  <2>2. l = g
    BY <1>3
  <2> HIDE DEF g
  <2> QED BY <2>1, <2>2
<1>6. a \in 0..Len(Listing(run))
  <2> DEFINE list == Listing(run)
             S == DOMAIN run.kinds.seen
  <2>1. list \in Seq(S) /\ a \in 0..(Len(list) - 1)
    BY RunShape
  <2> HIDE DEF list, S
  <2>2. a \in 0..Len(list)
    BY <2>1
  <2> QED BY <2>2 DEF list
<1> HIDE DEF f, n1, n2, kinds, E
<1>7. CutOff(p, "kind", f)
  BY <1>5, Zenon DEF f
<1>8. CASE SaysLittle(p)
  <2>1. TheWire!ReadLine(Told(run, h, a, b, c, d), w) = Told(run, h, a, b, c, d)
    BY <1>8, ReadCases
  <2> QED BY <1>6, <2>1, ToldNoMore
<1>9. CASE p[1] = <<"kind">> /\ Len(p) = 4
  <2> DEFINE m1 == NumberAt(p, 2)
             m2 == NumberAt(p, 3)
             K == TheWire!Charged(ToldKinds(run, h, a), k, m1, m2)
  <2>1. TheWire!Unescaped(p[2]) = k
    <3>1. Len(p) > 2
      <4>1. Len(p) = 4
        BY <1>9, Zenon
      <4>2. 4 > 2
        OBVIOUS
      <4> QED BY <4>1, <4>2, Zenon
    <3>2. p[2] = f[1]
      BY <1>5, <1>7, <3>1, FirstField
    <3> QED BY <1>1, <1>5, <3>2, WordsAreRead
  <2>2. TheWire!ReadLine(Told(run, h, a, b, c, d), w)
          = Summary(OfHeader(h, run.files), OfHeader(h, run.passed), OfHeader(h, run.failed),
                    ToldSkips(run, h), K,
                    SubSeq(run.skipped_files, 1, b), SubSeq(run.stopped, 1, c), SubSeq(run.failures, 1, d))
    BY <1>9, <2>1, ReadsKind DEF Told
  <2>3. m1 \in 0..n1 /\ m2 \in 0..n2
    <3>1. 2 \in 1..Len(f) /\ 3 \in 1..Len(f)
      BY <1>5
    <3>2. m1 \in 0..n1
      BY <1>4, <1>5, <1>7, <3>1, CutNumbers
    <3>3. m2 \in 0..n2
      BY <1>4, <1>5, <1>7, <3>1, CutNumbers
    <3> QED BY <3>2, <3>3
  <2>4. m1 \in Nat /\ m2 \in Nat /\ m1 <= n1 /\ m2 <= n2
    BY <1>4, <2>3
  <2> HIDE DEF m1, m2
  <2>5. K = [seen |-> SeenMore(run, a, k, m1, m2), unclassified |-> ToldRest(run, h)]
    BY <2>4, KindPut
  <2> HIDE DEF K
  <2>6. Within(K, kinds)
    <3> DEFINE k0 == ToldKinds(run, h, a)
               D == DOMAIN ToldSeen(run, a)
    <3>1. Within(k0, kinds)
      BY <1>6, ToldWithin DEF kinds
    <3>2. k0.unclassified = K.unclassified /\ DOMAIN k0.seen = D
      BY <2>5 DEF ToldKinds
    <3>3. K.seen = [j \in D \cup {k} |-> IF j = k THEN [passed |-> m1, failed |-> m2] ELSE seen[j]]
      BY <2>5 DEF SeenMore, seen
    <3> HIDE DEF D, k0
    <3>4. ASSUME NEW j \in DOMAIN K.seen
          PROVE  j \in DOMAIN kinds.seen /\ Pass(K, j) <= Pass(kinds, j) /\ Fail(K, j) <= Fail(kinds, j)
      <4>1. CASE j = k
        <5>1. TheWire!TallyOf(K, j) = [passed |-> m1, failed |-> m2]
          BY <3>3, <4>1 DEF TheWire!TallyOf
        <5>2. k \in DOMAIN kinds.seen /\ TheWire!TallyOf(kinds, k) = t
          BY <1>1, Zenon DEF TheWire!TallyOf, seen, t, kinds
        <5>3. Pass(K, j) = m1 /\ Fail(K, j) = m2
          BY <5>1 DEF Pass, Fail
        <5>4. Pass(kinds, j) = n1 /\ Fail(kinds, j) = n2
          BY <4>1, <5>2, Zenon DEF Pass, Fail, n1, n2
        <5> QED BY <2>4, <4>1, <5>2, <5>3, <5>4
      <4>2. CASE j # k
        <5>1. j \in D /\ K.seen[j] = seen[j]
          BY <3>3, <4>2
        <5>2. j \in DOMAIN kinds.seen
          BY <3>1, <3>2, <5>1 DEF Within
        <5>3. TheWire!TallyOf(K, j) = TheWire!TallyOf(kinds, j)
          BY <5>1, <5>2, Zenon DEF TheWire!TallyOf, seen, kinds
        <5>4. Pass(K, j) = Pass(kinds, j) /\ Fail(K, j) = Fail(kinds, j)
          BY <5>3, Zenon DEF Pass, Fail
        <5>5. Pass(kinds, j) \in Nat /\ Fail(kinds, j) \in Nat
          BY <1>2, TalliesAreNumbers
        <5> QED BY <5>2, <5>4, <5>5
      <4> QED BY <4>1, <4>2
    <3>5. K.unclassified <= kinds.unclassified
      BY <3>1, <3>2 DEF Within
    <3> QED BY <3>4, <3>5 DEF Within
  <2>7. /\ TheWire!Begins(SubSeq(run.skipped_files, 1, b), run.skipped_files)
        /\ TheWire!Begins(SubSeq(run.stopped, 1, c), run.stopped)
        /\ TheWire!Begins(SubSeq(run.failures, 1, d), run.failures)
    BY RunShape, Beginnings
  <2> QED BY <1>6, <2>2, <2>6, <2>7, ToldWithin, SummaryNoMore DEF kinds
<1> QED BY <1>5, <1>7, <1>8, <1>9, CutParts DEF SaysLittle

\* A file that was skipped or stopped, or a failure: another is on the list, or it is not.
LEMMA CutSkip ==
  ASSUME NEW run, TheWire!IsRun(run), NEW h \in 0..2, NEW a \in 0..Len(Listing(run)),
         NEW b \in 0..(Len(run.skipped_files) - 1), NEW c \in 0..Len(run.stopped),
         NEW d \in 0..Len(run.failures), NEW w, NEW p, p = TheWire!Pieces(w, "tab"),
         NEW f, Len(f) \in Nat, CutOff(p, "skipfile", f)
  PROVE  TheWire!NoMore(TheWire!ReadLine(Told(run, h, a, b, c, d), w), run)
<1>1. b \in 0..Len(run.skipped_files)
  <2> DEFINE list == run.skipped_files
             E == Seq(Chars) \X Seq(Chars)
  <2>1. list \in Seq(E) /\ b \in 0..(Len(list) - 1)
    BY RunShape
  <2> HIDE DEF list, E
  <2>2. b \in 0..Len(list)
    BY <2>1
  <2> QED BY <2>2 DEF list
<1>2. CASE SaysLittle(p)
  <2>1. TheWire!ReadLine(Told(run, h, a, b, c, d), w) = Told(run, h, a, b, c, d)
    BY <1>2, ReadCases
  <2> QED BY <1>1, <2>1, ToldNoMore
<1>3. CASE p[1] = <<"skipfile">> /\ Len(p) = 3
  <2> DEFINE v == <<TheWire!Unescaped(p[2]), TheWire!Unescaped(p[3])>>
             more == Append(SubSeq(run.skipped_files, 1, b), v)
  <2>1. TheWire!ReadLine(Told(run, h, a, b, c, d), w)
          = Summary(OfHeader(h, run.files), OfHeader(h, run.passed), OfHeader(h, run.failed),
                    ToldSkips(run, h), ToldKinds(run, h, a), more,
                    SubSeq(run.stopped, 1, c), SubSeq(run.failures, 1, d))
    BY <1>3, ReadsSkip DEF Told
  <2> HIDE DEF v
  <2>2. TheWire!Begins(more, run.skipped_files)
    BY RunShape, BeginningsAndMore
  <2>3. /\ TheWire!Begins(SubSeq(run.stopped, 1, c), run.stopped)
        /\ TheWire!Begins(SubSeq(run.failures, 1, d), run.failures)
    BY RunShape, Beginnings
  <2> HIDE DEF more
  <2> QED BY <2>1, <2>2, <2>3, ToldWithin, SummaryNoMore
<1> QED BY <1>2, <1>3, CutParts DEF SaysLittle

LEMMA CutStop ==
  ASSUME NEW run, TheWire!IsRun(run), NEW h \in 0..2, NEW a \in 0..Len(Listing(run)),
         NEW b \in 0..Len(run.skipped_files), NEW c \in 0..(Len(run.stopped) - 1),
         NEW d \in 0..Len(run.failures), NEW w, NEW p, p = TheWire!Pieces(w, "tab"),
         NEW f, Len(f) \in Nat, CutOff(p, "stopfile", f)
  PROVE  TheWire!NoMore(TheWire!ReadLine(Told(run, h, a, b, c, d), w), run)
<1>1. c \in 0..Len(run.stopped)
  <2> DEFINE list == run.stopped
  <2>1. list \in Seq(TheWire!Stops) /\ c \in 0..(Len(list) - 1)
    BY RunShape
  <2> HIDE DEF list
  <2>2. c \in 0..Len(list)
    BY <2>1
  <2> QED BY <2>2 DEF list
<1>2. CASE SaysLittle(p)
  <2>1. TheWire!ReadLine(Told(run, h, a, b, c, d), w) = Told(run, h, a, b, c, d)
    BY <1>2, ReadCases
  <2> QED BY <1>1, <2>1, ToldNoMore
<1>3. CASE p[1] = <<"stopfile">> /\ Len(p) = 4
  <2> DEFINE more == Append(SubSeq(run.stopped, 1, c), Stop(p))
  <2>1. TheWire!ReadLine(Told(run, h, a, b, c, d), w)
          = Summary(OfHeader(h, run.files), OfHeader(h, run.passed), OfHeader(h, run.failed),
                    ToldSkips(run, h), ToldKinds(run, h, a), SubSeq(run.skipped_files, 1, b),
                    more, SubSeq(run.failures, 1, d))
    BY <1>3, ReadsStop DEF Told
  <2>2. TheWire!Begins(more, run.stopped)
    BY RunShape, BeginningsAndMore
  <2>3. /\ TheWire!Begins(SubSeq(run.skipped_files, 1, b), run.skipped_files)
        /\ TheWire!Begins(SubSeq(run.failures, 1, d), run.failures)
    BY RunShape, Beginnings
  <2> HIDE DEF more
  <2> QED BY <2>1, <2>2, <2>3, ToldWithin, SummaryNoMore
<1> QED BY <1>2, <1>3, CutParts DEF SaysLittle

LEMMA CutFailure ==
  ASSUME NEW run, TheWire!IsRun(run), NEW h \in 0..2, NEW a \in 0..Len(Listing(run)),
         NEW b \in 0..Len(run.skipped_files), NEW c \in 0..Len(run.stopped),
         NEW d \in 0..(Len(run.failures) - 1), NEW w, NEW p, p = TheWire!Pieces(w, "tab"),
         NEW f, Len(f) \in Nat, CutOff(p, "failure", f)
  PROVE  TheWire!NoMore(TheWire!ReadLine(Told(run, h, a, b, c, d), w), run)
<1>1. d \in 0..Len(run.failures)
  <2> DEFINE list == run.failures
  <2>1. list \in Seq(TheWire!Failures) /\ d \in 0..(Len(list) - 1)
    BY RunShape
  <2> HIDE DEF list
  <2>2. d \in 0..Len(list)
    BY <2>1
  <2> QED BY <2>2 DEF list
<1>2. CASE SaysLittle(p)
  <2>1. TheWire!ReadLine(Told(run, h, a, b, c, d), w) = Told(run, h, a, b, c, d)
    BY <1>2, ReadCases
  <2> QED BY <1>1, <2>1, ToldNoMore
<1>3. CASE p[1] = <<"failure">> /\ Len(p) = 6
  <2> DEFINE more == Append(SubSeq(run.failures, 1, d), Failure(p))
  <2>1. TheWire!ReadLine(Told(run, h, a, b, c, d), w)
          = Summary(OfHeader(h, run.files), OfHeader(h, run.passed), OfHeader(h, run.failed),
                    ToldSkips(run, h), ToldKinds(run, h, a), SubSeq(run.skipped_files, 1, b),
                    SubSeq(run.stopped, 1, c), more)
    BY <1>3, ReadsFailure DEF Told
  <2>2. TheWire!Begins(more, run.failures)
    BY RunShape, BeginningsAndMore
  <2>3. /\ TheWire!Begins(SubSeq(run.skipped_files, 1, b), run.skipped_files)
        /\ TheWire!Begins(SubSeq(run.stopped, 1, c), run.stopped)
    BY RunShape, Beginnings
  <2> HIDE DEF more
  <2> QED BY <2>1, <2>2, <2>3, ToldWithin, SummaryNoMore
<1> QED BY <1>2, <1>3, CutParts DEF SaysLittle

-----------------------------------------------------------------------------
(***************************************************************************)
(* The text of a list of lines: whole, cut anywhere, with noise between.   *)
(***************************************************************************)
LineSet == [word : Plain, fields : Seq(Seq(Plain))]
TextOf(L) == TheWire!Concat([i \in DOMAIN L |-> TheWire!Content(L[i]) \o <<"newline">>])

LEMMA LineContent ==
  ASSUME NEW l \in LineSet
  PROVE  /\ IsLine(l)
         /\ TheWire!Content(l) \in Seq(Chars \ {"newline"})
         /\ TheWire!Content(l) \o <<"newline">> \in Seq(Chars)
<1>1. IsLine(l)
  BY DEF LineSet, IsLine
<1>2. TheWire!Content(l) \in Seq(Chars \ {"newline"})
  BY <1>1, WholeParts
<1>3. TheWire!Content(l) \in Seq(Chars) /\ <<"newline">> \in Seq(Chars)
  <2>1. Chars \ {"newline"} \subseteq Chars /\ "newline" \in Chars
    BY PlainIsChars
  <2> QED BY <1>2, <2>1, MoreLists
<1> QED BY <1>1, <1>2, <1>3

LEMMA TextSteps ==
  ASSUME NEW L \in Seq(LineSet), NEW l \in LineSet
  PROVE  /\ TextOf(<<>>) = <<>>
         /\ TextOf(L) \in Seq(Chars)
         /\ TextOf(Append(L, l)) = TextOf(L) \o (TheWire!Content(l) \o <<"newline">>)
<1> DEFINE Lined(M) == [i \in DOMAIN M |-> TheWire!Content(M[i]) \o <<"newline">>]
           E == Seq(Chars)
           A == Append(L, l)
           c == TheWire!Content(l) \o <<"newline">>
<1>1. c \in E
  BY LineContent
<1>2. Lined(L) \in Seq(E)
  <2>1. \A i \in DOMAIN L : L[i] \in LineSet
    OBVIOUS
  <2>2. \A i \in DOMAIN L : TheWire!Content(L[i]) \o <<"newline">> \in E
    BY <2>1, LineContent
  <2> DEFINE S == Lined(L)
             n == Len(L)
  <2>3. n \in Nat /\ DOMAIN L = 1..n
    OBVIOUS
  <2>4. S = [i \in 1..n |-> S[i]] /\ \A i \in 1..n : S[i] \in E
    BY <2>2, <2>3
  <2> HIDE DEF E, S, n
  <2>5. S \in Seq(E)
    BY <2>3, <2>4
  <2> QED BY <2>5 DEF S
<1>3. Lined(A) = Append(Lined(L), c)
  <2>1. A = [i \in 1..(Len(L) + 1) |-> IF i = Len(L) + 1 THEN l ELSE L[i]]
    BY AppendIs
  <2>2. DOMAIN Lined(L) = 1..Len(L) /\ Len(Lined(L)) = Len(L)
    BY <1>2
  <2>3. Append(Lined(L), c)
          = [i \in 1..(Len(L) + 1) |-> IF i = Len(L) + 1 THEN c ELSE Lined(L)[i]]
    <3> DEFINE S == Lined(L)
    <3> HIDE DEF S, E, c
    <3>1. Append(S, c) = [i \in 1..(Len(S) + 1) |-> IF i = Len(S) + 1 THEN c ELSE S[i]]
      BY <1>1, <1>2, AppendIs DEF S
    <3> QED BY <2>2, <3>1 DEF S
  <2> HIDE DEF A
  <2>4. DOMAIN A = 1..(Len(L) + 1)
    BY <2>1
  <2>5. ASSUME NEW i \in 1..(Len(L) + 1)
        PROVE  TheWire!Content(A[i]) \o <<"newline">> = (IF i = Len(L) + 1 THEN c ELSE Lined(L)[i])
    <3>1. CASE i = Len(L) + 1
      BY <2>1, <3>1
    <3>2. CASE i # Len(L) + 1
      <4>1. i \in 1..Len(L) /\ A[i] = L[i]
        BY <2>1, <3>2
      <4>2. Lined(L)[i] = TheWire!Content(L[i]) \o <<"newline">>
        BY <4>1
      <4> QED BY <3>2, <4>1, <4>2
    <3> QED BY <3>1, <3>2
  <2> QED BY <2>3, <2>4, <2>5
<1>4. TextOf(L) = TheWire!Concat(Lined(L)) /\ TextOf(A) = TheWire!Concat(Lined(A))
  BY DEF TextOf
<1>5. TextOf(<<>>) = <<>>
  <2>1. Lined(<<>>) = <<>>
    OBVIOUS
  <2>2. <<>> \in Seq(E)
    OBVIOUS
  <2> QED BY <2>1, <2>2, ConcatSteps DEF TextOf
<1> HIDE DEF Lined, c, A
<1>6. TheWire!Concat(Lined(A)) = TheWire!Concat(Lined(L)) \o c
  <2> HIDE DEF E
  <2> QED BY <1>1, <1>2, <1>3, ConcatSteps
<1>7. TheWire!Concat(Lined(L)) \in Seq(Chars)
  BY <1>2, ConcatIsAList
<1> QED BY <1>4, <1>5, <1>6, <1>7 DEF A, c

LEMMA PutLast ==
  ASSUME NEW E, NEW T \in Seq(E), NEW u \in Seq(E)
  PROVE  SubSeq(T, 1, Len(T)) \o u \o SubSeq(T, Len(T) + 1, Len(T)) = T \o u
<1>1. SubSeq(T, 1, Len(T)) = T
  BY Prefixes
<1>2. SubSeq(T, Len(T) + 1, Len(T)) = <<>>
  OBVIOUS
<1>3. T \o u \in Seq(E) /\ (T \o u) \o <<>> = T \o u
  OBVIOUS
<1> QED BY <1>1, <1>2, <1>3

LEMMA CutTail ==
  ASSUME NEW E, NEW T \in Seq(E), NEW b \in Seq(E), NEW i \in 1..Len(T)
  PROVE  SubSeq(T \o b, i + 1, Len(T \o b)) = SubSeq(T, i + 1, Len(T)) \o b
<1> DEFINE s == SubSeq(T \o b, i + 1, Len(T \o b))
           t == SubSeq(T, i + 1, Len(T))
<1>1. T \o b \in Seq(E) /\ Len(T \o b) = Len(T) + Len(b)
      /\ (\A j \in 1..Len(T) : (T \o b)[j] = T[j]) /\ \A j \in 1..Len(b) : (T \o b)[Len(T) + j] = b[j]
  BY Joined
<1>2. t \in Seq(E) /\ Len(t) = Len(T) - i /\ \A j \in 1..(Len(T) - i) : t[j] = T[i + j]
  OBVIOUS
<1>3. s \in Seq(E) /\ Len(s) = Len(T) + Len(b) - i
      /\ \A j \in 1..(Len(T) + Len(b) - i) : s[j] = (T \o b)[i + j]
  <2> DEFINE X == T \o b
  <2> HIDE DEF X
  <2>1. X \in Seq(E) /\ i \in 1..Len(X)
    BY <1>1 DEF X
  <2>2. SubSeq(X, i + 1, Len(X)) \in Seq(E) /\ Len(SubSeq(X, i + 1, Len(X))) = Len(X) - i
        /\ \A j \in 1..(Len(X) - i) : SubSeq(X, i + 1, Len(X))[j] = X[i + j]
    BY <2>1
  <2> QED BY <1>1, <2>2 DEF X
<1> HIDE DEF s, t
<1>4. t \o b \in Seq(E) /\ Len(t \o b) = Len(t) + Len(b)
      /\ (\A j \in 1..Len(t) : (t \o b)[j] = t[j]) /\ \A j \in 1..Len(b) : (t \o b)[Len(t) + j] = b[j]
  <2>1. t \in Seq(E)
    BY <1>2
  <2> QED BY <2>1, Joined
<1>5. ASSUME NEW j \in 1..Len(s) PROVE s[j] = (t \o b)[j]
  <2>1. CASE j <= Len(T) - i
    <3>1. j \in 1..(Len(T) - i) /\ j \in 1..Len(t) /\ i + j \in 1..Len(T)
          /\ j \in 1..(Len(T) + Len(b) - i)
      BY <1>2, <1>3, <2>1
    <3> QED BY <1>1, <1>2, <1>3, <1>4, <3>1
  <2>2. CASE j > Len(T) - i
    <3> DEFINE k == j - (Len(T) - i)
    <3>1. k \in 1..Len(b) /\ i + j = Len(T) + k /\ j = Len(t) + k /\ j \in 1..(Len(T) + Len(b) - i)
      BY <1>2, <1>3, <2>2
    <3> HIDE DEF k
    <3>2. s[j] = (T \o b)[Len(T) + k]
      BY <1>3, <3>1
    <3>3. (T \o b)[Len(T) + k] = b[k]
      BY <1>1, <3>1
    <3>4. (t \o b)[j] = b[k]
      BY <1>4, <3>1
    <3> QED BY <3>2, <3>3, <3>4
  <2>3. j \in Nat /\ i \in Nat /\ Len(T) \in Nat
    BY <1>3
  <2>4. j <= Len(T) - i \/ j > Len(T) - i
    BY <2>3
  <2> QED BY <2>1, <2>2, <2>4
<1>6. Len(s) = Len(t \o b) /\ t \o b \in Seq(E) /\ s \in Seq(E)
  BY <1>2, <1>3, <1>4
<1> DEFINE v == t \o b
<1> HIDE DEF v
<1>7. s = v
  <2>1. s \in Seq(E) /\ v \in Seq(E) /\ Len(s) = Len(v) /\ \A j \in 1..Len(s) : s[j] = v[j]
    BY <1>5, <1>6 DEF v
  <2> QED BY <2>1
<1> QED BY <1>7 DEF s, t, v

LEMMA PutBefore ==
  ASSUME NEW T \in Seq(Chars), NEW b \in Seq(Chars), NEW u \in Seq(Chars), NEW i \in 1..Len(T)
  PROVE  SubSeq(T \o b, 1, i) \o u \o SubSeq(T \o b, i + 1, Len(T \o b))
           = (SubSeq(T, 1, i) \o u \o SubSeq(T, i + 1, Len(T))) \o b
<1> DEFINE x == SubSeq(T, 1, i)
           t == SubSeq(T, i + 1, Len(T))
           A == SubSeq(T \o b, 1, i)
           B == SubSeq(T \o b, i + 1, Len(T \o b))
<1>1. x \in Seq(Chars) /\ t \in Seq(Chars)
  OBVIOUS
<1>2. A = x
  <2>1. i \in 0..Len(T \o b) /\ i <= Len(T)
    BY Joined
  <2> QED BY <2>1, CutJoin
<1>3. B = t \o b
  BY CutTail
<1> HIDE DEF x, t, A, B
<1>4. x \o u \in Seq(Chars)
  BY <1>1
<1> DEFINE y == x \o u
<1>5. y \o (t \o b) = (y \o t) \o b
  <2> HIDE DEF y
  <2>1. y \in Seq(Chars)
    BY <1>4 DEF y
  <2>2. t \in Seq(Chars) /\ b \in Seq(Chars)
    BY <1>1
  <2> QED BY <2>1, <2>2, SMTT(30)
<1>6. (A \o u) \o B = (y \o t) \o b
  BY <1>2, <1>3, <1>5
<1> QED BY <1>6 DEF x, t, y, A, B

-----------------------------------------------------------------------------
\* However much of the line there is, no more is said than the run says.
CutSafe(x, l, run) ==
  \A w : CutOff(TheWire!Pieces(w, "tab"), l.word, l.fields) => TheWire!NoMore(TheWire!ReadLine(x, w), run)

\* A line at a time the list leads from one summary to the other.
Steps(X, L, run) ==
  \A i \in 1..Len(L) : /\ TheWire!ReadLine(X[i - 1], TheWire!Content(L[i])) = X[i]
                       /\ CutSafe(X[i - 1], L[i], run)
Leads(L, x, y, run) == \E X : X[0] = x /\ X[Len(L)] = y /\ Steps(X, L, run)

LEMMA LeadsNowhere ==
  ASSUME NEW x, NEW y, NEW run, Leads(<<>>, x, y, run)
  PROVE  x = y
BY DEF Leads

LEMMA LeadsLess ==
  ASSUME NEW L \in Seq(LineSet), NEW l \in LineSet, NEW x, NEW y, NEW run,
         Leads(Append(L, l), x, y, run)
  PROVE  \E z : Leads(L, x, z, run) /\ TheWire!ReadLine(z, TheWire!Content(l)) = y /\ CutSafe(z, l, run)
<1> DEFINE A == Append(L, l)
           n == Len(L)
<1>1. Len(A) = n + 1 /\ n \in Nat /\ A[n + 1] = l /\ \A i \in 1..n : A[i] = L[i]
  <2>1. A = [i \in 1..(Len(L) + 1) |-> IF i = Len(L) + 1 THEN l ELSE L[i]] /\ Len(A) = n + 1 /\ n \in Nat
    BY AppendIs
  <2> HIDE DEF A
  <2> QED BY <2>1
<1> HIDE DEF A
<1>2. PICK X : X[0] = x /\ X[Len(A)] = y /\ Steps(X, A, run)
  BY DEF Leads, A
<1>3. ASSUME NEW i \in 1..n
      PROVE  TheWire!ReadLine(X[i - 1], TheWire!Content(L[i])) = X[i] /\ CutSafe(X[i - 1], L[i], run)
  <2>1. i \in 1..Len(A) /\ A[i] = L[i]
    BY <1>1
  <2> QED BY <1>2, <2>1 DEF Steps
<1>4. Leads(L, x, X[n], run)
  BY <1>2, <1>3, Zenon DEF Leads, Steps, n
<1>5. TheWire!ReadLine(X[n], TheWire!Content(l)) = y /\ CutSafe(X[n], l, run)
  <2>1. n + 1 \in 1..Len(A) /\ (n + 1) - 1 = n
    BY <1>1
  <2> QED BY <1>1, <1>2, <2>1 DEF Steps
<1> QED BY <1>4, <1>5

LEMMA LeadsOn ==
  ASSUME NEW L \in Seq(LineSet), NEW M \in Seq(LineSet), NEW x, NEW y, NEW z, NEW run,
         Leads(L, x, y, run), Leads(M, y, z, run)
  PROVE  Leads(L \o M, x, z, run)
<1> DEFINE A == L \o M
           n == Len(L)
           m == Len(M)
<1>1. n \in Nat /\ m \in Nat /\ Len(A) = n + m /\ (\A i \in 1..n : A[i] = L[i])
      /\ \A i \in 1..m : A[n + i] = M[i]
  BY Joined
<1>2. PICK X : X[0] = x /\ X[n] = y /\ Steps(X, L, run)
  BY DEF Leads
<1>3. PICK Y : Y[0] = y /\ Y[m] = z /\ Steps(Y, M, run)
  BY DEF Leads
<1> DEFINE Z == [i \in 0..(n + m) |-> IF i <= n THEN X[i] ELSE Y[i - n]]
<1>4. \A i \in 0..n : Z[i] = X[i]
  BY <1>1
<1>5. \A i \in 0..m : Z[n + i] = Y[i]
  <2> TAKE i \in 0..m
  <2>1. n + i \in 0..(n + m) /\ (n + i) - n = i
    BY <1>1
  <2>2. CASE i = 0
    <3>1. n + i = n /\ n \in 0..n
      BY <1>1, <2>2
    <3> QED BY <1>2, <1>3, <1>4, <2>2, <3>1
  <2>3. CASE i # 0
    <3>1. ~(n + i <= n)
      BY <1>1, <2>3
    <3> QED BY <2>1, <3>1
  <2> QED BY <2>2, <2>3
<1> HIDE DEF A, Z, n, m
<1>6. ASSUME NEW i \in 1..Len(A)
      PROVE  TheWire!ReadLine(Z[i - 1], TheWire!Content(A[i])) = Z[i] /\ CutSafe(Z[i - 1], A[i], run)
  <2>1. CASE i <= n
    <3>1. i \in 1..n /\ i \in 0..n /\ i - 1 \in 0..n
      BY <1>1, <2>1
    <3>2. A[i] = L[i] /\ Z[i] = X[i] /\ Z[i - 1] = X[i - 1]
      BY <1>1, <1>4, <3>1
    <3> QED BY <1>2, <3>1, <3>2 DEF Steps, n
  <2>2. CASE i > n
    <3> DEFINE j == i - n
    <3>1. j \in 1..m /\ j \in 0..m /\ j - 1 \in 0..m /\ n + j = i /\ n + (j - 1) = i - 1
      BY <1>1, <2>2
    <3> HIDE DEF j
    <3>2. A[i] = M[j]
      BY <1>1, <3>1
    <3>3. Z[i] = Y[j]
      BY <1>5, <3>1
    <3>4. Z[i - 1] = Y[j - 1]
      BY <1>5, <3>1
    <3> QED BY <1>3, <3>1, <3>2, <3>3, <3>4 DEF Steps, m
  <2>3. i <= n \/ i > n
    BY <1>1
  <2> QED BY <2>1, <2>2, <2>3
<1>7. Z[0] = x /\ Z[Len(A)] = z
  <2>1. 0 \in 0..n /\ m \in 0..m
    BY <1>1
  <2> QED BY <1>1, <1>2, <1>3, <1>4, <1>5, <2>1
<1> QED BY <1>6, <1>7 DEF Leads, Steps, A

\* The first of a list, and of a longer one.
Starts(L) == L # <<>> /\ Counts(TheWire!Content(L[1]))

Noisy(T, i) == SubSeq(T, 1, i) \o <<"thread", "tab", "newline">> \o SubSeq(T, i + 1, Len(T))

\* What can be read of the text of a list that leads to y.
Readable(L, y, run) ==
  /\ Says(TextOf(L), y, Starts(L))
  /\ \A n \in 0..(Len(TextOf(L)) - 1) : TheWire!NoMore(TheWire!ReadLines(SubSeq(TextOf(L), 1, n)), run)
  /\ \A i \in 1..Len(TextOf(L)) : TextOf(L)[i] = "newline" => Says(Noisy(TextOf(L), i), y, Starts(L))

LEMMA NoText == TextOf(<<>>) = <<>>
<1>1. [i \in DOMAIN <<>> |-> TheWire!Content(<<>>[i]) \o <<"newline">>] = <<>>
  OBVIOUS
<1>2. <<>> \in Seq({})
  OBVIOUS
<1> QED BY <1>1, <1>2, ConcatSteps DEF TextOf

LEMMA SaysLess ==
  ASSUME NEW s, NEW x, NEW c, Says(s, x, c), NEW d, d => c
  PROVE  Says(s, x, d)
<1>1. PICK L \in Seq(Seq(Chars)) : /\ TheWire!Pieces(s, "newline") = Append(L, <<>>)
                                   /\ TheWire!ReadEach(L) = x
                                   /\ c => \E i \in DOMAIN L : Counts(L[i])
  BY DEF Says
<1>2. s \in Seq(Chars) /\ (d => \E i \in DOMAIN L : Counts(L[i]))
  BY <1>1, Zenon DEF Says
<1> QED BY <1>1, <1>2, Zenon DEF Says

LEMMA NextLineSays ==
  ASSUME NEW s, NEW x, NEW c, Says(s, x, c), NEW w \in Seq(Chars \ {"newline"}),
         NEW d, d => c \/ Counts(w)
  PROVE  Says(s \o (w \o <<"newline">>), TheWire!ReadLine(x, w), d)
<1>1. CASE Counts(w)
  <2>1. Says(s \o (w \o <<"newline">>), TheWire!ReadLine(x, w), TRUE)
    BY <1>1, OneLineMore
  <2> QED BY <2>1, SaysLess, Zenon
<1>2. CASE ~Counts(w)
  <2>1. Says(s \o (w \o <<"newline">>), TheWire!ReadLine(x, w), c) /\ (d => c)
    BY <1>2, OneLineMore, Zenon
  <2> QED BY <2>1, SaysLess, Zenon
<1> QED BY <1>1, <1>2

LEMMA NothingIsReadable ==
  ASSUME NEW run
  PROVE  Readable(<<>>, TheWire!Nobody, run)
<1>1. ~Starts(<<>>)
  BY DEF Starts
<1>2. Says(TextOf(<<>>), TheWire!Nobody, Starts(<<>>))
  BY <1>1, NoText, NothingSays, SaysLess, Zenon
<1>3. Len(<<>>) = 0 /\ 0..(0 - 1) = {} /\ 1..0 = {}
  OBVIOUS
<1> QED BY <1>2, <1>3, NoText, Zenon DEF Readable

LEMMA NoisyEnd ==
  ASSUME NEW T, NEW y, NEW c, Says(T, y, c)
  PROVE  Says(Noisy(T, Len(T)), y, c)
<1> DEFINE u == <<"thread", "tab", "newline">>
           v == <<"thread", "tab">>
<1>1. T \in Seq(Chars)
  BY DEF Says
<1>2. u \in Seq(Chars) /\ v \in Seq(Chars \ {"newline"}) /\ u = v \o <<"newline">>
  <2>1. "thread" \in Chars \ {"newline"} /\ "tab" \in Chars \ {"newline"} /\ "newline" \in Chars
    BY PlainIsChars DEF Plain
  <2> QED BY <2>1
<1>3. Noisy(T, Len(T)) = T \o u
  BY <1>1, <1>2, PutLast DEF Noisy
<1> HIDE DEF u, v
<1>4. Says(T \o (v \o <<"newline">>), TheWire!ReadLine(y, v), c)
  BY <1>2, OneLineMore
<1>5. TheWire!ReadLine(y, v) = y
  BY NoiseSaysNothing DEF v
<1> QED BY <1>2, <1>3, <1>4, <1>5

LEMMA NoisyBefore ==
  ASSUME NEW T, NEW z, NEW c, NEW i \in 1..Len(T), T \in Seq(Chars), Says(Noisy(T, i), z, c),
         NEW w \in Seq(Chars \ {"newline"}), NEW d, d => c \/ Counts(w)
  PROVE  Says(Noisy(T \o (w \o <<"newline">>), i), TheWire!ReadLine(z, w), d)
<1> DEFINE u == <<"thread", "tab", "newline">>
           b == w \o <<"newline">>
<1>1. u \in Seq(Chars)
  <2>1. "thread" \in Chars /\ "tab" \in Chars /\ "newline" \in Chars
    BY PlainIsChars DEF Plain
  <2> QED BY <2>1
<1>2. b \in Seq(Chars)
  <2>1. Chars \ {"newline"} \subseteq Chars /\ "newline" \in Chars
    BY PlainIsChars
  <2>2. w \in Seq(Chars) /\ <<"newline">> \in Seq(Chars)
    BY <2>1, MoreLists
  <2> QED BY <2>2
<1>3. Noisy(T \o b, i) = Noisy(T, i) \o b
  <2> HIDE DEF u, b
  <2>1. T \in Seq(Chars) /\ b \in Seq(Chars) /\ u \in Seq(Chars) /\ i \in 1..Len(T)
    BY <1>1, <1>2
  <2>2. SubSeq(T \o b, 1, i) \o u \o SubSeq(T \o b, i + 1, Len(T \o b))
          = (SubSeq(T, 1, i) \o u \o SubSeq(T, i + 1, Len(T))) \o b
    BY <2>1, PutBefore, ZenonT(60)
  <2> QED BY <2>2, Zenon DEF Noisy, u
<1>4. Says(Noisy(T, i) \o (w \o <<"newline">>), TheWire!ReadLine(z, w), d)
  BY NextLineSays
<1> QED BY <1>3, <1>4

LEMMA NewlineEnds ==
  ASSUME NEW T \in Seq(Chars), NEW w \in Seq(Chars \ {"newline"}),
         NEW i \in 1..Len(T \o (w \o <<"newline">>)), (T \o (w \o <<"newline">>))[i] = "newline"
  PROVE  (i \in 1..Len(T) /\ T[i] = "newline") \/ i = Len(T \o (w \o <<"newline">>))
<1> DEFINE b == w \o <<"newline">>
           nl == <<"newline">>
<1>1. "newline" \in Chars /\ w \in Seq(Chars) /\ nl \in Seq(Chars)
  <2>1. Chars \ {"newline"} \subseteq Chars /\ "newline" \in Chars
    BY PlainIsChars
  <2> QED BY <2>1, MoreLists
<1>2. b \in Seq(Chars) /\ Len(b) = Len(w) + 1 /\ Len(w) \in Nat /\ \A j \in 1..Len(w) : b[j] = w[j]
  <2>1. Len(nl) = 1 /\ Len(w) \in Nat
    OBVIOUS
  <2>2. w \in Seq(Chars) /\ nl \in Seq(Chars)
    BY <1>1
  <2> HIDE DEF nl
  <2>3. w \o nl \in Seq(Chars) /\ Len(w \o nl) = Len(w) + Len(nl)
        /\ \A j \in 1..Len(w) : (w \o nl)[j] = w[j]
    BY <2>2, Joined
  <2> QED BY <2>1, <2>3 DEF nl
<1>3. \A j \in 1..Len(w) : w[j] # "newline"
  OBVIOUS
<1> HIDE DEF b
<1>4. Len(T \o b) = Len(T) + Len(b) /\ (\A j \in 1..Len(T) : (T \o b)[j] = T[j])
      /\ (\A j \in 1..Len(b) : (T \o b)[Len(T) + j] = b[j]) /\ Len(T) \in Nat
  <2>1. b \in Seq(Chars) /\ Len(T) \in Nat
    BY <1>2
  <2>2. Len(T \o b) = Len(T) + Len(b) /\ (\A j \in 1..Len(T) : (T \o b)[j] = T[j])
        /\ (\A j \in 1..Len(b) : (T \o b)[Len(T) + j] = b[j])
    BY <2>1, Joined
  <2> QED BY <2>1, <2>2
<1>5. i \in 1..Len(T \o b) /\ (T \o b)[i] = "newline"
  BY DEF b
<1> DEFINE X == T \o b
<1> HIDE DEF X
<1>6. CASE i <= Len(T)
  <2>1. i \in 1..Len(T)
    BY <1>4, <1>5, <1>6 DEF X
  <2> QED BY <1>4, <1>5, <2>1
<1>7. CASE i > Len(T)
  <2> DEFINE j == i - Len(T)
  <2>1. j \in 1..Len(b) /\ Len(T) + j = i
    BY <1>4, <1>5, <1>7
  <2> HIDE DEF j
  <2>2. b[j] = "newline"
    BY <1>4, <1>5, <2>1
  <2>3. j \notin 1..Len(w)
    BY <1>2, <1>3, <2>2
  <2>4. j = Len(b)
    BY <1>2, <2>1, <2>3
  <2> QED BY <1>4, <2>1, <2>4 DEF b
<1> QED BY <1>4, <1>5, <1>6, <1>7

\* A line that was added can be cut or left whole.
LEMMA MoreIsSaid ==
  ASSUME NEW L \in Seq(LineSet), NEW l \in LineSet, NEW z, NEW run, Readable(L, z, run)
  PROVE  /\ Says(TextOf(Append(L, l)), TheWire!ReadLine(z, TheWire!Content(l)), Starts(Append(L, l)))
         /\ Starts(Append(L, l)) => Starts(L) \/ Counts(TheWire!Content(l))
<1> DEFINE W == TheWire!Content(l)
<1>1. Starts(Append(L, l)) => Starts(L) \/ Counts(W)
  <2>1. CASE L = <<>>
    <3>1. Append(L, l)[1] = l
      BY <2>1
    <3> QED BY <3>1, Zenon DEF Starts
  <2>2. CASE L # <<>>
    <3>1. Append(L, l)[1] = L[1]
      BY <2>2
    <3> QED BY <2>2, <3>1, Zenon DEF Starts
  <2> QED BY <2>1, <2>2
<1>2. Says(TextOf(L), z, Starts(L))
  BY DEF Readable
<1>3. W \in Seq(Chars \ {"newline"}) /\ TextOf(Append(L, l)) = TextOf(L) \o (W \o <<"newline">>)
  BY LineContent, TextSteps
<1> HIDE DEF W
<1>4. Says(TextOf(L) \o (W \o <<"newline">>), TheWire!ReadLine(z, W), Starts(Append(L, l)))
  BY <1>1, <1>2, <1>3, NextLineSays
<1> QED BY <1>1, <1>3, <1>4 DEF W

LEMMA MoreIsCut ==
  ASSUME NEW L \in Seq(LineSet), NEW l \in LineSet, NEW z, NEW run, Readable(L, z, run),
         CutSafe(z, l, run), NEW n \in 0..(Len(TextOf(Append(L, l))) - 1)
  PROVE  TheWire!NoMore(TheWire!ReadLines(SubSeq(TextOf(Append(L, l)), 1, n)), run)
<1> DEFINE W == TheWire!Content(l)
           T == TextOf(L)
           nl == <<"newline">>
           b == W \o nl
           A == TextOf(Append(L, l))
<1>1. W \in Seq(Chars \ {"newline"}) /\ T \in Seq(Chars) /\ b \in Seq(Chars) /\ A = T \o b /\ IsLine(l)
  BY LineContent, TextSteps
<1>2. W \in Seq(Chars) /\ nl \in Seq(Chars)
  <2>1. Chars \ {"newline"} \subseteq Chars /\ "newline" \in Chars
    BY PlainIsChars
  <2> QED BY <1>1, <2>1, MoreLists
<1>3. Len(nl) = 1 /\ Len(T) \in Nat /\ Len(W) \in Nat
  BY <1>1
<1> HIDE DEF T, nl
<1>4. Len(b) = Len(W) + 1
  <2>1. Len(W \o nl) = Len(W) + Len(nl)
    BY <1>2, Joined
  <2> QED BY <1>3, <2>1
<1> HIDE DEF b
<1>5. Len(T \o b) = Len(T) + Len(b)
  BY <1>1, Joined
<1>6. n \in 0..Len(T \o b) /\ n < Len(T) + Len(W) + 1 /\ n \in Nat
  BY <1>1, <1>3, <1>4, <1>5
<1>7. CASE n < Len(T)
  <2>1. n <= Len(T) /\ n \in 0..(Len(T) - 1)
    BY <1>3, <1>6, <1>7
  <2>2. SubSeq(T \o b, 1, n) = SubSeq(T, 1, n)
    BY <1>1, <1>6, <2>1, CutJoin
  <2>3. TheWire!NoMore(TheWire!ReadLines(SubSeq(T, 1, n)), run)
    BY <2>1 DEF Readable, T
  <2> QED BY <1>1, <2>2, <2>3
<1>8. CASE n >= Len(T)
  <2> DEFINE q == n - Len(T)
             v == SubSeq(W, 1, q)
  <2>1. q \in 0..Len(W) /\ q <= Len(W) /\ q \in 0..Len(b)
    BY <1>3, <1>4, <1>6, <1>8
  <2>2. SubSeq(T \o b, 1, n) = T \o v
    <3>1. CASE n = Len(T)
      <4>1. q = 0
        BY <1>3, <3>1
      <4>2. SubSeq(T \o b, 1, n) = SubSeq(T, 1, n)
        <5>1. n <= Len(T)
          BY <1>3, <3>1
        <5> QED BY <1>1, <1>6, <5>1, CutJoin
      <4>3. SubSeq(T, 1, n) = T
        BY <1>1, <3>1, Prefixes
      <4>4. v = <<>>
        BY <4>1, <1>2, Prefixes
      <4>5. T \o <<>> = T
        BY <1>1
      <4> QED BY <4>2, <4>3, <4>4, <4>5
    <3>2. CASE n > Len(T)
      <4>1. SubSeq(T \o b, 1, n) = T \o SubSeq(b, 1, q)
        BY <1>1, <1>6, <3>2, CutJoin
      <4>2. SubSeq(b, 1, q) = v
        <5>1. q \in 0..Len(W \o nl)
          BY <2>1 DEF b
        <5> HIDE DEF q
        <5>2. SubSeq(W \o nl, 1, q) = SubSeq(W, 1, q)
          BY <1>2, <2>1, <5>1, CutJoin
        <5> QED BY <5>2 DEF b
      <4> QED BY <4>1, <4>2
    <3> QED BY <1>3, <1>6, <1>8, <3>1, <3>2, SMTT(30)
  <2>3. CutOff(TheWire!Pieces(v, "tab"), l.word, l.fields)
    <3>1. W = Written(l.word, l.fields)
      BY ContentIs
    <3>2. l.word \in Plain /\ l.fields \in Seq(Seq(Plain))
      BY <1>1 DEF IsLine
    <3> HIDE DEF q, W
    <3>3. CutOff(TheWire!Pieces(SubSeq(Written(l.word, l.fields), 1, q), "tab"), l.word, l.fields)
      BY <2>1, <3>1, <3>2, LinesCutOff
    <3> QED BY <3>1, <3>3
  <2>4. v \in Seq(Chars \ {"newline"})
    <3> HIDE DEF q, W
    <3>1. W \in Seq(Chars \ {"newline"}) /\ q \in 0..Len(W)
      BY <1>1, <2>1
    <3> QED BY <3>1
  <2> HIDE DEF v, q
  <2>5. TheWire!ReadLines(T \o v) = TheWire!ReadLine(z, v)
    <3>1. Says(T, z, Starts(L))
      BY DEF Readable, T
    <3> QED BY <2>4, <3>1, OneLineMore
  <2>6. TheWire!NoMore(TheWire!ReadLine(z, v), run)
    BY <2>3, Zenon DEF CutSafe
  <2> QED BY <1>1, <2>2, <2>5, <2>6
<1> QED BY <1>3, <1>6, <1>7, <1>8

LEMMA MoreIsNoisy ==
  ASSUME NEW L \in Seq(LineSet), NEW l \in LineSet, NEW z, NEW run, Readable(L, z, run),
         NEW i \in 1..Len(TextOf(Append(L, l))), TextOf(Append(L, l))[i] = "newline"
  PROVE  Says(Noisy(TextOf(Append(L, l)), i), TheWire!ReadLine(z, TheWire!Content(l)), Starts(Append(L, l)))
<1> DEFINE W == TheWire!Content(l)
           T == TextOf(L)
           A == TextOf(Append(L, l))
<1>1. W \in Seq(Chars \ {"newline"}) /\ T \in Seq(Chars) /\ A = T \o (W \o <<"newline">>)
  BY LineContent, TextSteps
<1>2. /\ Says(A, TheWire!ReadLine(z, W), Starts(Append(L, l)))
      /\ Starts(Append(L, l)) => Starts(L) \/ Counts(W)
  BY MoreIsSaid
<1>3. i \in 1..Len(A) /\ A[i] = "newline"
  OBVIOUS
<1> HIDE DEF W, T, A
<1>4. (i \in 1..Len(T) /\ T[i] = "newline") \/ i = Len(A)
  BY <1>1, <1>3, NewlineEnds
<1>5. CASE i \in 1..Len(T) /\ T[i] = "newline"
  <2>1. Says(Noisy(T, i), z, Starts(L))
    BY <1>5 DEF Readable, T
  <2>2. Says(Noisy(T \o (W \o <<"newline">>), i), TheWire!ReadLine(z, W), Starts(Append(L, l)))
    BY <1>1, <1>2, <1>5, <2>1, NoisyBefore
  <2> QED BY <1>1, <2>2 DEF A, W
<1>6. CASE i = Len(A)
  BY <1>2, <1>6, NoisyEnd DEF A, W
<1> QED BY <1>4, <1>5, <1>6

LEMMA MoreIsReadable ==
  ASSUME NEW L \in Seq(LineSet), NEW l \in LineSet, NEW z, NEW run, Readable(L, z, run),
         CutSafe(z, l, run)
  PROVE  Readable(Append(L, l), TheWire!ReadLine(z, TheWire!Content(l)), run)
BY MoreIsSaid, MoreIsCut, MoreIsNoisy DEF Readable

LEMMA ListsAreRead ==
  ASSUME NEW run, NEW L \in Seq(LineSet), NEW y, Leads(L, TheWire!Nobody, y, run)
  PROVE  Readable(L, y, run)
<1> DEFINE G == {M \in Seq(LineSet) : \A x : Leads(M, TheWire!Nobody, x, run) => Readable(M, x, run)}
<1>1. <<>> \in G
  <2>1. <<>> \in Seq(LineSet)
    OBVIOUS
  <2>2. ASSUME NEW x, Leads(<<>>, TheWire!Nobody, x, run) PROVE Readable(<<>>, x, run)
    BY <2>2, LeadsNowhere, NothingIsReadable
  <2> QED BY <2>1, <2>2
<1>2. ASSUME NEW M \in Seq(LineSet), M \in G, NEW l \in LineSet
      PROVE  Append(M, l) \in G
  <2>1. ASSUME NEW x, Leads(Append(M, l), TheWire!Nobody, x, run)
        PROVE  Readable(Append(M, l), x, run)
    <3>1. PICK z : /\ Leads(M, TheWire!Nobody, z, run)
                   /\ TheWire!ReadLine(z, TheWire!Content(l)) = x
                   /\ CutSafe(z, l, run)
      BY <2>1, LeadsLess
    <3>2. Readable(M, z, run)
      BY <1>2, <3>1
    <3> QED BY <3>1, <3>2, MoreIsReadable
  <2>2. Append(M, l) \in Seq(LineSet)
    OBVIOUS
  <2> QED BY <2>1, <2>2
<1> HIDE DEF G
<1>3. L \in G
  BY <1>1, <1>2, ListsGrow
<1> QED BY <1>3 DEF G

-----------------------------------------------------------------------------
(***************************************************************************)
(* A whole summary: its lines lead from nothing to the run.                *)
(***************************************************************************)
LEMMA LengthsOfARun ==
  ASSUME NEW run, TheWire!IsRun(run)
  PROVE  /\ Len(Listing(run)) \in Nat /\ Len(run.skipped_files) \in Nat
         /\ Len(run.stopped) \in Nat /\ Len(run.failures) \in Nat
         /\ 0 \in 0..Len(Listing(run)) /\ Len(Listing(run)) \in 0..Len(Listing(run))
         /\ 0 \in 0..Len(run.skipped_files) /\ Len(run.skipped_files) \in 0..Len(run.skipped_files)
         /\ 0 \in 0..Len(run.stopped) /\ Len(run.stopped) \in 0..Len(run.stopped)
         /\ 0 \in 0..Len(run.failures) /\ Len(run.failures) \in 0..Len(run.failures)
<1> DEFINE S == DOMAIN run.kinds.seen
           E1 == Seq(Chars) \X Seq(Chars)
           a == Listing(run)
           b == run.skipped_files
           c == run.stopped
           d == run.failures
<1>1. a \in Seq(S) /\ b \in Seq(E1) /\ c \in Seq(TheWire!Stops) /\ d \in Seq(TheWire!Failures)
  BY RunShape
<1> HIDE DEF S, E1, a, b, c, d
<1>2. Len(a) \in Nat /\ Len(b) \in Nat /\ Len(c) \in Nat /\ Len(d) \in Nat
  BY <1>1
<1>3. \A n \in Nat : 0 \in 0..n /\ n \in 0..n
  OBVIOUS
<1> QED BY <1>2, <1>3, Zenon DEF a, b, c, d

LEMMA IsInLineSet ==
  ASSUME NEW l, NEW word, NEW f, l = TheWire!Line(word, f), l.word \in Plain, l.fields \in Seq(Seq(Plain))
  PROVE  l \in LineSet
BY DEF TheWire!Line, LineSet

LEMMA NumbersBetween ==
  ASSUME NEW n \in Nat, NEW i \in 1..n
  PROVE  i - 1 \in 0..(n - 1) /\ i - 1 \in 0..n /\ (i - 1) + 1 = i /\ i \in 0..n /\ 0 \in 0..n /\ n \in 0..n
OBVIOUS

\* One state before the first line, one behind every line.
LEMMA LeadsAlong ==
  ASSUME NEW n \in Nat, NEW L, Len(L) = n, NEW X, NEW run,
         \A i \in 1..n : /\ TheWire!ReadLine(X[i - 1], TheWire!Content(L[i])) = X[i]
                         /\ CutSafe(X[i - 1], L[i], run)
  PROVE  Leads(L, X[0], X[n], run)
BY Zenon DEF Leads, Steps

HeadLines(run) == <<CountsLine(run), RestLine(run)>>

LEMMA HeadLeads ==
  ASSUME NEW run, TheWire!IsRun(run)
  PROVE  /\ HeadLines(run) \in Seq(LineSet)
         /\ Leads(HeadLines(run), Told(run, 0, 0, 0, 0, 0), Told(run, 2, 0, 0, 0, 0), run)
<1> DEFINE X == [i \in 0..2 |-> Told(run, i, 0, 0, 0, 0)]
           C == CountsLine(run)
           R == RestLine(run)
<1>1. C \in LineSet
  <2>1. C.word \in Plain /\ C.fields \in Seq(Seq(Plain))
    BY CountsFields, NamesArePlain
  <2> QED BY <2>1, IsInLineSet, Zenon DEF CountsLine
<1>2. R \in LineSet
  <2>1. R.word \in Plain /\ R.fields \in Seq(Seq(Plain))
    BY RestFields, NamesArePlain
  <2> QED BY <2>1, IsInLineSet, Zenon DEF RestLine
<1>3. /\ 0 \in 0..Len(Listing(run)) /\ 0 \in 0..Len(run.skipped_files)
      /\ 0 \in 0..Len(run.stopped) /\ 0 \in 0..Len(run.failures)
  BY LengthsOfARun
<1>4. TheWire!ReadLine(X[0], TheWire!Content(C)) = X[1] /\ CutSafe(X[0], C, run)
  <2>1. X[0] = Told(run, 0, 0, 0, 0, 0) /\ X[1] = Told(run, 1, 0, 0, 0, 0)
    OBVIOUS
  <2> HIDE DEF X, C
  <2>2. TheWire!ReadLine(X[0], TheWire!Content(C)) = X[1]
    BY <2>1, CountsAreRead DEF C
  <2>3. CutSafe(X[0], C, run)
    BY <1>3, <2>1, CutCounts DEF C, CutSafe
  <2> QED BY <2>2, <2>3
<1>5. TheWire!ReadLine(X[1], TheWire!Content(R)) = X[2] /\ CutSafe(X[1], R, run)
  <2>1. X[1] = Told(run, 1, 0, 0, 0, 0) /\ X[2] = Told(run, 2, 0, 0, 0, 0)
    OBVIOUS
  <2> HIDE DEF X, R
  <2>2. TheWire!ReadLine(X[1], TheWire!Content(R)) = X[2]
    BY <2>1, RestIsRead DEF R
  <2>3. CutSafe(X[1], R, run)
    BY <1>3, <2>1, CutRest DEF R, CutSafe
  <2> QED BY <2>2, <2>3
<1>6. X[0] = Told(run, 0, 0, 0, 0, 0) /\ X[2] = Told(run, 2, 0, 0, 0, 0)
  OBVIOUS
<1> HIDE DEF X, C, R
<1> DEFINE L == <<C, R>>
<1>7. L \in Seq(LineSet) /\ Len(L) = 2 /\ L[1] = C /\ L[2] = R
  BY <1>1, <1>2
<1> HIDE DEF L
<1>8. ASSUME NEW i \in 1..2
      PROVE  TheWire!ReadLine(X[i - 1], TheWire!Content(L[i])) = X[i] /\ CutSafe(X[i - 1], L[i], run)
  <2>1. (i = 1 /\ i - 1 = 0) \/ (i = 2 /\ i - 1 = 1)
    OBVIOUS
  <2> QED BY <1>4, <1>5, <1>7, <2>1
<1>9. Leads(L, X[0], X[2], run)
  BY <1>7, <1>8, LeadsAlong
<1> QED BY <1>6, <1>7, <1>9 DEF HeadLines, L, C, R

KindLines(run) == [i \in DOMAIN Listing(run) |-> TheWire!KindLine(Listing(run)[i], run.kinds.seen[Listing(run)[i]])]

LEMMA KindsLead ==
  ASSUME NEW run, TheWire!IsRun(run)
  PROVE  /\ KindLines(run) \in Seq(LineSet)
         /\ Leads(KindLines(run), Told(run, 2, 0, 0, 0, 0), Told(run, 2, Len(Listing(run)), 0, 0, 0), run)
<1> DEFINE list == Listing(run)
           n == Len(list)
           X == [i \in 0..n |-> Told(run, 2, i, 0, 0, 0)]
           L == KindLines(run)
           E == DOMAIN run.kinds.seen
<1>1. /\ Len(Listing(run)) \in Nat /\ Len(run.skipped_files) \in Nat
      /\ Len(run.stopped) \in Nat /\ Len(run.failures) \in Nat
      /\ 0 \in 0..Len(Listing(run)) /\ Len(Listing(run)) \in 0..Len(Listing(run))
      /\ 0 \in 0..Len(run.skipped_files) /\ Len(run.skipped_files) \in 0..Len(run.skipped_files)
      /\ 0 \in 0..Len(run.stopped) /\ Len(run.stopped) \in 0..Len(run.stopped)
      /\ 0 \in 0..Len(run.failures)
  BY LengthsOfARun
<1>2. list \in Seq(E)
  BY RunShape
<1>3. n \in Nat /\ DOMAIN list = 1..n /\ \A i \in 1..n : list[i] \in E
  <2> HIDE DEF list, E
  <2> QED BY <1>2
<1>4. L = [i \in 1..n |-> TheWire!KindLine(list[i], run.kinds.seen[list[i]])]
  BY <1>3 DEF KindLines
<1>5. X[0] = Told(run, 2, 0, 0, 0, 0) /\ X[n] = Told(run, 2, n, 0, 0, 0) /\ \A i \in 0..n : X[i] = Told(run, 2, i, 0, 0, 0)
  <2> HIDE DEF n
  <2> QED BY <1>3
<1> HIDE DEF X, L
<1>6. \A i \in 1..n : L[i] \in LineSet
  <2> TAKE i \in 1..n
  <2> DEFINE s == list[i]
             l == TheWire!KindLine(s, run.kinds.seen[s])
  <2>1. s \in E
    BY <1>3
  <2>2. l.word = "kind" /\ l.fields \in Seq(Seq(Plain))
    <3> DEFINE t == run.kinds.seen[s]
               B == [passed : Nat, failed : Nat]
               seen == run.kinds.seen
    <3>1. s \in Seq(Chars) /\ seen \in [E -> B]
      BY <2>1, RunShape
    <3> HIDE DEF s, B, E, seen
    <3>2. t \in B
      BY <2>1, <3>1 DEF seen
    <3> HIDE DEF t
    <3> QED BY <3>1, <3>2, KindFields DEF t, B
  <2>3. L[i] = l
    BY <1>4
  <2> HIDE DEF s
  <2>4. l \in LineSet
    <3>1. l.word \in Plain /\ l.fields \in Seq(Seq(Plain))
      BY <2>2, NamesArePlain
    <3> QED BY <3>1, IsInLineSet, Zenon DEF TheWire!KindLine
  <2> QED BY <2>3, <2>4
<1>7. ASSUME NEW i \in 1..n
      PROVE  TheWire!ReadLine(X[i - 1], TheWire!Content(L[i])) = X[i] /\ CutSafe(X[i - 1], L[i], run)
  <2> DEFINE j == i - 1
             l == L[i]
  <2>1. j \in 0..(n - 1) /\ j \in 0..n /\ j + 1 = i /\ i \in 0..n
    BY <1>3, NumbersBetween
  <2>2. X[j] = Told(run, 2, j, 0, 0, 0) /\ X[i] = Told(run, 2, i, 0, 0, 0) /\ l = TheWire!KindLine(list[i], run.kinds.seen[list[i]])
    BY <1>4, <1>5, <2>1
  <2>3. l \in LineSet
    BY <1>6
  <2> HIDE DEF j, l
  <2>4. TheWire!ReadLine(Told(run, 2, j, 0, 0, 0), TheWire!Content(l)) = Told(run, 2, i, 0, 0, 0)
    <3>1. TheWire!ReadLine(Told(run, 2, j, 0, 0, 0), TheWire!Content(TheWire!KindLine(list[j + 1], run.kinds.seen[list[j + 1]]))) = Told(run, 2, j + 1, 0, 0, 0)
      BY <2>1, KindIsRead
    <3> QED BY <2>1, <2>2, <3>1
  <2>5. CutSafe(Told(run, 2, j, 0, 0, 0), l, run)
    <3> DEFINE k == list[i]
    <3>1. k = Listing(run)[j + 1] /\ l = TheWire!KindLine(k, run.kinds.seen[k])
      BY <2>1, <2>2
    <3> HIDE DEF k
    <3> QED BY <1>1, <2>1, <3>1, CutKind DEF CutSafe
  <2> QED BY <2>2, <2>4, <2>5 DEF j, l
<1>8. L \in Seq(LineSet) /\ Len(L) = n
  <2>1. L = [i \in 1..n |-> L[i]]
    BY <1>4
  <2> HIDE DEF n
  <2> QED BY <1>3, <1>6, <2>1
<1> HIDE DEF n
<1>9. Leads(L, X[0], X[n], run)
  BY <1>3, <1>7, <1>8, LeadsAlong
<1> QED BY <1>5, <1>8, <1>9 DEF L, n

SkipLines(run) == [i \in DOMAIN run.skipped_files |-> TheWire!SkipLine(run.skipped_files[i])]

LEMMA SkipsLead ==
  ASSUME NEW run, TheWire!IsRun(run)
  PROVE  /\ SkipLines(run) \in Seq(LineSet)
         /\ Leads(SkipLines(run), Told(run, 2, Len(Listing(run)), 0, 0, 0), Told(run, 2, Len(Listing(run)), Len(run.skipped_files), 0, 0), run)
<1> DEFINE list == run.skipped_files
           n == Len(list)
           X == [i \in 0..n |-> Told(run, 2, Len(Listing(run)), i, 0, 0)]
           L == SkipLines(run)
           E == Seq(Chars) \X Seq(Chars)
<1>1. /\ Len(Listing(run)) \in Nat /\ Len(run.skipped_files) \in Nat
      /\ Len(run.stopped) \in Nat /\ Len(run.failures) \in Nat
      /\ 0 \in 0..Len(Listing(run)) /\ Len(Listing(run)) \in 0..Len(Listing(run))
      /\ 0 \in 0..Len(run.skipped_files) /\ Len(run.skipped_files) \in 0..Len(run.skipped_files)
      /\ 0 \in 0..Len(run.stopped) /\ Len(run.stopped) \in 0..Len(run.stopped)
      /\ 0 \in 0..Len(run.failures)
  BY LengthsOfARun
<1>2. list \in Seq(E)
  BY RunShape
<1>3. n \in Nat /\ DOMAIN list = 1..n /\ \A i \in 1..n : list[i] \in E
  <2> HIDE DEF list, E
  <2> QED BY <1>2
<1>4. L = [i \in 1..n |-> TheWire!SkipLine(list[i])]
  BY <1>3 DEF SkipLines
<1>5. X[0] = Told(run, 2, Len(Listing(run)), 0, 0, 0) /\ X[n] = Told(run, 2, Len(Listing(run)), n, 0, 0) /\ \A i \in 0..n : X[i] = Told(run, 2, Len(Listing(run)), i, 0, 0)
  <2> HIDE DEF n
  <2> QED BY <1>3
<1> HIDE DEF X, L
<1>6. \A i \in 1..n : L[i] \in LineSet
  <2> TAKE i \in 1..n
  <2> DEFINE s == list[i]
             l == TheWire!SkipLine(s)
  <2>1. s \in E
    BY <1>3
  <2>2. l.word = "skipfile" /\ l.fields \in Seq(Seq(Plain))
    BY <2>1, SkipFields
  <2>3. L[i] = l
    BY <1>4
  <2> HIDE DEF s
  <2>4. l \in LineSet
    <3>1. l.word \in Plain /\ l.fields \in Seq(Seq(Plain))
      BY <2>2, NamesArePlain
    <3> QED BY <3>1, IsInLineSet, Zenon DEF TheWire!SkipLine
  <2> QED BY <2>3, <2>4
<1>7. ASSUME NEW i \in 1..n
      PROVE  TheWire!ReadLine(X[i - 1], TheWire!Content(L[i])) = X[i] /\ CutSafe(X[i - 1], L[i], run)
  <2> DEFINE j == i - 1
             l == L[i]
  <2>1. j \in 0..(n - 1) /\ j \in 0..n /\ j + 1 = i /\ i \in 0..n
    BY <1>3, NumbersBetween
  <2>2. X[j] = Told(run, 2, Len(Listing(run)), j, 0, 0) /\ X[i] = Told(run, 2, Len(Listing(run)), i, 0, 0) /\ l = TheWire!SkipLine(list[i])
    BY <1>4, <1>5, <2>1
  <2>3. l \in LineSet
    BY <1>6
  <2> HIDE DEF j, l
  <2>4. TheWire!ReadLine(Told(run, 2, Len(Listing(run)), j, 0, 0), TheWire!Content(l)) = Told(run, 2, Len(Listing(run)), i, 0, 0)
    <3>1. TheWire!ReadLine(Told(run, 2, Len(Listing(run)), j, 0, 0), TheWire!Content(TheWire!SkipLine(list[j + 1]))) = Told(run, 2, Len(Listing(run)), j + 1, 0, 0)
      <4>1. j \in 0..(Len(run.skipped_files) - 1)
        BY <2>1
      <4> HIDE DEF n, list, E
      <4>2. TheWire!ReadLine(Told(run, 2, Len(Listing(run)), j, 0, 0), TheWire!Content(TheWire!SkipLine(run.skipped_files[j + 1]))) = Told(run, 2, Len(Listing(run)), j + 1, 0, 0)
        BY <4>1, SkipIsRead
      <4> QED BY <4>2 DEF list
    <3> QED BY <2>1, <2>2, <3>1
  <2>5. CutSafe(Told(run, 2, Len(Listing(run)), j, 0, 0), l, run)
    <3> DEFINE s == list[i]
    <3>1. l.word = "skipfile" /\ l.fields \in Seq(Seq(Plain))
      <4>1. s \in E
        BY <1>3
      <4> QED BY <2>2, <4>1, SkipFields
    <3>2. Len(l.fields) \in Nat
      BY <3>1
    <3> DEFINE f == l.fields
    <3>3. j \in 0..(Len(run.skipped_files) - 1) /\ 2 \in 0..2
      BY <2>1
    <3>4. CutSafe(Told(run, 2, Len(Listing(run)), j, 0, 0), l, run) <=>
            \A w : CutOff(TheWire!Pieces(w, "tab"), "skipfile", f)
                     => TheWire!NoMore(TheWire!ReadLine(Told(run, 2, Len(Listing(run)), j, 0, 0), w), run)
      BY <3>1, Zenon DEF CutSafe
    <3>5. Len(f) \in Nat
      BY <3>2
    <3> HIDE DEF f, list, n
    <3>6. ASSUME NEW w, NEW p, p = TheWire!Pieces(w, "tab"), CutOff(p, "skipfile", f)
          PROVE  TheWire!NoMore(TheWire!ReadLine(Told(run, 2, Len(Listing(run)), j, 0, 0), w), run)
      BY <1>1, <3>3, <3>5, <3>6, CutSkip
    <3> QED BY <3>4, <3>6, Zenon
  <2> QED BY <2>2, <2>4, <2>5 DEF j, l
<1>8. L \in Seq(LineSet) /\ Len(L) = n
  <2>1. L = [i \in 1..n |-> L[i]]
    BY <1>4
  <2> HIDE DEF n
  <2> QED BY <1>3, <1>6, <2>1
<1> HIDE DEF n
<1>9. Leads(L, X[0], X[n], run)
  BY <1>3, <1>7, <1>8, LeadsAlong
<1> QED BY <1>5, <1>8, <1>9 DEF L, n

StopLines(run) == [i \in DOMAIN run.stopped |-> TheWire!StopLine(run.stopped[i])]

LEMMA StopsLead ==
  ASSUME NEW run, TheWire!IsRun(run), Even(run)
  PROVE  /\ StopLines(run) \in Seq(LineSet)
         /\ Leads(StopLines(run), Told(run, 2, Len(Listing(run)), Len(run.skipped_files), 0, 0), Told(run, 2, Len(Listing(run)), Len(run.skipped_files), Len(run.stopped), 0), run)
<1> DEFINE list == run.stopped
           n == Len(list)
           X == [i \in 0..n |-> Told(run, 2, Len(Listing(run)), Len(run.skipped_files), i, 0)]
           L == StopLines(run)
           E == TheWire!Stops
<1>1. /\ Len(Listing(run)) \in Nat /\ Len(run.skipped_files) \in Nat
      /\ Len(run.stopped) \in Nat /\ Len(run.failures) \in Nat
      /\ 0 \in 0..Len(Listing(run)) /\ Len(Listing(run)) \in 0..Len(Listing(run))
      /\ 0 \in 0..Len(run.skipped_files) /\ Len(run.skipped_files) \in 0..Len(run.skipped_files)
      /\ 0 \in 0..Len(run.stopped) /\ Len(run.stopped) \in 0..Len(run.stopped)
      /\ 0 \in 0..Len(run.failures)
  BY LengthsOfARun
<1>2. list \in Seq(E)
  BY RunShape
<1>3. n \in Nat /\ DOMAIN list = 1..n /\ \A i \in 1..n : list[i] \in E
  <2> HIDE DEF list, E
  <2> QED BY <1>2
<1>4. L = [i \in 1..n |-> TheWire!StopLine(list[i])]
  BY <1>3 DEF StopLines
<1>5. X[0] = Told(run, 2, Len(Listing(run)), Len(run.skipped_files), 0, 0) /\ X[n] = Told(run, 2, Len(Listing(run)), Len(run.skipped_files), n, 0) /\ \A i \in 0..n : X[i] = Told(run, 2, Len(Listing(run)), Len(run.skipped_files), i, 0)
  <2> HIDE DEF n
  <2> QED BY <1>3
<1> HIDE DEF X, L
<1>6. \A i \in 1..n : L[i] \in LineSet
  <2> TAKE i \in 1..n
  <2> DEFINE s == list[i]
             l == TheWire!StopLine(s)
  <2>1. s \in E
    BY <1>3
  <2>2. l.word = "stopfile" /\ l.fields \in Seq(Seq(Plain))
    BY <2>1, StopFields
  <2>3. L[i] = l
    BY <1>4
  <2> HIDE DEF s
  <2>4. l \in LineSet
    <3>1. l.word \in Plain /\ l.fields \in Seq(Seq(Plain))
      BY <2>2, NamesArePlain
    <3> QED BY <3>1, IsInLineSet, Zenon DEF TheWire!StopLine
  <2> QED BY <2>3, <2>4
<1>7. ASSUME NEW i \in 1..n
      PROVE  TheWire!ReadLine(X[i - 1], TheWire!Content(L[i])) = X[i] /\ CutSafe(X[i - 1], L[i], run)
  <2> DEFINE j == i - 1
             l == L[i]
  <2>1. j \in 0..(n - 1) /\ j \in 0..n /\ j + 1 = i /\ i \in 0..n
    BY <1>3, NumbersBetween
  <2>2. X[j] = Told(run, 2, Len(Listing(run)), Len(run.skipped_files), j, 0) /\ X[i] = Told(run, 2, Len(Listing(run)), Len(run.skipped_files), i, 0) /\ l = TheWire!StopLine(list[i])
    BY <1>4, <1>5, <2>1
  <2>3. l \in LineSet
    BY <1>6
  <2> HIDE DEF j, l
  <2>4. TheWire!ReadLine(Told(run, 2, Len(Listing(run)), Len(run.skipped_files), j, 0), TheWire!Content(l)) = Told(run, 2, Len(Listing(run)), Len(run.skipped_files), i, 0)
    <3>1. TheWire!ReadLine(Told(run, 2, Len(Listing(run)), Len(run.skipped_files), j, 0), TheWire!Content(TheWire!StopLine(list[j + 1]))) = Told(run, 2, Len(Listing(run)), Len(run.skipped_files), j + 1, 0)
      <4>1. j \in 0..(Len(run.stopped) - 1)
        BY <2>1
      <4> HIDE DEF n, list, E
      <4>2. TheWire!ReadLine(Told(run, 2, Len(Listing(run)), Len(run.skipped_files), j, 0), TheWire!Content(TheWire!StopLine(run.stopped[j + 1]))) = Told(run, 2, Len(Listing(run)), Len(run.skipped_files), j + 1, 0)
        BY <4>1, StopIsRead
      <4> QED BY <4>2 DEF list
    <3> QED BY <2>1, <2>2, <3>1
  <2>5. CutSafe(Told(run, 2, Len(Listing(run)), Len(run.skipped_files), j, 0), l, run)
    <3> DEFINE s == list[i]
    <3>1. l.word = "stopfile" /\ l.fields \in Seq(Seq(Plain))
      <4>1. s \in E
        BY <1>3
      <4> QED BY <2>2, <4>1, StopFields
    <3>2. Len(l.fields) \in Nat
      BY <3>1
    <3> DEFINE f == l.fields
    <3>3. j \in 0..(Len(run.stopped) - 1) /\ 2 \in 0..2
      BY <2>1
    <3>4. CutSafe(Told(run, 2, Len(Listing(run)), Len(run.skipped_files), j, 0), l, run) <=>
            \A w : CutOff(TheWire!Pieces(w, "tab"), "stopfile", f)
                     => TheWire!NoMore(TheWire!ReadLine(Told(run, 2, Len(Listing(run)), Len(run.skipped_files), j, 0), w), run)
      BY <3>1, Zenon DEF CutSafe
    <3>5. Len(f) \in Nat
      BY <3>2
    <3> HIDE DEF f, list, n
    <3>6. ASSUME NEW w, NEW p, p = TheWire!Pieces(w, "tab"), CutOff(p, "stopfile", f)
          PROVE  TheWire!NoMore(TheWire!ReadLine(Told(run, 2, Len(Listing(run)), Len(run.skipped_files), j, 0), w), run)
      BY <1>1, <3>3, <3>5, <3>6, CutStop
    <3> QED BY <3>4, <3>6, Zenon
  <2> QED BY <2>2, <2>4, <2>5 DEF j, l
<1>8. L \in Seq(LineSet) /\ Len(L) = n
  <2>1. L = [i \in 1..n |-> L[i]]
    BY <1>4
  <2> HIDE DEF n
  <2> QED BY <1>3, <1>6, <2>1
<1> HIDE DEF n
<1>9. Leads(L, X[0], X[n], run)
  BY <1>3, <1>7, <1>8, LeadsAlong
<1> QED BY <1>5, <1>8, <1>9 DEF L, n

FailureLines(run) == [i \in DOMAIN run.failures |-> TheWire!FailureLine(run.failures[i])]

LEMMA FailuresLead ==
  ASSUME NEW run, TheWire!IsRun(run)
  PROVE  /\ FailureLines(run) \in Seq(LineSet)
         /\ Leads(FailureLines(run), Told(run, 2, Len(Listing(run)), Len(run.skipped_files), Len(run.stopped), 0), Told(run, 2, Len(Listing(run)), Len(run.skipped_files), Len(run.stopped), Len(run.failures)), run)
<1> DEFINE list == run.failures
           n == Len(list)
           X == [i \in 0..n |-> Told(run, 2, Len(Listing(run)), Len(run.skipped_files), Len(run.stopped), i)]
           L == FailureLines(run)
           E == TheWire!Failures
<1>1. /\ Len(Listing(run)) \in Nat /\ Len(run.skipped_files) \in Nat
      /\ Len(run.stopped) \in Nat /\ Len(run.failures) \in Nat
      /\ 0 \in 0..Len(Listing(run)) /\ Len(Listing(run)) \in 0..Len(Listing(run))
      /\ 0 \in 0..Len(run.skipped_files) /\ Len(run.skipped_files) \in 0..Len(run.skipped_files)
      /\ 0 \in 0..Len(run.stopped) /\ Len(run.stopped) \in 0..Len(run.stopped)
      /\ 0 \in 0..Len(run.failures)
  BY LengthsOfARun
<1>2. list \in Seq(E)
  BY RunShape
<1>3. n \in Nat /\ DOMAIN list = 1..n /\ \A i \in 1..n : list[i] \in E
  <2> HIDE DEF list, E
  <2> QED BY <1>2
<1>4. L = [i \in 1..n |-> TheWire!FailureLine(list[i])]
  BY <1>3 DEF FailureLines
<1>5. X[0] = Told(run, 2, Len(Listing(run)), Len(run.skipped_files), Len(run.stopped), 0) /\ X[n] = Told(run, 2, Len(Listing(run)), Len(run.skipped_files), Len(run.stopped), n) /\ \A i \in 0..n : X[i] = Told(run, 2, Len(Listing(run)), Len(run.skipped_files), Len(run.stopped), i)
  <2> HIDE DEF n
  <2> QED BY <1>3
<1> HIDE DEF X, L
<1>6. \A i \in 1..n : L[i] \in LineSet
  <2> TAKE i \in 1..n
  <2> DEFINE s == list[i]
             l == TheWire!FailureLine(s)
  <2>1. s \in E
    BY <1>3
  <2>2. l.word = "failure" /\ l.fields \in Seq(Seq(Plain))
    BY <2>1, FailureFields
  <2>3. L[i] = l
    BY <1>4
  <2> HIDE DEF s
  <2>4. l \in LineSet
    <3>1. l.word \in Plain /\ l.fields \in Seq(Seq(Plain))
      BY <2>2, NamesArePlain
    <3> QED BY <3>1, IsInLineSet, Zenon DEF TheWire!FailureLine
  <2> QED BY <2>3, <2>4
<1>7. ASSUME NEW i \in 1..n
      PROVE  TheWire!ReadLine(X[i - 1], TheWire!Content(L[i])) = X[i] /\ CutSafe(X[i - 1], L[i], run)
  <2> DEFINE j == i - 1
             l == L[i]
  <2>1. j \in 0..(n - 1) /\ j \in 0..n /\ j + 1 = i /\ i \in 0..n
    BY <1>3, NumbersBetween
  <2>2. X[j] = Told(run, 2, Len(Listing(run)), Len(run.skipped_files), Len(run.stopped), j) /\ X[i] = Told(run, 2, Len(Listing(run)), Len(run.skipped_files), Len(run.stopped), i) /\ l = TheWire!FailureLine(list[i])
    BY <1>4, <1>5, <2>1
  <2>3. l \in LineSet
    BY <1>6
  <2> HIDE DEF j, l
  <2>4. TheWire!ReadLine(Told(run, 2, Len(Listing(run)), Len(run.skipped_files), Len(run.stopped), j), TheWire!Content(l)) = Told(run, 2, Len(Listing(run)), Len(run.skipped_files), Len(run.stopped), i)
    <3>1. TheWire!ReadLine(Told(run, 2, Len(Listing(run)), Len(run.skipped_files), Len(run.stopped), j), TheWire!Content(TheWire!FailureLine(list[j + 1]))) = Told(run, 2, Len(Listing(run)), Len(run.skipped_files), Len(run.stopped), j + 1)
      <4>1. j \in 0..(Len(run.failures) - 1)
        BY <2>1
      <4> QED BY <4>1, FailureIsRead, Zenon
    <3> QED BY <2>1, <2>2, <3>1
  <2>5. CutSafe(Told(run, 2, Len(Listing(run)), Len(run.skipped_files), Len(run.stopped), j), l, run)
    <3> DEFINE s == list[i]
    <3>1. l.word = "failure" /\ l.fields \in Seq(Seq(Plain))
      <4>1. s \in E
        BY <1>3
      <4> QED BY <2>2, <4>1, FailureFields
    <3>2. Len(l.fields) \in Nat
      BY <3>1
    <3> DEFINE f == l.fields
    <3>3. j \in 0..(Len(run.failures) - 1) /\ 2 \in 0..2
      BY <2>1
    <3>4. CutSafe(Told(run, 2, Len(Listing(run)), Len(run.skipped_files), Len(run.stopped), j), l, run) <=>
            \A w : CutOff(TheWire!Pieces(w, "tab"), "failure", f)
                     => TheWire!NoMore(TheWire!ReadLine(Told(run, 2, Len(Listing(run)), Len(run.skipped_files), Len(run.stopped), j), w), run)
      BY <3>1, Zenon DEF CutSafe
    <3>5. Len(f) \in Nat
      BY <3>2
    <3> HIDE DEF f, list, n
    <3>6. ASSUME NEW w, NEW p, p = TheWire!Pieces(w, "tab"), CutOff(p, "failure", f)
          PROVE  TheWire!NoMore(TheWire!ReadLine(Told(run, 2, Len(Listing(run)), Len(run.skipped_files), Len(run.stopped), j), w), run)
      BY <1>1, <3>3, <3>5, <3>6, CutFailure
    <3> QED BY <3>4, <3>6, Zenon
  <2> QED BY <2>2, <2>4, <2>5 DEF j, l
<1>8. L \in Seq(LineSet) /\ Len(L) = n
  <2>1. L = [i \in 1..n |-> L[i]]
    BY <1>4
  <2> HIDE DEF n
  <2> QED BY <1>3, <1>6, <2>1
<1> HIDE DEF n
<1>9. Leads(L, X[0], X[n], run)
  BY <1>3, <1>7, <1>8, LeadsAlong
<1> QED BY <1>5, <1>8, <1>9 DEF L, n

LEMMA FirstOfJoined ==
  ASSUME NEW E, NEW A \in Seq(E), NEW B \in Seq(E), A # <<>>
  PROVE  A \o B \in Seq(E) /\ A \o B # <<>> /\ (A \o B)[1] = A[1]
<1>1. Len(A) \in Nat /\ Len(A) # 0 /\ Len(B) \in Nat
  OBVIOUS
<1>2. A \o B \in Seq(E) /\ Len(A \o B) = Len(A) + Len(B) /\ (A \o B)[1] = A[1]
  <2>1. 1 \in 1..Len(A)
    BY <1>1
  <2> QED BY <2>1, Joined
<1>3. Len(A \o B) # 0
  BY <1>1, <1>2
<1>4. Len(<<>>) = 0
  OBVIOUS
<1> QED BY <1>2, <1>3, <1>4

LEMMA LinesAre ==
  ASSUME NEW run
  PROVE  TheWire!Lines(run) = HeadLines(run) \o KindLines(run) \o SkipLines(run) \o StopLines(run) \o FailureLines(run)
BY Zenon DEF TheWire!Lines, HeadLines, KindLines, SkipLines, StopLines, FailureLines, Listing, CountsLine, RestLine

LEMMA LinesLead ==
  ASSUME NEW run, TheWire!IsRun(run), Even(run)
  PROVE  /\ TheWire!Lines(run) \in Seq(LineSet)
         /\ Leads(TheWire!Lines(run), TheWire!Nobody, run, run)
         /\ Starts(TheWire!Lines(run))
<1> DEFINE H == HeadLines(run)
           K == KindLines(run)
           S == SkipLines(run)
           P == StopLines(run)
           F == FailureLines(run)
           x2 == Told(run, 2, 0, 0, 0, 0)
           x3 == Told(run, 2, Len(Listing(run)), 0, 0, 0)
           x4 == Told(run, 2, Len(Listing(run)), Len(run.skipped_files), 0, 0)
           x5 == Told(run, 2, Len(Listing(run)), Len(run.skipped_files), Len(run.stopped), 0)
<1>1. H \in Seq(LineSet) /\ Leads(H, TheWire!Nobody, x2, run)
  BY HeadLeads, NothingTold
<1>2. K \in Seq(LineSet) /\ Leads(K, x2, x3, run)
  BY KindsLead
<1>3. S \in Seq(LineSet) /\ Leads(S, x3, x4, run)
  BY SkipsLead
<1>4. P \in Seq(LineSet) /\ Leads(P, x4, x5, run)
  BY StopsLead
<1>5. F \in Seq(LineSet) /\ Leads(F, x5, run, run)
  BY FailuresLead, AllTold
<1>6. H # <<>> /\ H[1] = CountsLine(run)
  BY DEF HeadLines
<1>7. TheWire!Lines(run) = (((H \o K) \o S) \o P) \o F
  BY LinesAre
<1> HIDE DEF H, K, S, P, F, x2, x3, x4, x5
<1> DEFINE L1 == H \o K
<1>8. L1 \in Seq(LineSet) /\ L1 # <<>> /\ L1[1] = CountsLine(run) /\ Leads(L1, TheWire!Nobody, x3, run)
  <2>1. Leads(L1, TheWire!Nobody, x3, run)
    BY <1>1, <1>2, LeadsOn
  <2>2. L1 \in Seq(LineSet) /\ L1 # <<>> /\ L1[1] = H[1]
    BY <1>1, <1>2, <1>6, FirstOfJoined
  <2> QED BY <1>6, <2>1, <2>2
<1> HIDE DEF L1
<1> DEFINE L2 == L1 \o S
<1>9. L2 \in Seq(LineSet) /\ L2 # <<>> /\ L2[1] = CountsLine(run) /\ Leads(L2, TheWire!Nobody, x4, run)
  <2>1. Leads(L2, TheWire!Nobody, x4, run)
    BY <1>3, <1>8, LeadsOn
  <2>2. L2 \in Seq(LineSet) /\ L2 # <<>> /\ L2[1] = L1[1]
    BY <1>3, <1>8, FirstOfJoined
  <2> QED BY <1>8, <2>1, <2>2
<1> HIDE DEF L2
<1> DEFINE L3 == L2 \o P
<1>10. L3 \in Seq(LineSet) /\ L3 # <<>> /\ L3[1] = CountsLine(run) /\ Leads(L3, TheWire!Nobody, x5, run)
  <2>1. Leads(L3, TheWire!Nobody, x5, run)
    BY <1>4, <1>9, LeadsOn
  <2>2. L3 \in Seq(LineSet) /\ L3 # <<>> /\ L3[1] = L2[1]
    BY <1>4, <1>9, FirstOfJoined
  <2> QED BY <1>9, <2>1, <2>2
<1> HIDE DEF L3
<1> DEFINE L4 == L3 \o F
<1>11. L4 \in Seq(LineSet) /\ L4 # <<>> /\ L4[1] = CountsLine(run) /\ Leads(L4, TheWire!Nobody, run, run)
  <2>1. Leads(L4, TheWire!Nobody, run, run)
    BY <1>5, <1>10, LeadsOn
  <2>2. L4 \in Seq(LineSet) /\ L4 # <<>> /\ L4[1] = L3[1]
    BY <1>5, <1>10, FirstOfJoined
  <2> QED BY <1>10, <2>1, <2>2
<1> HIDE DEF L4
<1>12. TheWire!Lines(run) = L4
  BY <1>7 DEF L1, L2, L3, L4
<1>13. Counts(TheWire!Content(CountsLine(run)))
  BY CountsAreRead
<1> QED BY <1>11, <1>12, <1>13 DEF Starts

\* What becomes of the text of a run: whole, with noise behind a line, cut anywhere.
LEMMA EvenTextsAreRead ==
  ASSUME NEW run, TheWire!IsRun(run), Even(run), NEW T, T = TheWire!Encode(run)
  PROVE  /\ TheWire!ReadLines(T) = run /\ TheWire!DecodeChild(T) = run
         /\ \A i \in DOMAIN T : T[i] = "newline" => TheWire!DecodeChild(Noisy(T, i)) = run
         /\ \A n \in 0..(Len(T) - 1) : TheWire!NoMore(TheWire!ReadLines(SubSeq(T, 1, n)), run)
<1> DEFINE L == TheWire!Lines(run)
<1>1. T = TextOf(L)
  BY DEF TheWire!Encode, TextOf
<1>2. Readable(L, run, run) /\ Starts(L)
  BY LinesLead, ListsAreRead
<1> HIDE DEF L
<1>3. /\ Says(T, run, TRUE)
      /\ \A n \in 0..(Len(T) - 1) : TheWire!NoMore(TheWire!ReadLines(SubSeq(T, 1, n)), run)
      /\ \A i \in 1..Len(T) : T[i] = "newline" => Says(Noisy(T, i), run, TRUE)
  <2>1. Starts(L) = TRUE
    BY <1>2 DEF Starts
  <2>2. Readable(L, run, run)
    BY <1>2
  <2> QED BY <1>1, <2>1, <2>2 DEF Readable
<1>4. ASSUME NEW s, Says(s, run, TRUE) PROVE TheWire!ReadLines(s) = run /\ TheWire!DecodeChild(s) = run
  BY <1>4, WholeLinesAreRead DEF TheWire!DecodeChild
<1>5. DOMAIN T = 1..Len(T)
  BY <1>3 DEF Says
<1> QED BY <1>3, <1>4, <1>5

\* What is over of a second was not written in the first place.
LEMMA SecondsOnly ==
  ASSUME NEW s \in TheWire!Stops
  PROVE  /\ TheWire!ToTheSecond(s) \in TheWire!Stops
         /\ TheWire!ToTheSecond(TheWire!ToTheSecond(s)) = TheWire!ToTheSecond(s)
         /\ TheWire!StopLine(TheWire!ToTheSecond(s)) = TheWire!StopLine(s)
<1> DEFINE r == TheWire!ToTheSecond(s)
<1>1. CASE s[2] # "time"
  BY <1>1 DEF TheWire!ToTheSecond
<1>2. CASE s[2] = "time"
  <2> DEFINE q == s[3] \div TheWire!SECOND
             t == TheWire!SECOND * q
  <2>1. s[3] \in Nat /\ q \in Nat /\ t \in Nat /\ t \div TheWire!SECOND = q
    BY <1>2, StopShape DEF TheWire!SECOND
  <2> HIDE DEF q
  <2>2. s[1] \in Seq(STRING) /\ r = <<s[1], "time", t>>
    BY <1>2 DEF TheWire!Stops, TheWire!ToTheSecond, q
  <2> HIDE DEF t, r
  <2>3. r \in TheWire!Stops /\ r[1] = s[1] /\ r[2] = "time" /\ r[3] = t
    BY <2>1, <2>2 DEF TheWire!Stops
  <2>4. TheWire!ToTheSecond(r) = r
    BY <2>1, <2>2, <2>3, Zenon DEF TheWire!ToTheSecond, t
  <2>5. TheWire!StopText(r) = TheWire!NumberText(q) /\ TheWire!StopText(s) = TheWire!NumberText(q)
    BY <1>2, <2>1, <2>3, Zenon DEF TheWire!StopText, q
  <2>6. TheWire!StopLine(r) = TheWire!StopLine(s)
    BY <1>2, <2>3, <2>5, Zenon DEF TheWire!StopLine
  <2> QED BY <2>3, <2>4, <2>6 DEF r
<1> QED BY <1>1, <1>2

LEMMA InSecondsIsEven ==
  ASSUME NEW run, TheWire!IsRun(run)
  PROVE  /\ TheWire!IsRun(TheWire!InSeconds(run)) /\ Even(TheWire!InSeconds(run))
         /\ TheWire!Encode(TheWire!InSeconds(run)) = TheWire!Encode(run)
<1> DEFINE r == TheWire!InSeconds(run)
           list == run.stopped
           less == [i \in DOMAIN list |-> TheWire!ToTheSecond(list[i])]
<1>1. list \in Seq(TheWire!Stops)
  BY RunShape
<1>2. /\ r.files = run.files /\ r.passed = run.passed /\ r.failed = run.failed /\ r.skips = run.skips
      /\ r.kinds = run.kinds /\ r.skipped_files = run.skipped_files /\ r.failures = run.failures
      /\ r.stopped = less
      /\ r = [files |-> r.files, passed |-> r.passed, failed |-> r.failed, skips |-> r.skips,
              kinds |-> r.kinds, skipped_files |-> r.skipped_files, stopped |-> r.stopped,
              failures |-> r.failures]
  <2>1. run = [files |-> run.files, passed |-> run.passed, failed |-> run.failed, skips |-> run.skips,
               kinds |-> run.kinds, skipped_files |-> run.skipped_files, stopped |-> run.stopped,
               failures |-> run.failures]
    BY Zenon DEF TheWire!IsRun
  <2>2. r = [run EXCEPT !.stopped = less]
    BY Zenon DEF TheWire!InSeconds
  <2> HIDE DEF less, r, list
  <2> QED BY <2>1, <2>2
<1> HIDE DEF r, list, less
<1>3. /\ less \in Seq(TheWire!Stops) /\ DOMAIN less = DOMAIN list
      /\ \A i \in DOMAIN list : list[i] \in TheWire!Stops /\ less[i] = TheWire!ToTheSecond(list[i])
  <2>1. \A i \in DOMAIN list : list[i] \in TheWire!Stops
    BY <1>1
  <2>2. \A i \in DOMAIN list : TheWire!ToTheSecond(list[i]) \in TheWire!Stops
    BY <2>1, SecondsOnly
  <2>3. DOMAIN list = 1..Len(list) /\ Len(list) \in Nat
    BY <1>1
  <2>4. less \in Seq(TheWire!Stops)
    BY <2>2, <2>3 DEF less
  <2> QED BY <2>1, <2>4 DEF less
<1>4. TheWire!IsRun(r)
  BY <1>2, <1>3, Zenon DEF TheWire!IsRun
<1>5. Even(r)
  BY <1>2, <1>3, SecondsOnly DEF Even
<1>6. StopLines(r) = StopLines(run)
  <2>1. \A i \in DOMAIN list : TheWire!StopLine(less[i]) = TheWire!StopLine(list[i])
    BY <1>3, SecondsOnly
  <2>2. [i \in DOMAIN less |-> TheWire!StopLine(less[i])] = [i \in DOMAIN list |-> TheWire!StopLine(list[i])]
    BY <1>3, <2>1
  <2> QED BY <1>2, <2>2 DEF StopLines, list
<1>7. /\ HeadLines(r) = HeadLines(run) /\ KindLines(r) = KindLines(run)
      /\ SkipLines(r) = SkipLines(run) /\ FailureLines(r) = FailureLines(run)
  BY <1>2, Zenon DEF HeadLines, KindLines, SkipLines, FailureLines, Listing, CountsLine, RestLine
<1>8. TheWire!Lines(r) = TheWire!Lines(run)
  BY <1>6, <1>7, LinesAre
<1>9. TheWire!Encode(r) = TheWire!Encode(run)
  BY <1>8 DEF TheWire!Encode
<1> QED BY <1>4, <1>5, <1>9 DEF r

LEMMA TextsAreRead ==
  ASSUME NEW run, TheWire!IsRun(run), NEW T, T = TheWire!Encode(run), NEW r, r = TheWire!InSeconds(run)
  PROVE  /\ TheWire!ReadLines(T) = r /\ TheWire!DecodeChild(T) = r
         /\ \A i \in DOMAIN T : T[i] = "newline" => TheWire!DecodeChild(Noisy(T, i)) = r
         /\ \A n \in 0..(Len(T) - 1) : TheWire!NoMore(TheWire!ReadLines(SubSeq(T, 1, n)), r)
<1>1. TheWire!IsRun(r) /\ Even(r) /\ T = TheWire!Encode(r)
  BY InSecondsIsEven
<1> QED BY <1>1, EvenTextsAreRead

LEMMA SilenceIsRead ==
  TheWire!DecodeChild(<<>>) = [TheWire!Nobody EXCEPT !.files = 1, !.stopped = <<TheWire!SaidNothing>>]
<1>1. TheWire!ReadLines(<<>>) = TheWire!Nobody /\ ~TheWire!Counted(<<>>)
  BY NothingSays, WholeLinesAreRead
<1>2. TheWire!Nobody.stopped = <<>>
  BY DEF TheWire!Nobody
<1>3. \A x : Append(<<>>, x) = <<x>>
  OBVIOUS
<1>4. TheWire!DecodeChild(<<>>)
        = [TheWire!Nobody EXCEPT !.files = 1, !.stopped = Append(@, TheWire!SaidNothing)]
  BY <1>1 DEF TheWire!DecodeChild
<1> DEFINE N == TheWire!Nobody
           e == TheWire!SaidNothing
<1> HIDE DEF N, e
<1>5. [N EXCEPT !.files = 1, !.stopped = Append(@, e)] = [N EXCEPT !.files = 1, !.stopped = <<e>>]
  <2>1. Append(N.stopped, e) = <<e>>
    BY <1>2, <1>3 DEF N
  <2>2. [N EXCEPT !.files = 1].stopped = N.stopped
    BY DEF N, TheWire!Nobody
  <2> QED BY <2>1, <2>2
<1> QED BY <1>4, <1>5 DEF N, e

-----------------------------------------------------------------------------
(***************************************************************************)
(* Many runs that were read are added up.                                  *)
(***************************************************************************)
FailuresOf(list) == [i \in DOMAIN list |-> list[i].failures]

\* What was added up is what each of them said.
TotalIs(total, list) ==
  /\ total.failures = TheWire!Concat(FailuresOf(list))
  /\ total.passed = TheWire!PassedBy(list)
  /\ KindsShape(total.kinds)
  /\ \A k \in Surface : /\ Pass(total.kinds, k) > 0 <=> \E i \in DOMAIN list : Pass(list[i].kinds, k) > 0
                        /\ Fail(total.kinds, k) > 0 <=> \E i \in DOMAIN list : Fail(list[i].kinds, k) > 0

LEMMA ChosenRuns ==
  ASSUME NEW run \in SummariesRun
  PROVE  TheWire!IsRun(run)
BY ToolsAssumption DEF ToolsAssumption

LEMMA NothingAddedUp == TotalIs(TheWire!Nobody, <<>>)
<1>1. FailuresOf(<<>>) = <<>> /\ DOMAIN <<>> = {}
  BY DEF FailuresOf
<1>2. <<>> \in Seq({})
  OBVIOUS
<1>3. TheWire!Concat(<<>>) = <<>> /\ TheWire!PassedBy(<<>>) = 0
  BY <1>2, ConcatSteps, PassedSteps
<1> DEFINE K == TheWire!NoKinds
<1>4. TheWire!Nobody.failures = <<>> /\ TheWire!Nobody.passed = 0 /\ TheWire!Nobody.kinds = K
  BY DEF TheWire!Nobody
<1>5. K.seen = [k \in {} |-> TheWire!NoTally] /\ K.unclassified = 0 /\ K = [seen |-> K.seen, unclassified |-> K.unclassified]
  BY DEF TheWire!NoKinds
<1> HIDE DEF K
<1>6. KindsShape(K)
  <2>1. DOMAIN K.seen = {}
    BY <1>5
  <2>2. K.seen \in [{} -> [passed : Nat, failed : Nat]]
    BY <1>5
  <2> QED BY <1>5, <2>1, <2>2 DEF KindsShape
<1>7. \A k : Pass(K, k) = 0 /\ Fail(K, k) = 0
  <2> TAKE k
  <2>1. k \notin DOMAIN K.seen
    BY <1>5
  <2>2. TheWire!TallyOf(K, k) = TheWire!NoTally
    BY <2>1 DEF TheWire!TallyOf
  <2> QED BY <2>2 DEF Pass, Fail, TheWire!NoTally
<1>8. ~(0 > 0)
  OBVIOUS
<1> QED BY <1>1, <1>3, <1>4, <1>6, <1>7, <1>8 DEF TotalIs

LEMMA KindsAdd ==
  ASSUME NEW a, NEW b, KindsShape(a), KindsShape(b)
  PROVE  /\ KindsShape(TheWire!AbsorbKinds(a, b))
         /\ \A k : /\ Pass(TheWire!AbsorbKinds(a, b), k) = Pass(a, k) + Pass(b, k)
                   /\ Fail(TheWire!AbsorbKinds(a, b), k) = Fail(a, k) + Fail(b, k)
<1> DEFINE c == TheWire!AbsorbKinds(a, b)
           D == DOMAIN a.seen \cup DOMAIN b.seen
           S(k) == [passed |-> Pass(a, k) + Pass(b, k), failed |-> Fail(a, k) + Fail(b, k)]
           E == [passed : Nat, failed : Nat]
<1>1. c = [seen |-> [k \in D |-> S(k)], unclassified |-> a.unclassified + b.unclassified]
  BY DEF TheWire!AbsorbKinds, Pass, Fail
<1>2. \A k : Pass(a, k) \in Nat /\ Fail(a, k) \in Nat /\ Pass(b, k) \in Nat /\ Fail(b, k) \in Nat
  BY TalliesAreNumbers
<1>3. \A k : S(k) \in E
  BY <1>2
<1>4. a.unclassified + b.unclassified \in Nat
  BY DEF KindsShape
<1> HIDE DEF c, D
<1>5. c.seen = [k \in D |-> S(k)] /\ c.unclassified = a.unclassified + b.unclassified
      /\ c = [seen |-> c.seen, unclassified |-> c.unclassified]
  BY <1>1
<1>6. KindsShape(c)
  <2> HIDE DEF S, E
  <2>1. c.seen \in [D -> E] /\ DOMAIN c.seen = D
    BY <1>3, <1>5
  <2> QED BY <1>4, <1>5, <2>1 DEF KindsShape, E
<1>7. \A k : Pass(c, k) = Pass(a, k) + Pass(b, k) /\ Fail(c, k) = Fail(a, k) + Fail(b, k)
  <2> TAKE k
  <2>1. CASE k \in D
    <3>1. TheWire!TallyOf(c, k) = S(k)
      BY <1>5, <2>1 DEF TheWire!TallyOf
    <3> QED BY <3>1 DEF Pass, Fail
  <2>2. CASE k \notin D
    <3>1. TheWire!TallyOf(c, k) = TheWire!NoTally
      BY <1>5, <2>2 DEF TheWire!TallyOf
    <3>2. TheWire!TallyOf(a, k) = TheWire!NoTally /\ TheWire!TallyOf(b, k) = TheWire!NoTally
      BY <2>2, Zenon DEF TheWire!TallyOf, D
    <3> QED BY <3>1, <3>2 DEF Pass, Fail, TheWire!NoTally
  <2> QED BY <2>1, <2>2
<1> QED BY <1>6, <1>7 DEF c

LEMMA FailuresMore ==
  ASSUME NEW list \in Seq(SummariesRun), NEW run \in SummariesRun
  PROVE  TheWire!Concat(FailuresOf(Append(list, run))) = TheWire!Concat(FailuresOf(list)) \o run.failures
<1> DEFINE A == Append(list, run)
           E == Seq(TheWire!Failures)
           f == run.failures
           S == FailuresOf(list)
           n == Len(list)
<1>1. \A r \in SummariesRun : r.failures \in E
  BY ChosenRuns, RunShape
<1>2. n \in Nat /\ DOMAIN list = 1..n /\ \A i \in 1..n : list[i] \in SummariesRun
  OBVIOUS
<1>3. A = [i \in 1..(n + 1) |-> IF i = n + 1 THEN run ELSE list[i]]
  BY AppendIs
<1> HIDE DEF n, A, E
<1>4. S = [i \in 1..n |-> S[i]] /\ (\A i \in 1..n : S[i] = list[i].failures) /\ \A i \in 1..n : S[i] \in E
  BY <1>1, <1>2 DEF FailuresOf
<1>5. FailuresOf(A) = [i \in 1..(n + 1) |-> IF i = n + 1 THEN f ELSE S[i]]
  <2>1. DOMAIN A = 1..(n + 1)
    BY <1>3
  <2>2. FailuresOf(A) = [i \in 1..(n + 1) |-> A[i].failures]
    BY <2>1 DEF FailuresOf
  <2>3. ASSUME NEW i \in 1..(n + 1)
        PROVE  A[i].failures = IF i = n + 1 THEN f ELSE S[i]
    <3>1. CASE i = n + 1
      BY <1>3, <3>1
    <3>2. CASE i # n + 1
      <4>1. i \in 1..n
        BY <1>2, <3>2
      <4> QED BY <1>3, <1>4, <3>2, <4>1
    <3> QED BY <3>1, <3>2
  <2> QED BY <2>2, <2>3
<1> HIDE DEF S, f
<1>6. S \in Seq(E) /\ f \in E
  BY <1>1, <1>2, <1>4 DEF f
<1>7. Len(S) = n
  BY <1>2, <1>4
<1>8. Append(S, f) = [i \in 1..(Len(S) + 1) |-> IF i = Len(S) + 1 THEN f ELSE S[i]]
  BY <1>6, AppendIs
<1>9. FailuresOf(A) = Append(S, f)
  BY <1>5, <1>7, <1>8
<1>10. TheWire!Concat(Append(S, f)) = TheWire!Concat(S) \o f
  BY <1>6, ConcatSteps
<1> QED BY <1>9, <1>10 DEF S, f, A

LEMMA OneMoreAddedUp ==
  ASSUME NEW list \in Seq(SummariesRun), NEW run \in SummariesRun, NEW total, TotalIs(total, list)
  PROVE  TotalIs(TheWire!Absorb(total, run), Append(list, run))
<1> DEFINE A == Append(list, run)
           t == TheWire!Absorb(total, run)
           n == Len(list)
           K == TheWire!AbsorbKinds(total.kinds, run.kinds)
<1>1. t.failures = total.failures \o run.failures /\ t.passed = total.passed + run.passed /\ t.kinds = K
  BY DEF TheWire!Absorb
<1>2. t.failures = TheWire!Concat(FailuresOf(A))
  BY <1>1, FailuresMore DEF TotalIs
<1>3. t.passed = TheWire!PassedBy(A)
  <2>1. TheWire!PassedBy(A) = TheWire!PassedBy(list) + run.passed
    BY PassedSteps
  <2> QED BY <1>1, <2>1 DEF TotalIs
<1>4. KindsShape(total.kinds) /\ KindsShape(run.kinds)
  BY ChosenRuns, RunKinds DEF TotalIs
<1>5. KindsShape(K) /\ \A k : Pass(K, k) = Pass(total.kinds, k) + Pass(run.kinds, k)
                           /\ Fail(K, k) = Fail(total.kinds, k) + Fail(run.kinds, k)
  BY <1>4, KindsAdd
<1>6. n \in Nat /\ DOMAIN list = 1..n /\ DOMAIN A = 1..(n + 1) /\ A[n + 1] = run
      /\ (\A i \in 1..n : A[i] = list[i]) /\ n + 1 \in 1..(n + 1)
      /\ (\A i \in 1..(n + 1) : i \in 1..n \/ i = n + 1)
      /\ \A i \in 1..n : i \in 1..(n + 1)
  <2>1. A = [i \in 1..(n + 1) |-> IF i = n + 1 THEN run ELSE list[i]] /\ n \in Nat /\ DOMAIN list = 1..n
    BY AppendIs
  <2> HIDE DEF A, n
  <2>2. DOMAIN A = 1..(n + 1) /\ A[n + 1] = run /\ \A i \in 1..n : A[i] = list[i]
    BY <2>1
  <2>3. n + 1 \in 1..(n + 1) /\ (\A i \in 1..(n + 1) : i \in 1..n \/ i = n + 1)
        /\ \A i \in 1..n : i \in 1..(n + 1)
    BY <2>1
  <2> QED BY <2>1, <2>2, <2>3
<1> HIDE DEF A, t, K, n
<1>7. ASSUME NEW k \in Surface
      PROVE  /\ Pass(K, k) > 0 <=> \E i \in DOMAIN A : Pass(A[i].kinds, k) > 0
             /\ Fail(K, k) > 0 <=> \E i \in DOMAIN A : Fail(A[i].kinds, k) > 0
  <2> DEFINE p == Pass(total.kinds, k)
             q == Pass(run.kinds, k)
             u == Fail(total.kinds, k)
             v == Fail(run.kinds, k)
  <2>1. p \in Nat /\ q \in Nat /\ u \in Nat /\ v \in Nat
    BY <1>4, TalliesAreNumbers
  <2>2. Pass(K, k) = p + q /\ Fail(K, k) = u + v
    BY <1>5
  <2>3. p > 0 <=> \E i \in DOMAIN list : Pass(list[i].kinds, k) > 0
    BY DEF TotalIs
  <2>4. u > 0 <=> \E i \in DOMAIN list : Fail(list[i].kinds, k) > 0
    BY DEF TotalIs
  <2> DEFINE P(i) == Pass(A[i].kinds, k) > 0
             F(i) == Fail(A[i].kinds, k) > 0
  <2>5. (\E i \in DOMAIN A : P(i)) <=> p > 0 \/ q > 0
    BY <1>6, <2>3, Zenon
  <2>6. (\E i \in DOMAIN A : F(i)) <=> u > 0 \/ v > 0
    BY <1>6, <2>4, Zenon
  <2> HIDE DEF p, q, u, v
  <2>7. (p + q > 0 <=> p > 0 \/ q > 0) /\ (u + v > 0 <=> u > 0 \/ v > 0)
    BY <2>1
  <2> QED BY <2>2, <2>5, <2>6, <2>7
<1> QED BY <1>1, <1>2, <1>3, <1>5, <1>7, Zenon DEF TotalIs, A, t

LEMMA Percent ==
  ASSUME NEW c \in Nat, NEW s \in Nat, s > 0, (100 * c) \div s = 100
  PROVE  c >= s
<1> DEFINE x == 100 * c
<1>1. x \in Int /\ s \in Int
  OBVIOUS
<1> HIDE DEF x
<1>2. x = s * (x \div s) + (x % s) /\ x % s >= 0
  BY <1>1
<1>3. x \div s = 100
  BY DEF x
<1>4. x % s \in Int
  BY <1>1
<1>5. x >= 100 * s
  BY <1>1, <1>2, <1>3, <1>4
<1> QED BY <1>5 DEF x

LEMMA SupportIs ==
  ASSUME NEW kinds, KindsShape(kinds), NEW k
  PROVE  /\ TheWire!IsSupported(TheWire!TallyOf(kinds, k)) <=> Pass(kinds, k) > 0 /\ ~(Fail(kinds, k) > 0)
         /\ TheWire!TallyOf(kinds, k) = TheWire!NoTally <=> ~(Pass(kinds, k) > 0) /\ ~(Fail(kinds, k) > 0)
<1> DEFINE t == TheWire!TallyOf(kinds, k)
<1>1. t \in [passed : Nat, failed : Nat] /\ Pass(kinds, k) = t.passed /\ Fail(kinds, k) = t.failed
  BY TalliesAreNumbers, Zenon DEF Pass, Fail
<1> HIDE DEF t
<1>2. t = [passed |-> t.passed, failed |-> t.failed] /\ t.passed \in Nat /\ t.failed \in Nat
  BY <1>1
<1>3. TheWire!IsSupported(t) <=> t.passed > 0 /\ ~(t.failed > 0)
  BY <1>2 DEF TheWire!IsSupported
<1>4. t = TheWire!NoTally <=> ~(t.passed > 0) /\ ~(t.failed > 0)
  BY <1>2 DEF TheWire!NoTally
<1> QED BY <1>1, <1>3, <1>4 DEF t

LEMMA FullMeansNoneFails ==
  ASSUME NEW kinds, KindsShape(kinds), TheWire!Rate(kinds) = 100
  PROVE  TheWire!Failing(kinds) = {}
<1> DEFINE S == TheWire!Supported(kinds)
<1>1. S \subseteq Surface /\ IsFiniteSet(Surface)
  BY ToolsAssumption DEF ToolsAssumption, TheWire!Supported
<1>2. Surface # {}
  BY DEF TheWire!Rate
<1>3. (100 * Cardinality(S)) \div Cardinality(Surface) = 100
  BY <1>2, WireCardinality DEF TheWire!Rate
<1> HIDE DEF S
<1>4. IsFiniteSet(S) /\ Cardinality(S) <= Cardinality(Surface)
      /\ (Cardinality(S) = Cardinality(Surface) => S = Surface)
  BY <1>1, FS_Subset
<1>5. Cardinality(S) \in Nat /\ Cardinality(Surface) \in Nat
  BY <1>1, <1>4, FS_CardinalityType
<1>6. Cardinality(Surface) > 0
  BY <1>1, <1>2, <1>5, FS_EmptySet
<1>7. Cardinality(S) >= Cardinality(Surface)
  BY <1>3, <1>5, <1>6, Percent
<1>8. S = Surface
  BY <1>4, <1>5, <1>7
<1>9. ASSUME NEW k \in Surface PROVE ~(TheWire!TallyOf(kinds, k).failed > 0)
  <2>1. TheWire!IsSupported(TheWire!TallyOf(kinds, k))
    BY <1>8 DEF S, TheWire!Supported
  <2> QED BY <2>1, SupportIs DEF Fail
<1> QED BY <1>9 DEF TheWire!Failing

LEMMA TotalIsTheSum ==
  ASSUME NEW total, NEW list, TotalIs(total, list)
  PROVE  LET Saw(k, what) == \E i \in DOMAIN list : TheWire!TallyOf(list[i].kinds, k)[what] > 0
         IN  /\ total.failures = TheWire!Concat([i \in DOMAIN list |-> list[i].failures])
             /\ total.passed = TheWire!PassedBy(list)
             /\ TheWire!Supported(total.kinds) = {k \in Surface : Saw(k, "passed") /\ ~Saw(k, "failed")}
             /\ TheWire!Untouched(total.kinds) = {k \in Surface : ~Saw(k, "passed") /\ ~Saw(k, "failed")}
             /\ TheWire!Rate(total.kinds) = 100 => TheWire!Failing(total.kinds) = {}
<1> DEFINE Saw(k, what) == \E i \in DOMAIN list : TheWire!TallyOf(list[i].kinds, k)[what] > 0
           K == total.kinds
<1>1. KindsShape(K)
  BY DEF TotalIs
<1>2. total.failures = TheWire!Concat([i \in DOMAIN list |-> list[i].failures])
      /\ total.passed = TheWire!PassedBy(list)
  BY DEF TotalIs, FailuresOf
<1>3. ASSUME NEW k \in Surface
      PROVE  (Pass(K, k) > 0 <=> Saw(k, "passed")) /\ (Fail(K, k) > 0 <=> Saw(k, "failed"))
  BY DEF TotalIs, Pass, Fail
<1> HIDE DEF K, Saw
<1>4. TheWire!Supported(K) = {k \in Surface : Saw(k, "passed") /\ ~Saw(k, "failed")}
  <2>1. ASSUME NEW k \in Surface
        PROVE  TheWire!IsSupported(TheWire!TallyOf(K, k)) <=> Saw(k, "passed") /\ ~Saw(k, "failed")
    BY <1>1, <1>3, SupportIs, Zenon
  <2> QED BY <2>1 DEF TheWire!Supported
<1>5. TheWire!Untouched(K) = {k \in Surface : ~Saw(k, "passed") /\ ~Saw(k, "failed")}
  <2>1. ASSUME NEW k \in Surface
        PROVE  TheWire!TallyOf(K, k) = TheWire!NoTally <=> ~Saw(k, "passed") /\ ~Saw(k, "failed")
    BY <1>1, <1>3, SupportIs, Zenon
  <2> QED BY <2>1 DEF TheWire!Untouched
<1>6. TheWire!Rate(K) = 100 => TheWire!Failing(K) = {}
  BY <1>1, FullMeansNoneFails
<1> QED BY <1>2, <1>4, <1>5, <1>6, Zenon DEF K, Saw

-----------------------------------------------------------------------------
(***************************************************************************)
(* wire.  The invariant says where the text that is there comes from, and  *)
(* that what was added up so far is the sum of what was read whole.        *)
(***************************************************************************)
TextStates == {"nothing", "whole", "mixed", "torn", "empty",
               "read whole", "read mixed", "read torn", "read empty"}

WireTypeInv ==
  /\ torn \in TextStates
  /\ torn # "nothing" => written \in SummariesRun
  /\ wholes \in Seq(SummariesRun)

TextInv ==
  LET T == TheWire!Encode(written)
  IN  /\ torn = "whole" => text = T
      /\ torn = "mixed" => \E i \in DOMAIN T : T[i] = "newline" /\ text = Noisy(T, i)
      /\ torn = "torn"  => \E n \in 0..(Len(T) - 1) : text = SubSeq(T, 1, n)
      /\ torn = "empty" => text = <<>>

SumInv ==
  /\ torn \in {"nothing", "whole", "mixed"} => TotalIs(wire_total, wholes)
  /\ torn \in {"read whole", "read mixed"} => TotalIs(wire_total, Append(wholes, written))

WireInv ==
  /\ WireTypeInv
  /\ TextInv
  /\ SumInv
  /\ WireKeepsTheRun

LEMMA WireInitHolds == TheWire!Init => WireInv
<1> SUFFICES ASSUME TheWire!Init PROVE WireInv
  OBVIOUS
<1>1. torn = "nothing" /\ wholes = <<>> /\ wire_total = TheWire!Nobody
  BY DEF TheWire!Init
<1>2. WireTypeInv
  <2>1. wholes \in Seq(SummariesRun)
    BY <1>1
  <2> QED BY <1>1, <2>1 DEF WireTypeInv, TextStates
<1>3. TextInv
  BY <1>1 DEF TextInv
<1>4. SumInv
  BY <1>1, NothingAddedUp DEF SumInv
<1>5. WireKeepsTheRun
  BY <1>1 DEF WireKeepsTheRun, TheWire!WireKeepsTheRun
<1> QED BY <1>2, <1>3, <1>4, <1>5 DEF WireInv

LEMMA WireStays == WireInv /\ UNCHANGED wireVars => WireInv'
BY DEF WireInv, WireTypeInv, TextInv, SumInv, WireKeepsTheRun, TheWire!WireKeepsTheRun, wireVars

\* What is read keeps the run, and goes into the total when it is all there.
LEMMA FoldKeeps ==
  ASSUME WireInv, NEW run, TheWire!Fold(run),
         \/ torn \in {"whole", "mixed"} /\ run = TheWire!InSeconds(written)
         \/ torn = "torn" /\ TheWire!NoMore(run, TheWire!InSeconds(written))
         \/ torn = "empty" /\ run = [TheWire!Nobody EXCEPT !.files = 1, !.stopped = <<TheWire!SaidNothing>>]
  PROVE  WireInv'
<1>1. /\ decoded' = run /\ wire_total' = TheWire!Absorb(wire_total, run)
      /\ torn' = TheWire!Read(torn) /\ written' = written /\ text' = text /\ wholes' = wholes
  BY DEF TheWire!Fold
<1>2. torn \in {"whole", "mixed", "torn", "empty"}
  OBVIOUS
<1>3. torn' = (CASE torn = "whole" -> "read whole" [] torn = "mixed" -> "read mixed"
                 [] torn = "torn" -> "read torn" [] torn = "empty" -> "read empty")
  BY <1>1 DEF TheWire!Read
<1>4. WireTypeInv'
  <2>1. torn' \in TextStates
    BY <1>2, <1>3 DEF TextStates
  <2>2. written' \in SummariesRun /\ wholes' \in Seq(SummariesRun)
    BY <1>1, <1>2 DEF WireInv, WireTypeInv
  <2> QED BY <2>1, <2>2 DEF WireTypeInv
<1>5. torn' \notin {"nothing", "whole", "mixed", "torn", "empty"}
  BY <1>2, <1>3
<1>6. TextInv'
  BY <1>5 DEF TextInv
<1>7. SumInv'
  <2>1. CASE torn \in {"whole", "mixed"}
    <3>1. run = TheWire!InSeconds(written) /\ written \in SummariesRun /\ wholes \in Seq(SummariesRun) /\ TotalIs(wire_total, wholes)
      BY <2>1 DEF WireInv, WireTypeInv, SumInv
    <3>2. TotalIs(TheWire!Absorb(wire_total, written), Append(wholes, written))
      BY <3>1, OneMoreAddedUp
    <3>3. run.failures = written.failures /\ run.passed = written.passed /\ run.kinds = written.kinds
      <4>1. TheWire!IsRun(written)
        BY <3>1, ChosenRuns
      <4> QED BY <3>1, <4>1 DEF TheWire!InSeconds, TheWire!IsRun
    <3> DEFINE t == TheWire!Absorb(wire_total, written)
               u == TheWire!Absorb(wire_total, run)
    <3>4. u.failures = t.failures /\ u.passed = t.passed /\ u.kinds = t.kinds
      BY <3>3 DEF TheWire!Absorb
    <3> HIDE DEF t, u
    <3>5. TotalIs(u, Append(wholes, written))
      BY <3>2, <3>4 DEF TotalIs, t
    <3>6. TotalIs(wire_total', Append(wholes', written'))
      BY <1>1, <3>5 DEF u
    <3> QED BY <1>5, <3>6 DEF SumInv
  <2>2. CASE torn \in {"torn", "empty"}
    <3>1. torn' \in {"read torn", "read empty"}
      BY <1>3, <2>2
    <3> QED BY <3>1 DEF SumInv
  <2> QED BY <1>2, <2>1, <2>2
<1>8. WireKeepsTheRun'
  <2>1. CASE torn \in {"whole", "mixed"}
    <3>1. torn' \in {"read whole", "read mixed"} /\ decoded' = TheWire!InSeconds(written')
      BY <1>1, <1>3, <2>1
    <3> QED BY <3>1 DEF WireKeepsTheRun, TheWire!WireKeepsTheRun, TheWire!InSeconds, TheWire!ToTheSecond
  <2>2. CASE torn = "torn"
    <3>1. torn' = "read torn" /\ TheWire!NoMore(decoded', TheWire!InSeconds(written'))
      BY <1>1, <1>3, <2>2
    <3> QED BY <3>1, Zenon DEF WireKeepsTheRun, TheWire!WireKeepsTheRun, TheWire!NoMore, TheWire!Begins,
                               TheWire!TallyOf, TheWire!InSeconds, TheWire!ToTheSecond
  <2>3. CASE torn = "empty"
    <3>1. torn' = "read empty"
          /\ decoded' = [TheWire!Nobody EXCEPT !.files = 1, !.stopped = <<TheWire!SaidNothing>>]
      BY <1>1, <1>3, <2>3
    <3> QED BY <3>1 DEF WireKeepsTheRun, TheWire!WireKeepsTheRun
  <2> QED BY <1>2, <2>1, <2>2, <2>3
<1> QED BY <1>4, <1>6, <1>7, <1>8 DEF WireInv

LEMMA WiringKeeps ==
  ASSUME WireInv, TheWire!Next
  PROVE  WireInv'
<1> DEFINE T == TheWire!Encode(written)
<1>1. CASE TheWire!WriteOut
  <2>1. /\ torn = "nothing" /\ written' \in SummariesRun /\ text' = TheWire!Encode(written')
        /\ torn' = "whole" /\ wire_total' = wire_total /\ wholes' = wholes
    BY <1>1 DEF TheWire!WriteOut
  <2>2. WireTypeInv'
    BY <2>1 DEF WireInv, WireTypeInv, TextStates
  <2>3. TextInv'
    BY <2>1 DEF TextInv
  <2>4. SumInv'
    BY <2>1 DEF WireInv, SumInv
  <2>5. WireKeepsTheRun'
    BY <2>1 DEF WireKeepsTheRun, TheWire!WireKeepsTheRun
  <2> QED BY <2>2, <2>3, <2>4, <2>5 DEF WireInv
<1>2. CASE TheWire!SaySomething
  <2>1. /\ torn = "whole" /\ torn' = "mixed" /\ written' = written /\ wire_total' = wire_total /\ wholes' = wholes
        /\ \E i \in DOMAIN text : text[i] = "newline" /\ text' = Noisy(text, i)
    BY <1>2 DEF TheWire!SaySomething, Noisy
  <2>2. text = T /\ written \in SummariesRun
    BY <2>1 DEF WireInv, TextInv, WireTypeInv
  <2>3. WireTypeInv'
    BY <2>1, <2>2 DEF WireInv, WireTypeInv, TextStates
  <2>4. TextInv'
    BY <2>1, <2>2 DEF TextInv
  <2>5. SumInv'
    BY <2>1 DEF WireInv, SumInv
  <2>6. WireKeepsTheRun'
    BY <2>1 DEF WireKeepsTheRun, TheWire!WireKeepsTheRun
  <2> QED BY <2>3, <2>4, <2>5, <2>6 DEF WireInv
<1>3. CASE TheWire!Tear
  <2>1. /\ torn = "whole" /\ torn' = (IF text' = <<>> THEN "empty" ELSE "torn")
        /\ written' = written /\ wire_total' = wire_total /\ wholes' = wholes
        /\ \E n \in 0..(Len(text) - 1) : text' = SubSeq(text, 1, n)
    BY <1>3 DEF TheWire!Tear
  <2>2. text = T /\ written \in SummariesRun
    BY <2>1 DEF WireInv, TextInv, WireTypeInv
  <2>3. torn' \in {"empty", "torn"} /\ (torn' = "empty" => text' = <<>>)
    BY <2>1
  <2>4. WireTypeInv'
    BY <2>1, <2>2, <2>3 DEF WireInv, WireTypeInv, TextStates
  <2>5. TextInv'
    BY <2>1, <2>2, <2>3 DEF TextInv
  <2>6. SumInv'
    BY <2>3 DEF SumInv
  <2>7. WireKeepsTheRun'
    BY <2>3 DEF WireKeepsTheRun, TheWire!WireKeepsTheRun
  <2> QED BY <2>4, <2>5, <2>6, <2>7 DEF WireInv
<1>4. CASE TheWire!ReadChild \/ TheWire!ReadShard
  <2>1. torn \in {"whole", "mixed", "torn", "empty"}
    BY <1>4 DEF TheWire!ReadChild, TheWire!ReadShard
  <2>2. written \in SummariesRun
    BY <2>1 DEF WireInv, WireTypeInv
  <2>3. TheWire!IsRun(written)
    BY <2>2, ChosenRuns
  <2> DEFINE R == TheWire!InSeconds(written)
  <2> HIDE DEF T
  <2>4. /\ TheWire!ReadLines(T) = R /\ TheWire!DecodeChild(T) = R
        /\ \A i \in DOMAIN T : T[i] = "newline" => TheWire!DecodeChild(Noisy(T, i)) = R
        /\ \A n \in 0..(Len(T) - 1) : TheWire!NoMore(TheWire!ReadLines(SubSeq(T, 1, n)), R)
    BY <2>3, TextsAreRead DEF T
  <2>5. /\ torn = "whole" => text = T
        /\ torn = "mixed" => \E i \in DOMAIN T : T[i] = "newline" /\ text = Noisy(T, i)
        /\ torn = "torn"  => \E n \in 0..(Len(T) - 1) : text = SubSeq(T, 1, n)
        /\ torn = "empty" => text = <<>>
    BY DEF WireInv, TextInv, T
  <2>6. CASE TheWire!ReadChild
    <3>1. torn \in {"whole", "mixed", "empty"} /\ TheWire!Fold(TheWire!DecodeChild(text))
      BY <2>6 DEF TheWire!ReadChild
    <3>2. torn \in {"whole", "mixed"} => TheWire!DecodeChild(text) = R
      BY <2>4, <2>5
    <3>3. torn = "empty" => TheWire!DecodeChild(text)
            = [TheWire!Nobody EXCEPT !.files = 1, !.stopped = <<TheWire!SaidNothing>>]
      BY <2>5, SilenceIsRead
    <3> QED BY <3>1, <3>2, <3>3, FoldKeeps
  <2>7. CASE TheWire!ReadShard
    <3>1. torn \in {"whole", "torn"} /\ TheWire!Fold(TheWire!ReadLines(text))
      BY <2>7 DEF TheWire!ReadShard
    <3>2. torn = "whole" => TheWire!ReadLines(text) = R
      BY <2>4, <2>5
    <3>3. torn = "torn" => TheWire!NoMore(TheWire!ReadLines(text), R)
      BY <2>4, <2>5
    <3> QED BY <3>1, <3>2, <3>3, FoldKeeps
  <2> QED BY <1>4, <2>6, <2>7
<1>5. CASE TheWire!Another
  <2>1. /\ torn \in {"read whole", "read mixed"} /\ torn' = "nothing"
        /\ wholes' = Append(wholes, written) /\ wire_total' = wire_total
    BY <1>5 DEF TheWire!Another
  <2>2. written \in SummariesRun /\ wholes \in Seq(SummariesRun) /\ TotalIs(wire_total, Append(wholes, written))
    BY <2>1 DEF WireInv, WireTypeInv, SumInv
  <2>3. WireTypeInv'
    <3>1. Append(wholes, written) \in Seq(SummariesRun)
      BY <2>2
    <3> QED BY <2>1, <3>1 DEF WireTypeInv, TextStates
  <2>4. TextInv'
    BY <2>1 DEF TextInv
  <2>5. SumInv'
    BY <2>1, <2>2 DEF SumInv
  <2>6. WireKeepsTheRun'
    BY <2>1 DEF WireKeepsTheRun, TheWire!WireKeepsTheRun
  <2> QED BY <2>3, <2>4, <2>5, <2>6 DEF WireInv
<1> QED BY <1>1, <1>2, <1>3, <1>4, <1>5 DEF TheWire!Next

LEMMA WireSums == WireInv => TheWire!SumIsOfTheRuns
<1> SUFFICES ASSUME WireInv, torn = "nothing"
             PROVE  LET Saw(k, what) == \E i \in DOMAIN wholes : TheWire!TallyOf(wholes[i].kinds, k)[what] > 0
                    IN  /\ wire_total.failures = TheWire!Concat([i \in DOMAIN wholes |-> wholes[i].failures])
                        /\ wire_total.passed = TheWire!PassedBy(wholes)
                        /\ TheWire!Supported(wire_total.kinds)
                             = {k \in Surface : Saw(k, "passed") /\ ~Saw(k, "failed")}
                        /\ TheWire!Untouched(wire_total.kinds)
                             = {k \in Surface : ~Saw(k, "passed") /\ ~Saw(k, "failed")}
                        /\ TheWire!Rate(wire_total.kinds) = 100 => TheWire!Failing(wire_total.kinds) = {}
  BY Zenon DEF TheWire!SumIsOfTheRuns
<1>1. TotalIs(wire_total, wholes)
  BY DEF WireInv, SumInv
<1> QED BY <1>1, TotalIsTheSum, Zenon

-----------------------------------------------------------------------------
(***************************************************************************)
(* All of them.                                                            *)
(***************************************************************************)
IInv ==
  /\ tool \in Tools
  /\ BisectInv
  /\ SweepInv
  /\ OracleInv
  /\ DuckdbInv
  /\ WireInv

LEMMA SweepInitHolds ==
  ASSUME IF tool = "sweep" THEN TheSweep!Init ELSE corpus = <<>> /\ TheSweep!Begin
  PROVE  SweepInv
<1> USE DEF SweepInv
<1>1. TheSweep!Begin /\ (tool = "sweep" => corpus \in Corpora)
  BY DEF TheSweep!Init
<1>2. ConnectionInv
  BY <1>1 DEF TheSweep!Begin, ConnectionInv
<1>3. sweep_run = 0 /\ file = 0 /\ line = 1 /\ company = {} /\ optimizer = "off"
      /\ failures = [r \in TheSweep!Runs |-> {}]
  BY <1>1 DEF TheSweep!Begin
<1>4. CASE tool = "sweep"
  <2>1. corpus \in Corpora /\ Len(corpus) \in Nat /\ Len(Order) \in Nat
    BY <1>1, <1>4, CorpusShape, ToolsAssumption DEF ToolsAssumption
  <2>2. PlaceInv
    BY <1>3, <2>1 DEF PlaceInv
  <2>3. EngineInv
    <3>1. TheSweep!TurnedOff("off") = Optimizers
      BY ToolsAssumption DEF TheSweep!TurnedOff, ToolsAssumption
    <3> QED BY <1>3, <3>1 DEF EngineInv, TheSweep!Own
  <2>4. FailuresInv
    <3> SUFFICES ASSUME NEW r \in TheSweep!Runs, NEW f \in DOMAIN corpus, NEW i \in DOMAIN corpus[f]
                 PROVE  ~LookedAt(r, f, i)
      BY <1>3 DEF FailuresInv
    <3> QED BY <1>3, <2>1, CorpusShape DEF LookedAt, TheSweep!Runs
  <2>5. CompanyInv
    BY <1>3 DEF CompanyInv
  <2> QED BY <1>2, <1>4, <2>2, <2>3, <2>4, <2>5
<1>5. CASE tool # "sweep"
  BY <1>2, <1>3, <1>5
<1> QED BY <1>4, <1>5

LEMMA InitHolds == Init => IInv
<1> SUFFICES ASSUME Init PROVE IInv
  OBVIOUS
<1>1. BisectInv
  <2>1. TheBisect!Init
    BY DEF Init, TheBisect!Init
  <2> QED BY <2>1, BisectInitHolds
<1>2. SweepInv
  BY SweepInitHolds DEF Init
<1>4. OracleInv /\ DuckdbInv /\ WireInv
  BY OracleInitHolds, DuckdbInitHolds, WireInitHolds DEF Init
<1> QED BY <1>1, <1>2, <1>4 DEF Init, IInv

LEMMA NextKeeps == IInv /\ [Next]_vars => IInv'
<1> SUFFICES ASSUME IInv, [Next]_vars PROVE IInv'
  OBVIOUS
<1> USE DEF IInv
<1>1. CASE UNCHANGED vars
  BY <1>1, BisectStays, SweepStays, OraclesStay, DuckdbStays, WireStays DEF vars
<1>2. CASE Bisecting
  BY <1>2, BisectingKeeps, SweepStays, OraclesStay, DuckdbStays, WireStays DEF Bisecting
<1>3. CASE Sweeping
  BY <1>3, BisectStays, SweepingKeeps, OraclesStay, DuckdbStays, WireStays DEF Sweeping
<1>5. CASE AskingBoth
  BY <1>5, BisectStays, SweepStays, AskingKeeps, DuckdbStays, WireStays DEF AskingBoth
<1>6. CASE Driving
  BY <1>6, BisectStays, SweepStays, OraclesStay, DrivingKeeps, WireStays DEF Driving
<1>7. CASE Wiring
  BY <1>7, BisectStays, SweepStays, OraclesStay, DuckdbStays, WiringKeeps DEF Wiring
<1> QED BY <1>1, <1>2, <1>3, <1>5, <1>6, <1>7 DEF Next

LEMMA InvariantHolds == Spec => []IInv
  BY InitHolds, NextKeeps, PTL DEF Spec

-----------------------------------------------------------------------------
\* For any passes and any bugs: the verdict on a statement that only reads names the
\* passes every one of them needs, and says "together" or "elsewhere" only when there
\* are none (`blame` of bisect.rs).
THEOREM BlamesAreExact == Spec => []BlameIsExact
<1>1. IInv => BlameIsExact
  BY DEF IInv, BisectInv, BlameInv, BlameIsExact
<1> QED BY <1>1, InvariantHolds, PTL

\* And the passes are on again wherever the search ends by itself (`agrees`).
THEOREM SettingsArePutBack == Spec => []SettingPutBack
<1>1. IInv => SettingPutBack
  BY DEF IInv, BisectInv, SetInv, SettingPutBack
<1> QED BY <1>1, InvariantHolds, PTL

\* For any corpus, files that set the passes themselves included: a record the sweep
\* names against a pass failed while that pass was the only one on, and where no file
\* sets them the names are exactly those of the bugs (`changed` of sweep.rs).
THEOREM PassesAreNamed == Spec => []NamedPassDidIt
<1>1. IInv => NamedPassDidIt
  BY SweepNames DEF IInv, NamedPassDidIt
<1> QED BY <1>1, InvariantHolds, PTL

\* No statement of a sweep runs on a database that was let go of, whichever connection
\* it names (`reset`, `reconnect` and `run_on` of rudb.rs).
THEOREM DatabasesAreCurrent == Spec => []NothingRunsOnAnOldDatabase
<1>1. IInv => NothingRunsOnAnOldDatabase
  BY DEF IInv, SweepInv, ConnectionInv, NothingRunsOnAnOldDatabase,
         TheSweep!NothingRunsOnAnOldDatabase
<1> QED BY <1>1, InvariantHolds, PTL

\* For any finite set of records and any reasons: the report of the two oracles counts
\* every record one of them reached once and under what both said (`take`, `absorb` and
\* the sums over them of oracles.rs).
THEOREM RecordsAreCountedOnce == Spec => []OraclesCountOnce
<1>1. IInv => OraclesCountOnce
  BY OraclesReport DEF IInv, OraclesCountOnce
<1> QED BY <1>1, InvariantHolds, PTL

\* Every thread is answered with what its own statement came to, for any number of
\* them, whoever times out in between (`Duckdb::run`).
THEOREM AnswersAreTheirOwn == Spec => []AnswerIsItsOwn
<1>1. IInv => AnswerIsItsOwn
  BY DEF IInv, DuckdbInv, AnswerIsItsOwn
<1> QED BY <1>1, InvariantHolds, PTL

\* And a run that failed at nothing leaves no file behind.
THEOREM RunsCleanUp == Spec => []CleansUp
<1>1. IInv => CleansUp
  BY DEF IInv, DuckdbInv, CleansUp
<1> QED BY <1>1, InvariantHolds, PTL

\* For any runs, whatever characters are in their words and however many records they
\* have: a run is read back as it was written, a time down to the whole second and all
\* the rest exactly, other output in between or not; a child that said nothing is a file
\* that was cut off; and a file that ends anywhere says no more than was written
\* (`encode_run`, `decode` and `decode_run` of isolate.rs).
THEOREM RunsComeBack == Spec => []WireKeepsTheRun
<1>1. IInv => WireKeepsTheRun
  BY DEF IInv, WireInv
<1> QED BY <1>1, InvariantHolds, PTL

\* And what any number of them come to together is what each of them said: every
\* failure and every record once, a kind supported when one saw it pass and none saw it
\* fail, and the whole surface only when nothing failed (`absorb` of isolate.rs and of
\* kinds.rs).
THEOREM SumsAreOfTheRuns == Spec => []SumIsOfTheRuns
<1>1. IInv => SumIsOfTheRuns
  BY WireSums DEF IInv, SumIsOfTheRuns
<1> QED BY <1>1, InvariantHolds, PTL
=============================================================================
