------------------------------- MODULE Bisect -------------------------------
(***************************************************************************)
(* `rudb-compat bisect`: which optimizer pass changed the answer to one    *)
(* statement.  main.rs asks DuckDB and then rudb; bisect.rs asks rudb      *)
(* again with each pass off, and again with all of them off, every time    *)
(* with a SET before the statement and a RESET behind it.                  *)
(*                                                                         *)
(* What rudb answers is decided by its bugs.  A culprit is a set of passes *)
(* that give a wrong answer when all of them are on; the empty culprit is  *)
(* a bug of the binder or the executor.  A statement that writes is right  *)
(* the first time only, since the next one finds what it left.             *)
(***************************************************************************)
EXTENDS Naturals, Sequences, FiniteSets, Functions

CONSTANT Passes   (* `rudb::optimizers`, in order.                         *)

VARIABLES
  culprits,   (* The bugs this statement meets.                            *)
  writes,     (* Whether the statement leaves something behind.            *)
  bisect_at,  (* The next step, or how it ended.                           *)
  asking,     (* Which of the passes is turned off; one past them is all.  *)
  off,        (* The passes that are off in the engine.                    *)
  got,        (* The answer that has not been looked at yet.               *)
  found,      (* The passes that made the answer agree.                    *)
  blame,      (* The verdict.                                              *)
  times       (* History: how often rudb has run the statement.            *)

bisectVars == <<culprits, writes, bisect_at, asking, off, got, found, blame, times>>

Named     == Range(Passes)
Unblamed  == [who |-> "nobody"]
NoAnswer  == "no answer"

Begin ==
  /\ bisect_at = "first"
  /\ asking = 0
  /\ off = {}
  /\ got = NoAnswer
  /\ found = {}
  /\ blame = Unblamed
  /\ times = 0

Init == culprits \in SUBSET SUBSET Named /\ writes \in BOOLEAN /\ Begin

\* What a plan without these passes answers.
Wrong(without) == \E c \in culprits : c \cap without = {}

Answer == IF Wrong(off) \/ (writes /\ times > 0) THEN "wrong" ELSE "right"

\* The engine may also fail to run at all.
RunStatement ==
  /\ got' \in {Answer, "broken"}
  /\ times' = times + 1

AskFirst ==
  /\ bisect_at = "first"
  /\ RunStatement
  /\ CASE got' = "broken" -> bisect_at' = "failed" /\ UNCHANGED asking
       [] got' = "right"  -> bisect_at' = "agree" /\ UNCHANGED asking
       [] got' = "wrong"  -> bisect_at' = "set" /\ asking' = 1
  /\ UNCHANGED <<culprits, writes, off, found, blame>>

Target == IF asking <= Len(Passes) THEN {Passes[asking]} ELSE Named

Set ==
  /\ bisect_at = "set"
  /\ off' = Target
  /\ bisect_at' = "run"
  /\ UNCHANGED <<culprits, writes, asking, got, found, blame, times>>

\* A SET that is refused, or an engine that breaks on one.
Refuse ==
  /\ bisect_at \in {"set", "reset"}
  /\ bisect_at' = "failed"
  /\ UNCHANGED <<culprits, writes, asking, off, got, found, blame, times>>

Run ==
  /\ bisect_at = "run"
  /\ RunStatement
  /\ bisect_at' = "reset"
  /\ UNCHANGED <<culprits, writes, asking, off, found, blame>>

\* rudb comes apart under the statement, and the process with it.
Panic ==
  /\ bisect_at = "run"
  /\ bisect_at' = "panicked"
  /\ UNCHANGED <<culprits, writes, asking, off, got, found, blame, times>>

\* Mutant: the search stops at the first pass that helps.
ConcludeAtFirst(agrees) ==
  IF agrees /\ asking <= Len(Passes)
    THEN /\ found' = found \cup {Passes[asking]}
         /\ blame' = [who |-> "passes", names |-> found']
         /\ bisect_at' = "done"
         /\ UNCHANGED asking
    ELSE /\ blame' = IF asking > Len(Passes)
                       THEN [who |-> IF agrees THEN "together" ELSE "elsewhere"] ELSE blame
         /\ bisect_at' = IF asking > Len(Passes) THEN "done" ELSE "set"
         /\ asking' = asking + 1
         /\ UNCHANGED found

\* `blame`, after each answer: the passes one by one, then all of them at once.
Conclude(agrees) ==
  IF asking <= Len(Passes)
    THEN LET now == IF agrees THEN found \cup {Passes[asking]} ELSE found IN
         /\ found' = now
         /\ IF asking = Len(Passes) /\ now # {}
              THEN /\ blame' = [who |-> "passes", names |-> now]
                   /\ bisect_at' = "done"
                   /\ UNCHANGED asking
              ELSE /\ asking' = asking + 1
                   /\ bisect_at' = "set"
                   /\ UNCHANGED blame
    ELSE /\ blame' = [who |-> IF agrees THEN "together" ELSE "elsewhere"]
         /\ bisect_at' = "done"
         /\ UNCHANGED <<found, asking>>

\* Mutant: an answer that could not be had is looked at before the RESET.
ResetAfterTheAnswer ==
  /\ bisect_at = "reset"
  /\ IF got = "broken"
       THEN bisect_at' = "failed" /\ UNCHANGED <<asking, off, found, blame>>
       ELSE off' = {} /\ Conclude(got = "right")
  /\ got' = NoAnswer
  /\ UNCHANGED <<culprits, writes, times>>

\* The setting is put back first, and then the answer is looked at.
Reset ==
  /\ bisect_at = "reset"
  /\ off' = {}
  /\ got' = NoAnswer
  /\ IF got = "broken"
       THEN bisect_at' = "failed" /\ UNCHANGED <<asking, found, blame>>
       ELSE Conclude(got = "right")
  /\ UNCHANGED <<culprits, writes, times>>

Next == AskFirst \/ Set \/ Refuse \/ Run \/ Panic \/ Reset

Spec == Init /\ [][Next]_bisectVars

-----------------------------------------------------------------------------
(***************************************************************************)
(* Properties.                                                             *)
(***************************************************************************)

\* The verdict on a statement that only reads is what its bugs say: a pass is
\* named when every culprit needs it, "together" is said when no pass is in all of
\* them and each needs one, and "elsewhere" when one of them needs no pass at all.
BlameIsExact ==
  ~writes /\ blame # Unblamed =>
    LET needed == {p \in Named : \A c \in culprits : p \in c} IN
    CASE blame.who = "passes"    -> blame.names = needed /\ needed # {}
      [] blame.who = "together"  -> needed = {} /\ {} \notin culprits
      [] blame.who = "elsewhere" -> {} \in culprits

\* Wherever the search ends, the passes are on again: unless the engine refused a
\* SET or RESET, or came apart under the statement, nothing is left turned off.
SettingPutBack ==
  /\ bisect_at \in {"done", "agree", "set"} => off = {}
  /\ bisect_at = "failed" /\ got = NoAnswer => off = {}
=============================================================================
