------------------------------- MODULE Checkout -------------------------------
(***************************************************************************)
(* The fetched corpus of one machine (vendor.rs), and the runs that read   *)
(* it one after the other: each looks whether the checkout is there,       *)
(* widens or fetches it, measures over it and names the commit it measured.*)
(*                                                                         *)
(* Between runs a build cache may give the directory back with the files   *)
(* taken out of it, and the upstream branch may move.  A run may be killed *)
(* at any step, and git may fail at any.  Two runs at once on one          *)
(* directory are left out.                                                 *)
(***************************************************************************)
EXTENDS Naturals

CONSTANTS
  Parts,    (* PARTS: the directories the checkout holds.                  *)
  Sql,      (* The one of them the tests are under.                        *)
  carries,  (* Which of them each commit of upstream has.                  *)
  MaxCommit (* A bound on how far the branch moves.                        *)

Commits == 1..MaxCommit

ASSUME CheckoutAssumption ==
  /\ Sql \in Parts
  /\ MaxCommit \in Nat \ {0}
  /\ carries \in [Commits -> SUBSET Parts]

VARIABLES
  tip,      (* The commit REF names upstream.                              *)
  git,      (* What git finds at the directory: nothing, a clone that only *)
            (* answers who it is, or a clone.                              *)
  head,     (* The commit it answers with, or 0.                           *)
  held,     (* How much of each part is in the directory.                  *)
  from,     (* The commit those files came from, or 0.                     *)
  outer,    (* The working tree the directory is inside of.                *)
  at,       (* Where the run is.                                           *)
  all,      (* Whether it reads every part, or the tests alone.            *)
  measured, (* History: what the last run measured over, or Nothing.       *)
  stamp     (* History: the commit it named: 0 for unknown.                *)

disk == <<git, head, held, from>>
vars == <<tip, disk, outer, at, all, measured, stamp>>

Amounts == {"absent", "empty", "some", "all"}

Empty == [p \in Parts |-> "absent"]

Outer == MaxCommit + 1

Nothing == [held |-> Empty, from |-> 0, of |-> {}]

Init ==
  /\ tip = 1
  /\ git = "none"
  /\ head = 0
  /\ held = Empty
  /\ from = 0
  /\ outer = "intact"
  /\ at = "idle"
  /\ all = FALSE
  /\ measured = Nothing
  /\ stamp = 0

-----------------------------------------------------------------------------
(***************************************************************************)
(* What can be asked of the directory.                                     *)
(***************************************************************************)
\* Mutant: a part is there if its directory is.
IsDir(p) == held[p] # "absent"

Filled(p) == held[p] \in {"some", "all"}

FullHere == \A p \in Parts : Filled(p)

\* Mutant: git is taken at its word, and it walks up.
OwnAnyway == TRUE

Own == git # "none"

\* What `rev-parse HEAD` says.  Git walks up, and answers for the repository around
\* the directory when the directory is not one of its own.
RevParse ==
  IF git = "none" THEN {Outer} ELSE {head} \cup (IF git = "dead" THEN {0} ELSE {})

Commit == IF Own THEN RevParse ELSE {0}

-----------------------------------------------------------------------------
(***************************************************************************)
(* The steps of `checkout`.                                                *)
(***************************************************************************)
Go(from_, to) == at = from_ /\ at' = to

\* Looking, and answers that change nothing.
Begin(refresh, every) ==
  /\ Go("idle", IF refresh THEN "remove" ELSE "look")
  /\ all' = every
  /\ UNCHANGED <<tip, disk, outer, measured, stamp>>

Look ==
  /\ Go("look", IF FullHere THEN "accepted" ELSE IF Own THEN "widen" ELSE "remove")
  /\ UNCHANGED <<tip, disk, outer, all, measured, stamp>>

LookAgain ==
  /\ Go("again", IF FullHere THEN "accepted" ELSE "remove")
  /\ UNCHANGED <<tip, disk, outer, all, measured, stamp>>

\* `git sparse-checkout set`, one part after another, out of the commit at HEAD.
\* It puts back no file of a part it has checked out before.  With no clone there it
\* is put to the repository around the directory.
Sparse == at \in {"widen", "sparse"}

Missing == IF git = "live" THEN {p \in carries[head] : held[p] = "absent"} ELSE {}

FillPart(p) ==
  /\ Sparse
  /\ p \in Missing
  /\ held' = [held EXCEPT ![p] = "all"]
  /\ from' = head
  /\ UNCHANGED <<tip, git, head, outer, at, all, measured, stamp>>

SparseEnds ==
  /\ Sparse
  /\ Missing = {}
  /\ at' = IF at = "widen" THEN "again" ELSE "check"
  /\ outer' = IF git = "none" THEN "swept" ELSE outer
  /\ UNCHANGED <<tip, disk, all, measured, stamp>>

\* Wherever it stops, it may be in the middle of a part.
Halfway ==
  \/ UNCHANGED <<held, from>>
  \/ \E p \in Missing :
       Sparse /\ held' = [held EXCEPT ![p] = "some"] /\ from' = head

SparseFails ==
  /\ Sparse
  /\ at' = IF at = "widen" THEN "remove" ELSE "idle"
  /\ Halfway
  /\ UNCHANGED <<tip, git, head, outer, all, measured, stamp>>

\* The directory is removed a file at a time, and what will not go is let lie.
RemovePart(p) ==
  /\ at = "remove"
  /\ held[p] # "absent"
  /\ held' = [held EXCEPT ![p] =
                CASE @ = "all" -> "some" [] @ = "some" -> "empty" [] OTHER -> "absent"]
  /\ UNCHANGED <<tip, git, head, from, outer, at, all, measured, stamp>>

RemoveGit ==
  /\ at = "remove"
  /\ git # "none"
  /\ git' = IF git = "live" THEN "dead" ELSE "none"
  /\ head' = IF git = "live" THEN head ELSE 0
  /\ UNCHANGED <<tip, held, from, outer, at, all, measured, stamp>>

RemoveEnds ==
  /\ Go("remove", "clone")
  /\ UNCHANGED <<tip, disk, outer, all, measured, stamp>>

\* A clone into what is left of a directory fails, and one that fails cleans up.
Clone ==
  /\ Go("clone", "sparse")
  /\ git = "none" /\ held = Empty
  /\ git' = "live"
  /\ head' = tip
  /\ from' = tip
  /\ UNCHANGED <<tip, held, outer, all, measured, stamp>>

CloneFails ==
  /\ Go("clone", "idle")
  /\ UNCHANGED <<tip, disk, outer, all, measured, stamp>>

CheckLayout ==
  /\ Go("check", IF \A p \in Parts : IsDir(p) THEN "accepted" ELSE "idle")
  /\ UNCHANGED <<tip, disk, outer, all, measured, stamp>>

-----------------------------------------------------------------------------
(***************************************************************************)
(* What a run does with the checkout, and what happens to it in between.   *)
(***************************************************************************)
Reads == IF all THEN Parts ELSE {Sql}

\* A run over the tests asks once more that they are there and filled.
Measure ==
  /\ at = "accepted"
  /\ IF all \/ Filled(Sql)
     THEN /\ at' = IF all THEN "idle" ELSE "stamp"
          /\ measured' = [held |-> held, from |-> from, of |-> Reads]
          /\ stamp' = 0
     ELSE /\ at' = "idle"
          /\ UNCHANGED <<measured, stamp>>
  /\ UNCHANGED <<tip, disk, outer, all>>

Stamp ==
  /\ Go("stamp", "idle")
  /\ stamp' \in Commit
  /\ UNCHANGED <<tip, disk, outer, all, measured>>

\* A clone that is killed may leave a clone that only answers who it is.
Kill ==
  /\ at # "idle"
  /\ at' = "idle"
  /\ \/ Halfway /\ UNCHANGED <<git, head>>
     \/ /\ at = "clone" /\ git = "none" /\ held = Empty
        /\ git' = "dead" /\ head' = tip
        /\ UNCHANGED <<held, from>>
  /\ measured' = Nothing
  /\ stamp' = 0
  /\ UNCHANGED <<tip, outer, all>>

RestoreCache ==
  /\ at = "idle"
  /\ held' = [p \in Parts |-> IF held[p] = "absent" THEN "absent" ELSE "empty"]
  /\ \/ git # "none" /\ git' = "dead" /\ UNCHANGED head
     \/ git' = "none" /\ head' = 0
  /\ UNCHANGED <<tip, from, outer, at, all, measured, stamp>>

MoveBranch ==
  /\ tip < MaxCommit
  /\ tip' = tip + 1
  /\ UNCHANGED <<disk, outer, at, all, measured, stamp>>

Next ==
  \/ \E refresh, every \in BOOLEAN : Begin(refresh, every)
  \/ Look \/ LookAgain
  \/ \E p \in Parts : FillPart(p)
  \/ SparseEnds \/ SparseFails
  \/ \E p \in Parts : RemovePart(p)
  \/ RemoveGit \/ RemoveEnds
  \/ Clone \/ CloneFails
  \/ CheckLayout
  \/ Measure \/ Stamp
  \/ Kill \/ RestoreCache \/ MoveBranch

Spec == Init /\ [][Next]_vars

-----------------------------------------------------------------------------
(***************************************************************************)
(* Properties.                                                             *)
(***************************************************************************)

\* Every variable has its type.
TypeOK ==
  /\ tip \in Commits
  /\ git \in {"none", "dead", "live"}
  /\ head \in Commits \cup {0}
  /\ held \in [Parts -> Amounts]
  /\ from \in Commits \cup {0}
  /\ outer \in {"intact", "swept"}
  /\ at \in {"idle", "look", "again", "widen", "remove", "clone", "sparse", "check",
             "accepted", "stamp"}
  /\ all \in BOOLEAN
  /\ measured \in [held : [Parts -> Amounts], from : Commits \cup {0}, of : SUBSET Parts]
  /\ stamp \in Commits \cup {0}

\* No run measures over a part with nothing in it: a fetch that did not happen and
\* a layout that changed are errors and never a number.
NothingMeasuredAsZero ==
  \A p \in measured.of : measured.held[p] \in {"some", "all"}

\* The repository around the corpus never has a sparse checkout put to it.
OuterIntact == outer = "intact"

\* A run that names a commit names the one the files it measured came from.
StampIsTheCorpus ==
  stamp # 0 => stamp = measured.from

\* A run measures over a whole corpus and never over half of one.
NoHalfCorpus ==
  \A p \in measured.of : measured.held[p] = "all"
=============================================================================
