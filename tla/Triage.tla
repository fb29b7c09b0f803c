-------------------------------- MODULE Triage --------------------------------
(***************************************************************************)
(* `reduce --file`: every statement of a file is put to both engines, the  *)
(* ones they disagree about are shrunk while they still fail the same way, *)
(* and what they shrink to is counted (ask.rs, reduce.rs and `triage` of   *)
(* main.rs).                                                               *)
(*                                                                         *)
(* DuckDB is a process per statement and remembers nothing.  The library   *)
(* driver of rudb is one database for the whole run, so what a statement   *)
(* or a candidate leaves there is seen by every question after it, until a *)
(* panic has it reset.  How two engines disagree is a set of signatures,   *)
(* which depends on the statement and on whether anything was left.        *)
(***************************************************************************)
EXTENDS Naturals, Sequences, FiniteSets

CONSTANTS
  Statements,   (* The statements there are.                               *)
  Blank,        (* What is left when everything was cut out.               *)
  Signatures,   (* The ways two engines can disagree.                      *)
  parses(_),    (* Whether rudb's parser takes a statement.                *)
  cuts(_),      (* What is tried on it, in order.                          *)
  tidy(_),      (* The statement without the gaps the cuts leave.          *)
  fails(_, _),  (* How the engines disagree about it, and whether something*)
                (* was left behind before.                                 *)
  leaves(_),    (* Whether it leaves something behind.                     *)
  panics(_),    (* Whether rudb comes apart on it.                         *)
  Keeps,        (* Whether rudb is the library, or a shell that forgets.   *)
  Files,        (* The files, each a sequence of statements.               *)
  Budgets       (* The candidates a reduction may be given.                *)

\* What can be put to an engine.
Puttable == Statements \cup {Blank}

ASSUME TriageAssumption ==
  /\ Blank \notin Statements
  /\ Files \subseteq Seq(Statements)
  /\ Budgets \subseteq Nat
  /\ Keeps \in BOOLEAN
  /\ \A s \in Puttable :
       /\ cuts(s) \in Seq(Puttable)
       /\ tidy(s) \in Puttable
       /\ parses(s) \in BOOLEAN
       /\ leaves(s) \in BOOLEAN
       /\ panics(s) \in BOOLEAN
       /\ \A b \in BOOLEAN : fails(s, b) \subseteq Signatures

VARIABLES
  file,     (* The statements of the run.                                  *)
  budget,   (* The candidates each may have.                               *)
  stage,    (* Where the run is.                                           *)
  at,       (* Which statement it is at.                                   *)
  behind,   (* Whether something was left in rudb.                         *)
  wanted,   (* How the statement fails: what a step has to keep.           *)
  best,     (* The smallest so far.                                        *)
  next,     (* Which of its cuts is tried next.                            *)
  tried,    (* How many candidates were put to the engines.                *)
  gave_up,  (* Whether they ran out.                                       *)
  cases,    (* The distinct cases.                                         *)
  differed, (* How many statements went into them,                         *)
  agreed,   (* and how many the engines agreed about.                      *)
  clean,    (* History: whether nothing was behind at any question of this *)
            (* reduction.                                                  *)
  sound     (* History: the cases whose first reduction was clean.         *)

counts   == <<cases, differed, agreed, sound>>
question == <<file, budget>>
vars == <<file, budget, stage, at, behind, wanted, best, next, tried, gave_up,
          cases, differed, agreed, clean, sound>>

-----------------------------------------------------------------------------
(***************************************************************************)
(* Putting one statement to both engines.                                  *)
(***************************************************************************)
\* How they disagree about it, now, and with nothing behind.
Said(s)  == fails(s, behind)
Fresh(s) == fails(s, FALSE)

\* A panic has the engine put back; a library keeps what was left.
Leave(s) == behind' = (~panics(s) /\ (behind \/ (Keeps /\ leaves(s))))

Asked(s) ==
  /\ Leave(s)
  /\ clean' = (clean /\ ~behind)

\* Mutant: failing at all is enough.
FailsAtAll(s) == Said(s) # {}

\* One of the ways it failed at first is enough.
StillFails(s) == Said(s) \cap wanted # {}

\* Whether a candidate is worth a question: the grammar is only held
\* against it when the statement itself was inside it.
Askable(c) ==
  /\ c # Blank
  /\ c # best
  /\ parses(file[at]) => parses(c)

Case(s, signatures, first) ==
  [sql |-> s, signatures |-> signatures, hits |-> 1, first |-> first]

Found(s) == {i \in DOMAIN cases : cases[i].sql = s}

\* Mutant: a statement that was found again is counted with its case alone.
AddQuietly(s) ==
  /\ IF Found(s) # {}
     THEN /\ cases' = [i \in DOMAIN cases |->
                         IF i \in Found(s) THEN [cases[i] EXCEPT !.hits = @ + 1] ELSE cases[i]]
          /\ UNCHANGED <<differed, sound>>
     ELSE /\ cases' = Append(cases, Case(s, wanted, file[at]))
          /\ differed' = differed + 1
          /\ sound' = IF clean' THEN sound \cup {Len(cases) + 1} ELSE sound
  /\ UNCHANGED agreed

\* `Distinct::add`: the reduced statement is the key.
Add(s) ==
  /\ differed' = differed + 1
  /\ IF Found(s) # {}
     THEN /\ cases' = [i \in DOMAIN cases |->
                         IF i \in Found(s) THEN [cases[i] EXCEPT !.hits = @ + 1] ELSE cases[i]]
          /\ UNCHANGED sound
     ELSE /\ cases' = Append(cases, Case(s, wanted, file[at]))
          /\ sound' = IF clean' THEN sound \cup {Len(cases) + 1} ELSE sound
  /\ UNCHANGED agreed

-----------------------------------------------------------------------------
Init ==
  /\ file \in Files
  /\ budget \in Budgets
  /\ stage = "looking"
  /\ at = 1
  /\ behind = FALSE
  /\ wanted = {}
  /\ best = Blank
  /\ next = 1
  /\ tried = 0
  /\ gave_up = FALSE
  /\ cases = <<>>
  /\ differed = 0
  /\ agreed = 0
  /\ clean = TRUE
  /\ sound = {}

\* `Alive::at`, when there is nothing to keep alive.
Agree ==
  /\ stage = "looking"
  /\ at <= Len(file)
  /\ Said(file[at]) = {}
  /\ Asked(file[at])
  /\ agreed' = agreed + 1
  /\ at' = at + 1
  /\ UNCHANGED <<question, stage, wanted, best, next, tried, gave_up, cases, differed, sound>>

\* And when there is.
Differ ==
  /\ stage = "looking"
  /\ at <= Len(file)
  /\ Said(file[at]) # {}
  /\ wanted' = Said(file[at])
  /\ Leave(file[at])
  /\ clean' = ~behind
  /\ best' = file[at]
  /\ next' = 1
  /\ tried' = 0
  /\ gave_up' = FALSE
  /\ stage' = "cutting"
  /\ UNCHANGED <<question, at, counts>>

Candidate == cuts(best)[next]
Cutting   == stage = "cutting" /\ next <= Len(cuts(best))

Pass ==
  /\ Cutting
  /\ ~Askable(Candidate)
  /\ next' = next + 1
  /\ UNCHANGED <<question, stage, at, behind, wanted, best, tried, gave_up, clean, counts>>

GiveUp ==
  /\ Cutting
  /\ Askable(Candidate)
  /\ tried >= budget
  /\ gave_up' = TRUE
  /\ stage' = "tidying"
  /\ UNCHANGED <<question, at, behind, wanted, best, next, tried, clean, counts>>

\* Mutant: the cuts of what is left go on where the last ones were.
KeepGoing ==
  /\ Cutting
  /\ Askable(Candidate)
  /\ tried < budget
  /\ StillFails(Candidate)
  /\ Asked(Candidate)
  /\ tried' = tried + 1
  /\ best' = Candidate
  /\ UNCHANGED <<question, stage, at, wanted, next, gave_up, counts>>

\* One step of the reduction: the cuts of what is left start over.
Keep ==
  /\ Cutting
  /\ Askable(Candidate)
  /\ tried < budget
  /\ StillFails(Candidate)
  /\ Asked(Candidate)
  /\ tried' = tried + 1
  /\ best' = Candidate
  /\ next' = 1
  /\ UNCHANGED <<question, stage, at, wanted, gave_up, counts>>

Drop ==
  /\ Cutting
  /\ Askable(Candidate)
  /\ tried < budget
  /\ ~StillFails(Candidate)
  /\ Asked(Candidate)
  /\ tried' = tried + 1
  /\ next' = next + 1
  /\ UNCHANGED <<question, stage, at, wanted, best, gave_up, counts>>

NothingLeftToCut ==
  /\ stage = "cutting"
  /\ next > Len(cuts(best))
  /\ stage' = "tidying"
  /\ UNCHANGED <<question, at, behind, wanted, best, next, tried, gave_up, clean, counts>>

\* The whitespace comes out, when the statement still fails without it, and
\* the case is counted.
Tidy ==
  /\ stage = "tidying"
  /\ IF tidy(best) # best
     THEN /\ Asked(tidy(best))
          /\ tried' = tried + 1
          /\ best' = IF StillFails(tidy(best)) THEN tidy(best) ELSE best
     ELSE UNCHANGED <<behind, clean, tried, best>>
  /\ Add(best')
  /\ stage' = "looking"
  /\ at' = at + 1
  /\ UNCHANGED <<question, wanted, next, gave_up>>

\* An engine could not be run, or could not be put back: nothing is printed.
Break ==
  /\ \/ stage = "looking" /\ at <= Len(file)
     \/ Cutting /\ Askable(Candidate) /\ tried < budget
     \/ stage = "tidying" /\ tidy(best) # best
  /\ stage' = "broken"
  /\ UNCHANGED <<question, at, behind, wanted, best, next, tried, gave_up, clean, counts>>

Report ==
  /\ stage = "looking"
  /\ at > Len(file)
  /\ stage' = "printed"
  /\ UNCHANGED <<question, at, behind, wanted, best, next, tried, gave_up, clean, counts>>

Next ==
  \/ Agree \/ Differ
  \/ Pass \/ GiveUp \/ Keep \/ Drop \/ NothingLeftToCut
  \/ Tidy
  \/ Break \/ Report

Spec == Init /\ [][Next]_vars

-----------------------------------------------------------------------------
(***************************************************************************)
(* What it is trusted for.                                                 *)
(***************************************************************************)
Cases == [sql : Puttable, signatures : SUBSET Signatures, hits : Nat \ {0}, first : Statements]

TypeOK ==
  /\ file \in Files
  /\ budget \in Budgets
  /\ stage \in {"looking", "cutting", "tidying", "broken", "printed"}
  /\ at \in 1 .. Len(file) + 1
  /\ behind \in BOOLEAN
  /\ wanted \subseteq Signatures
  /\ best \in Puttable
  /\ stage = "cutting" => best \in Statements
  /\ next \in Nat \ {0}
  /\ tried \in Nat
  /\ gave_up \in BOOLEAN
  /\ cases \in Seq(Cases)
  /\ differed \in Nat
  /\ agreed \in Nat
  /\ clean \in BOOLEAN
  /\ sound \subseteq DOMAIN cases

(***************************************************************************)
(* A case is a reproduction: put to two engines nobody has talked to, it   *)
(* still fails in one of the ways the statement it was found in fails      *)
(* there.  A reduction that kept any failure at all would walk off the bug *)
(* it was pointed at.  It holds of the reductions no leftover was seen in. *)
(***************************************************************************)
CaseReproduces ==
  \A i \in sound : Fresh(cases[i].sql) \cap Fresh(cases[i].first) # {}

(***************************************************************************)
(* A reduction that does not say it gave up is at a minimum: not one of    *)
(* the cuts of what it has fails that way, the ones tried on an earlier    *)
(* and larger statement included.                                          *)
(***************************************************************************)
MinimumOrSaysSo ==
  stage = "tidying" /\ ~gave_up /\ clean =>
    \A i \in DOMAIN cuts(best) :
      Askable(cuts(best)[i]) => Fresh(cuts(best)[i]) \cap wanted = {}

(***************************************************************************)
(* Every statement looked at is counted once, agreed or under one case,    *)
(* and the same reduced statement is never two cases.                      *)
(***************************************************************************)
HitsUpTo[n \in 0..Len(cases)] == IF n = 0 THEN 0 ELSE HitsUpTo[n - 1] + cases[n].hits

EveryStatementCountedOnce ==
  /\ HitsUpTo[Len(cases)] = differed
  /\ agreed + differed = at - 1
  /\ \A i, j \in DOMAIN cases : cases[i].sql = cases[j].sql => i = j

(***************************************************************************)
(* "How the two engines disagree about it" (reduce.rs:161): the signatures *)
(* printed under a case are the ones the reduced statement has.            *)
(***************************************************************************)
SignaturesAreTheCases ==
  \A i \in sound : cases[i].signatures \subseteq Fresh(cases[i].sql)
=============================================================================
