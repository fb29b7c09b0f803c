--------------------------- MODULE Checkout_proofs ---------------------------
(***************************************************************************)
(* Proofs about Checkout, for any parts and any history of upstream.  The  *)
(* invariant says what each step of a checkout knows of the directory it   *)
(* is working on: that is what makes the question asked at the end enough. *)
(***************************************************************************)
EXTENDS Checkout, TLAPS

\* What git answers for the directory is where its files came from.
CloneInv ==
  /\ git = "none" => head = 0
  /\ git = "dead" => head \in Commits /\ (from = head \/ held = Empty)
  /\ git = "live" => head \in Commits /\ from = head

\* The sparse checkout is put to a clone of its own, a fetch has whole parts only,
\* and an accepted checkout has something in every part.
StepInv ==
  /\ Sparse => git # "none"
  /\ at = "sparse" => git = "live"
  /\ at \in {"sparse", "check"} => \A p \in Parts : held[p] \in {"absent", "all"}
  /\ at = "accepted" => FullHere
  /\ at = "stamp" => measured.from = from /\ Filled(Sql)

IInv ==
  /\ TypeOK
  /\ CloneInv
  /\ StepInv
  /\ NothingMeasuredAsZero
  /\ OuterIntact
  /\ StampIsTheCorpus

LEMMA NothingFacts ==
  /\ Empty \in [Parts -> Amounts]
  /\ Nothing \in [held : [Parts -> Amounts], from : Commits \cup {0}, of : SUBSET Parts]
  /\ Nothing.of = {} /\ Nothing.from = 0
  BY DEF Nothing, Empty, Amounts

LEMMA InitIInv == Init => IInv
<1> SUFFICES ASSUME Init PROVE IInv
  OBVIOUS
<1>1. 1 \in Commits
  BY CheckoutAssumption DEF CheckoutAssumption, Commits
<1>2. TypeOK
  BY <1>1, NothingFacts DEF Init, TypeOK
<1>3. CloneInv
  BY DEF Init, CloneInv
<1>4. StepInv
  BY DEF Init, StepInv, Sparse
<1>5. NothingMeasuredAsZero
  BY NothingFacts DEF Init, NothingMeasuredAsZero
<1>6. OuterIntact /\ StampIsTheCorpus
  BY DEF Init, OuterIntact, StampIsTheCorpus
<1> QED BY <1>2, <1>3, <1>4, <1>5, <1>6 DEF IInv

\* The steps that only look, and end where what they saw is known.
LEMMA LookingSteps ==
  ASSUME IInv,
         \/ \E refresh, every \in BOOLEAN : Begin(refresh, every)
         \/ Look \/ LookAgain \/ RemoveEnds \/ CloneFails \/ CheckLayout
  PROVE  IInv'
<1>1. /\ UNCHANGED <<tip, git, head, held, from, outer, measured, stamp>>
      /\ all' \in BOOLEAN
      /\ at' \in {"idle", "look", "again", "widen", "remove", "clone", "accepted"}
  BY DEF IInv, TypeOK, Begin, Look, LookAgain, RemoveEnds, CloneFails, CheckLayout, Go, disk
<1>2. at' = "widen" => git # "none"
  BY DEF Begin, Look, LookAgain, RemoveEnds, CloneFails, CheckLayout, Go, Own
<1>3. at' = "accepted" => FullHere
  <2>1. CASE CheckLayout
    <3>1. \A p \in Parts : held[p] \in {"absent", "all"}
      BY <2>1 DEF IInv, StepInv, CheckLayout, Go
    <3> QED BY <2>1, <3>1 DEF CheckLayout, Go, IsDir, FullHere, Filled
  <2>2. CASE ~CheckLayout
    BY <2>2 DEF Begin, Look, LookAgain, RemoveEnds, CloneFails, Go
  <2> QED BY <2>1, <2>2
<1>4. TypeOK'
  BY <1>1 DEF IInv, TypeOK
<1>5. CloneInv'
  BY <1>1 DEF IInv, CloneInv
<1>6. StepInv'
  BY <1>1, <1>2, <1>3 DEF StepInv, Sparse, FullHere, Filled
<1>7. NothingMeasuredAsZero' /\ OuterIntact' /\ StampIsTheCorpus'
  BY <1>1 DEF IInv, NothingMeasuredAsZero, OuterIntact, StampIsTheCorpus
<1> QED BY <1>4, <1>5, <1>6, <1>7 DEF IInv

\* The steps of a sparse checkout, which is put to a live clone or does nothing.
LEMMA SparseSteps ==
  ASSUME IInv,
         (\E p \in Parts : FillPart(p)) \/ SparseEnds \/ SparseFails
  PROVE  IInv'
<1>1. /\ UNCHANGED <<tip, git, head, all, measured, stamp>>
      /\ Sparse /\ git # "none" /\ git \in {"dead", "live"}
  BY DEF IInv, TypeOK, StepInv, FillPart, SparseEnds, SparseFails, disk
<1>2. Missing \subseteq Parts /\ (Missing # {} => git = "live")
  BY CheckoutAssumption DEF IInv, CloneInv, CheckoutAssumption, Missing
<1>3. \/ UNCHANGED <<held, from>>
      \/ /\ git = "live" /\ from' = head
         /\ \E p \in Parts, much \in {"some", "all"} :
              /\ held' = [held EXCEPT ![p] = much]
              /\ much = "some" => at' \in {"remove", "idle"}
  <2>1. CASE \E p \in Parts : FillPart(p)
    BY <1>2, <2>1 DEF FillPart
  <2>2. CASE SparseEnds
    BY <2>2 DEF SparseEnds, disk
  <2>3. CASE SparseFails
    <3>1. at' \in {"remove", "idle"}
      BY <2>3 DEF SparseFails
    <3> QED BY <1>2, <2>3, <3>1 DEF SparseFails, Halfway
  <2> QED BY <2>1, <2>2, <2>3
<1>4. outer' = "intact"
  BY <1>1 DEF IInv, OuterIntact, FillPart, SparseEnds, SparseFails
<1>5. /\ at' \in {"idle", "again", "check", "remove", "widen", "sparse"}
      /\ at' \in {"check", "sparse"} => at = "sparse"
      /\ at' \in {"widen", "sparse"} => at' = at
  BY <1>1 DEF Sparse, FillPart, SparseEnds, SparseFails
<1>6. held' \in [Parts -> Amounts] /\ from' \in Commits \cup {0}
  BY <1>3 DEF IInv, TypeOK, CloneInv, Amounts
<1>7. TypeOK'
  BY <1>1, <1>4, <1>5, <1>6 DEF IInv, TypeOK
<1>8. CloneInv'
  BY <1>1, <1>3 DEF IInv, CloneInv
<1>9. StepInv'
  <2>1. at' \in {"sparse", "check"} => \A p \in Parts : held'[p] \in {"absent", "all"}
    <3> SUFFICES ASSUME at' \in {"sparse", "check"}, NEW q \in Parts
        PROVE  held'[q] \in {"absent", "all"}
      OBVIOUS
    <3>1. held[q] \in {"absent", "all"} /\ held \in [Parts -> Amounts]
      BY <1>5 DEF IInv, StepInv, TypeOK
    <3> QED BY <1>3, <3>1
  <2>2. at' = "sparse" => git' = "live"
    BY <1>1, <1>5 DEF IInv, StepInv
  <2> QED BY <1>1, <1>5, <2>1, <2>2 DEF StepInv, Sparse
<1>10. NothingMeasuredAsZero' /\ OuterIntact' /\ StampIsTheCorpus'
  BY <1>1, <1>4 DEF IInv, NothingMeasuredAsZero, OuterIntact, StampIsTheCorpus
<1> QED BY <1>7, <1>8, <1>9, <1>10 DEF IInv

\* Removing what is there, and cloning into nothing.
LEMMA RemoveAndClone ==
  ASSUME IInv,
         (\E p \in Parts : RemovePart(p)) \/ RemoveGit \/ Clone
  PROVE  IInv'
<1>1. UNCHANGED <<tip, outer, all, measured, stamp>>
  BY DEF RemovePart, RemoveGit, Clone
<1>2. NothingMeasuredAsZero' /\ OuterIntact' /\ StampIsTheCorpus'
  BY <1>1 DEF IInv, NothingMeasuredAsZero, OuterIntact, StampIsTheCorpus
<1>3. CASE \E p \in Parts : RemovePart(p)
  <2>1. PICK p \in Parts : RemovePart(p)
    BY <1>3
  <2>2. at = "remove" /\ UNCHANGED <<git, head, from, at>> /\ held[p] # "absent"
    BY <2>1 DEF RemovePart
  <2>3. held' \in [Parts -> Amounts] /\ held # Empty
    BY <2>1, <2>2 DEF RemovePart, IInv, TypeOK, Amounts, Empty
  <2>4. TypeOK'
    BY <1>1, <2>2, <2>3 DEF IInv, TypeOK
  <2>5. CloneInv'
    BY <2>2, <2>3 DEF IInv, CloneInv
  <2>6. StepInv'
    BY <2>2 DEF StepInv, Sparse
  <2> QED BY <1>2, <2>4, <2>5, <2>6 DEF IInv
<1>4. CASE RemoveGit
  <2>1. at = "remove" /\ UNCHANGED <<held, from, at>>
    BY <1>4 DEF RemoveGit
  <2>2. CloneInv' /\ git' \in {"none", "dead", "live"} /\ head' \in Commits \cup {0}
    BY <1>4, <2>1 DEF RemoveGit, IInv, TypeOK, CloneInv
  <2>3. TypeOK'
    BY <1>1, <2>1, <2>2 DEF IInv, TypeOK
  <2>4. StepInv'
    BY <2>1 DEF StepInv, Sparse
  <2> QED BY <1>2, <2>2, <2>3, <2>4 DEF IInv
<1>5. CASE Clone
  <2>1. /\ at' = "sparse" /\ git' = "live" /\ head' = tip /\ from' = tip
        /\ held' = held /\ held = Empty /\ tip \in Commits
    BY <1>5 DEF Clone, Go, IInv, TypeOK
  <2>2. TypeOK'
    BY <1>1, <2>1 DEF IInv, TypeOK
  <2>3. CloneInv'
    BY <2>1 DEF CloneInv
  <2>4. StepInv'
    BY <2>1 DEF StepInv, Sparse, Empty
  <2> QED BY <1>2, <2>2, <2>3, <2>4 DEF IInv
<1> QED BY <1>3, <1>4, <1>5

\* Measuring over what was accepted, and naming it.
LEMMA MeasuringSteps ==
  ASSUME IInv, Measure \/ Stamp
  PROVE  IInv'
<1>1. UNCHANGED <<tip, git, head, held, from, outer, all>>
  BY DEF Measure, Stamp, disk
<1>2. Sql \in Parts
  BY CheckoutAssumption DEF CheckoutAssumption
<1>3. CloneInv' /\ OuterIntact'
  BY <1>1 DEF IInv, CloneInv, OuterIntact
<1>4. CASE Measure
  <2>1. FullHere /\ Filled(Sql)
    BY <1>2, <1>4 DEF Measure, IInv, StepInv, FullHere
  <2>2. /\ measured' = [held |-> held, from |-> from, of |-> Reads]
        /\ stamp' = 0 /\ at' \in {"idle", "stamp"}
    BY <1>4, <2>1 DEF Measure
  <2>3. Reads \subseteq Parts
    BY <1>2 DEF Reads
  <2>4. TypeOK'
    BY <1>1, <2>2, <2>3 DEF IInv, TypeOK
  <2>5. StepInv'
    BY <1>1, <2>1, <2>2 DEF StepInv, Sparse, Filled
  <2>6. NothingMeasuredAsZero'
    BY <2>1, <2>2, <2>3 DEF NothingMeasuredAsZero, FullHere, Filled
  <2>7. StampIsTheCorpus'
    BY <2>2 DEF StampIsTheCorpus
  <2> QED BY <1>3, <2>4, <2>5, <2>6, <2>7 DEF IInv
<1>5. CASE Stamp
  <2>1. at' = "idle" /\ UNCHANGED measured /\ stamp' \in Commit
        /\ measured.from = from /\ held[Sql] # "absent"
    BY <1>5 DEF Stamp, Go, IInv, StepInv, Filled
  <2>2. held # Empty
    BY <1>2, <2>1 DEF Empty
  <2>3. stamp' = 0 \/ (stamp' = from /\ from \in Commits)
    BY <2>1, <2>2 DEF Commit, Own, RevParse, IInv, TypeOK, CloneInv
  <2>4. TypeOK'
    BY <1>1, <2>1, <2>3 DEF IInv, TypeOK
  <2>5. StepInv'
    BY <2>1 DEF StepInv, Sparse
  <2>6. NothingMeasuredAsZero' /\ StampIsTheCorpus'
    BY <2>1, <2>3 DEF IInv, NothingMeasuredAsZero, StampIsTheCorpus
  <2> QED BY <1>3, <2>4, <2>5, <2>6 DEF IInv
<1> QED BY <1>4, <1>5

\* A kill at any step, the build cache, and the branch.
LEMMA OutsideSteps ==
  ASSUME IInv, Kill \/ RestoreCache \/ MoveBranch
  PROVE  IInv'
<1>1. CASE Kill
  <2>1. /\ at' = "idle" /\ measured' = Nothing /\ stamp' = 0
        /\ UNCHANGED <<tip, outer, all>>
    BY <1>1 DEF Kill
  <2>2. /\ held' \in [Parts -> Amounts] /\ from' \in Commits \cup {0}
        /\ git' \in {"none", "dead", "live"} /\ head' \in Commits \cup {0}
        /\ CloneInv'
    <3>1. CASE Halfway /\ UNCHANGED <<git, head>>
      <4>1. CASE UNCHANGED <<held, from>>
        BY <3>1, <4>1 DEF IInv, TypeOK, CloneInv
      <4>2. CASE \E p \in Missing : held' = [held EXCEPT ![p] = "some"] /\ from' = head
        <5>1. git = "live"
          BY <4>2 DEF Missing
        <5>2. Missing \subseteq Parts /\ head \in Commits
          BY <5>1, CheckoutAssumption DEF IInv, CloneInv, CheckoutAssumption, Missing
        <5>3. held' \in [Parts -> Amounts]
          BY <4>2, <5>2 DEF IInv, TypeOK, Amounts
        <5> QED BY <3>1, <4>2, <5>1, <5>2, <5>3 DEF CloneInv
      <4> QED BY <3>1, <4>1, <4>2 DEF Halfway
    <3>2. CASE git' = "dead" /\ head' = tip /\ held = Empty /\ UNCHANGED <<held, from>>
      BY <3>2 DEF IInv, TypeOK, CloneInv
    <3> QED BY <1>1, <3>1, <3>2 DEF Kill
  <2>3. TypeOK'
    BY <2>1, <2>2, NothingFacts DEF IInv, TypeOK
  <2>4. StepInv'
    BY <2>1 DEF StepInv, Sparse
  <2>5. NothingMeasuredAsZero' /\ OuterIntact' /\ StampIsTheCorpus'
    BY <2>1, NothingFacts DEF IInv, NothingMeasuredAsZero, OuterIntact, StampIsTheCorpus
  <2> QED BY <2>2, <2>3, <2>4, <2>5 DEF IInv
<1>2. CASE RestoreCache
  <2>1. /\ at' = at /\ at = "idle" /\ UNCHANGED <<tip, from, outer, all, measured, stamp>>
        /\ git' \in {"none", "dead"}
    BY <1>2 DEF RestoreCache
  <2>2. held' \in [Parts -> Amounts] /\ (held = Empty => held' = Empty)
    BY <1>2 DEF RestoreCache, Amounts, Empty
  <2>3. CloneInv' /\ head' \in Commits \cup {0}
    BY <1>2, <2>1, <2>2 DEF RestoreCache, IInv, TypeOK, CloneInv
  <2>4. TypeOK'
    BY <2>1, <2>2, <2>3 DEF IInv, TypeOK
  <2>5. StepInv'
    BY <2>1 DEF StepInv, Sparse
  <2>6. NothingMeasuredAsZero' /\ OuterIntact' /\ StampIsTheCorpus'
    BY <2>1 DEF IInv, NothingMeasuredAsZero, OuterIntact, StampIsTheCorpus
  <2> QED BY <2>3, <2>4, <2>5, <2>6 DEF IInv
<1>3. CASE MoveBranch
  <2>1. UNCHANGED <<git, head, held, from, outer, at, all, measured, stamp>>
    BY <1>3 DEF MoveBranch, disk
  <2>2. tip' \in Commits
    BY <1>3, CheckoutAssumption DEF MoveBranch, IInv, TypeOK, Commits, CheckoutAssumption
  <2>3. TypeOK'
    BY <2>1, <2>2 DEF IInv, TypeOK
  <2>4. CloneInv' /\ StepInv'
    BY <2>1 DEF IInv, CloneInv, StepInv, Sparse, FullHere, Filled
  <2>5. NothingMeasuredAsZero' /\ OuterIntact' /\ StampIsTheCorpus'
    BY <2>1 DEF IInv, NothingMeasuredAsZero, OuterIntact, StampIsTheCorpus
  <2> QED BY <2>3, <2>4, <2>5 DEF IInv
<1> QED BY <1>1, <1>2, <1>3

LEMMA StepIInv == IInv /\ [Next]_vars => IInv'
<1> SUFFICES ASSUME IInv, [Next]_vars PROVE IInv'
  OBVIOUS
<1>1. CASE UNCHANGED vars
  <2>1. UNCHANGED <<tip, git, head, held, from, outer, at, all, measured, stamp>>
    BY <1>1 DEF vars, disk
  <2>2. TypeOK' /\ CloneInv'
    BY <2>1 DEF IInv, TypeOK, CloneInv
  <2>3. StepInv'
    BY <2>1 DEF IInv, StepInv, Sparse, FullHere, Filled
  <2>4. NothingMeasuredAsZero' /\ OuterIntact' /\ StampIsTheCorpus'
    BY <2>1 DEF IInv, NothingMeasuredAsZero, OuterIntact, StampIsTheCorpus
  <2> QED BY <2>2, <2>3, <2>4 DEF IInv
<1>2. CASE Next
  BY <1>2, LookingSteps, SparseSteps, RemoveAndClone, MeasuringSteps, OutsideSteps DEF Next
<1> QED BY <1>1, <1>2

\* The invariant holds of every sequence of runs, kills and restored caches.
THEOREM Inductive == Spec => []IInv
<1>1. Init => IInv
  BY InitIInv
<1>2. IInv /\ [Next]_vars => IInv'
  BY StepIInv
<1> QED BY <1>1, <1>2, PTL DEF Spec

\* The directory, the clone and the run keep their types: checkout and commit.
THEOREM CheckoutTypes == Spec => []TypeOK
<1>1. IInv => TypeOK
  BY DEF IInv
<1> QED BY <1>1, Inductive, PTL

\* No run is ever given a part with nothing in it: `here`, the layout check and
\* `tests`, after any kill and any restored cache.
THEOREM NothingIsMeasuredAsZero == Spec => []NothingMeasuredAsZero
<1>1. IInv => NothingMeasuredAsZero
  BY DEF IInv
<1> QED BY <1>1, Inductive, PTL

\* No git command that changes a working tree reaches the repository around the
\* corpus: `own` in front of the widening, and the clone in front of the other.
THEOREM OuterStaysIntact == Spec => []OuterIntact
<1>1. IInv => OuterIntact
  BY DEF IInv
<1> QED BY <1>1, Inductive, PTL

\* The commit on a page is the one the measured files came from, or unknown:
\* `commit`, guarded by `own`.
THEOREM StampsAreTrue == Spec => []StampIsTheCorpus
<1>1. IInv => StampIsTheCorpus
  BY DEF IInv
<1> QED BY <1>1, Inductive, PTL
=============================================================================
