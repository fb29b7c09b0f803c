----------------------------- MODULE Triage_proofs -----------------------------
(***************************************************************************)
(* What a reduction is trusted for, for every parser, every list of cuts   *)
(* and every pair of engines.  The one fact the proofs turn on is Fresh    *)
(* answers: while a reduction is clean, every answer it was given is the   *)
(* one two engines nobody has talked to would give.  Last, that the        *)
(* agreements and the hits of the cases add up to the statements taken.    *)
(***************************************************************************)
EXTENDS Reducer, Integers, FiniteSetTheorems, WellFoundedInduction, TLAPS

Reducing == stage \in {"cutting", "tidying"}

\* What is being reduced is a statement of the file.
AtOne ==
  Reducing =>
    /\ at \in 1..Len(file)
    /\ best \in Statements

\* What the failure to keep is, and that it is kept.
KeptAlive ==
  Reducing /\ clean =>
    /\ wanted = Fresh(file[at])
    /\ Fresh(best) \cap wanted # {}

\* The cuts that were passed are no use.
PassedForGood ==
  stage = "cutting" /\ clean =>
    \A i \in DOMAIN cuts(best) :
      i < next /\ Askable(cuts(best)[i]) => Fresh(cuts(best)[i]) \cap wanted = {}

OneCaseEach ==
  \A i, j \in DOMAIN cases : cases[i].sql = cases[j].sql => i = j

IInv ==
  /\ TypeOK
  /\ AtOne
  /\ KeptAlive
  /\ PassedForGood
  /\ MinimumOrSaysSo
  /\ CaseReproduces
  /\ OneCaseEach

-----------------------------------------------------------------------------
\* A file is made of statements.
LEMMA FileStatements ==
  ASSUME NEW f \in Files
  PROVE  /\ Len(f) \in Nat
         /\ \A i \in 1..Len(f) : f[i] \in Statements
  BY TriageAssumption DEF TriageAssumption

\* A cut worth a question is a statement.
LEMMA CutsAreStatements ==
  ASSUME NEW s \in Puttable
  PROVE  /\ cuts(s) \in Seq(Puttable)
         /\ Len(cuts(s)) \in Nat
         /\ DOMAIN cuts(s) = 1..Len(cuts(s))
         /\ \A i \in DOMAIN cuts(s) :
              /\ cuts(s)[i] \in Puttable
              /\ cuts(s)[i] # Blank => cuts(s)[i] \in Statements
<1>1. cuts(s) \in Seq(Puttable)
  BY TriageAssumption DEF TriageAssumption
<1>2. /\ Len(cuts(s)) \in Nat
      /\ DOMAIN cuts(s) = 1..Len(cuts(s))
      /\ \A i \in DOMAIN cuts(s) : cuts(s)[i] \in Puttable
  BY <1>1
<1> QED BY <1>1, <1>2 DEF Puttable

\* With nothing behind, what the engines say is what fresh ones would.
LEMMA CleanIsFresh ==
  ASSUME behind \in BOOLEAN, ~behind, NEW s
  PROVE  Said(s) = Fresh(s)
<1>1. behind = FALSE
  OBVIOUS
<1> QED BY <1>1 DEF Said, Fresh

\* And an answer is a set of signatures.
LEMMA AnswersAreSignatures ==
  ASSUME behind \in BOOLEAN, NEW s \in Puttable
  PROVE  Said(s) \subseteq Signatures
  BY TriageAssumption DEF TriageAssumption, Said

LEMMA InitIsInvariant ==
  Init => IInv
<1> SUFFICES ASSUME Init PROVE IInv
  OBVIOUS
<1>1. Len(file) \in Nat
  BY FileStatements DEF Init
<1>2. stage = "looking" /\ cases = <<>> /\ sound = {} /\ at = 1
  BY DEF Init
<1>3. /\ file \in Files /\ budget \in Budgets
      /\ behind \in BOOLEAN /\ gave_up \in BOOLEAN /\ clean \in BOOLEAN
  BY DEF Init
<1>4. /\ best \in Puttable /\ wanted \subseteq Signatures
      /\ next \in Nat \ {0} /\ tried \in Nat /\ differed \in Nat /\ agreed \in Nat
      /\ at \in 1 .. Len(file) + 1
  BY <1>1 DEF Init, Puttable
<1>5. cases \in Seq(Cases) /\ sound \subseteq DOMAIN cases
  BY <1>2
<1>6. TypeOK
  BY <1>2, <1>3, <1>4, <1>5 DEF TypeOK
<1>7. AtOne /\ KeptAlive /\ PassedForGood /\ MinimumOrSaysSo
  BY <1>2 DEF AtOne, KeptAlive, PassedForGood, MinimumOrSaysSo, Reducing
<1>8. CaseReproduces /\ OneCaseEach
  BY <1>2 DEF CaseReproduces, OneCaseEach
<1> QED BY <1>6, <1>7, <1>8 DEF IInv

-----------------------------------------------------------------------------
(***************************************************************************)
(* The steps that leave the cases alone.                                   *)
(***************************************************************************)
\* The cases are what they were.
LEMMA CasesStay ==
  ASSUME IInv, UNCHANGED counts
  PROVE  /\ CaseReproduces' /\ OneCaseEach'
         /\ cases' \in Seq(Cases) /\ differed' \in Nat /\ agreed' \in Nat
         /\ sound' \subseteq DOMAIN cases'
<1>1. UNCHANGED <<cases, differed, agreed, sound>>
  BY DEF counts
<1>2. CaseReproduces'
  BY <1>1 DEF IInv, CaseReproduces, Fresh
<1> QED BY <1>1, <1>2 DEF IInv, TypeOK, OneCaseEach

LEMMA AgreePreserves ==
  ASSUME IInv, Agree
  PROVE  IInv'
<1>1. /\ stage = "looking" /\ at <= Len(file)
      /\ agreed' = agreed + 1 /\ at' = at + 1
      /\ UNCHANGED <<file, budget, stage, wanted, best, next, tried, gave_up, cases, differed, sound>>
  BY DEF Agree, question
<1>2. behind' \in BOOLEAN /\ clean' \in BOOLEAN
  BY DEF Agree, Asked, Leave
<1>3. Len(file) \in Nat
  BY FileStatements DEF IInv, TypeOK
<1>4. at' \in 1 .. Len(file') + 1
  BY <1>1, <1>3 DEF IInv, TypeOK
<1>5. TypeOK'
  BY <1>1, <1>2, <1>4 DEF IInv, TypeOK
<1>6. AtOne' /\ KeptAlive' /\ PassedForGood' /\ MinimumOrSaysSo'
  BY <1>1 DEF AtOne, KeptAlive, PassedForGood, MinimumOrSaysSo, Reducing
<1>7. CaseReproduces' /\ OneCaseEach'
  BY <1>1 DEF IInv, CaseReproduces, OneCaseEach, Fresh
<1> QED BY <1>5, <1>6, <1>7 DEF IInv

LEMMA DifferPreserves ==
  ASSUME IInv, Differ
  PROVE  IInv'
<1>1. /\ stage = "looking" /\ at <= Len(file) /\ Said(file[at]) # {}
      /\ wanted' = Said(file[at]) /\ best' = file[at]
      /\ next' = 1 /\ tried' = 0 /\ gave_up' = FALSE /\ stage' = "cutting"
      /\ clean' = ~behind
      /\ UNCHANGED <<file, budget, at>> /\ UNCHANGED counts
  BY DEF Differ, question
<1>2. behind \in BOOLEAN /\ behind' \in BOOLEAN
  BY DEF Differ, Leave, IInv, TypeOK
<1>3. at \in 1..Len(file) /\ file[at] \in Statements /\ file[at] \in Puttable
  BY <1>1, FileStatements DEF IInv, TypeOK, Puttable
<1>4. wanted' \subseteq Signatures
  BY <1>1, <1>2, <1>3, AnswersAreSignatures
<1>5. TypeOK'
  <2>1. /\ cases' \in Seq(Cases) /\ differed' \in Nat /\ agreed' \in Nat
        /\ sound' \subseteq DOMAIN cases'
    BY <1>1, CasesStay
  <2>2. /\ file' \in Files /\ budget' \in Budgets /\ at' \in 1 .. Len(file') + 1
    BY <1>1 DEF IInv, TypeOK
  <2>3. clean' \in BOOLEAN /\ gave_up' \in BOOLEAN
    BY <1>1, <1>2
  <2>4. /\ best' \in Puttable /\ best' \in Statements
        /\ next' \in Nat \ {0} /\ tried' \in Nat
    BY <1>1, <1>3
  <2> QED BY <1>1, <1>2, <1>4, <2>1, <2>2, <2>3, <2>4 DEF TypeOK
<1>6. AtOne'
  BY <1>1, <1>3 DEF AtOne, Reducing
<1>7. KeptAlive'
  <2> SUFFICES ASSUME clean' PROVE wanted' = Fresh(file[at]) /\ Fresh(best') \cap wanted' # {}
    BY <1>1 DEF KeptAlive, Fresh
  <2>1. Said(file[at]) = Fresh(file[at])
    BY <1>1, <1>2, CleanIsFresh
  <2> QED BY <1>1, <2>1
<1>8. PassedForGood'
  <2>1. DOMAIN cuts(best') = 1..Len(cuts(best')) /\ Len(cuts(best')) \in Nat
    BY <1>1, <1>3, CutsAreStatements
  <2>2. \A i \in DOMAIN cuts(best') : ~(i < next')
    BY <1>1, <2>1
  <2> QED BY <2>2 DEF PassedForGood
<1>9. MinimumOrSaysSo'
  BY <1>1 DEF MinimumOrSaysSo
<1> QED BY <1>1, <1>5, <1>6, <1>7, <1>8, <1>9, CasesStay DEF IInv

\* What a step over a candidate may rely on.
LEMMA CandidateFacts ==
  ASSUME IInv, Cutting
  PROVE  /\ stage = "cutting" /\ Reducing
         /\ best \in Statements /\ best \in Puttable
         /\ next \in DOMAIN cuts(best) /\ next \in Nat
         /\ Candidate \in Puttable
         /\ Askable(Candidate) => Candidate \in Statements
         /\ behind \in BOOLEAN
<1>1. /\ stage = "cutting" /\ Reducing /\ next <= Len(cuts(best))
      /\ next \in Nat \ {0} /\ behind \in BOOLEAN
  BY DEF Cutting, Reducing, IInv, TypeOK
<1>2. best \in Statements /\ best \in Puttable
  BY <1>1 DEF IInv, AtOne, Puttable
<1>3. next \in DOMAIN cuts(best)
  BY <1>1, <1>2, CutsAreStatements
<1> QED BY <1>1, <1>2, <1>3, CutsAreStatements DEF Candidate, Askable

\* The cut at `next` is passed for good.
LEMMA OneMorePassed ==
  ASSUME IInv, Cutting,
         UNCHANGED <<file, stage, at, best, wanted>>, next' = next + 1,
         clean' => clean,
         clean' /\ Askable(Candidate) => Fresh(Candidate) \cap wanted = {}
  PROVE  /\ next' \in Nat \ {0}
         /\ AtOne' /\ KeptAlive' /\ PassedForGood' /\ MinimumOrSaysSo'
<1>1. stage = "cutting" /\ next \in Nat /\ best \in Puttable
  BY CandidateFacts
<1>2. AtOne' /\ KeptAlive'
  BY DEF IInv, AtOne, KeptAlive, Reducing, Fresh
<1>3. PassedForGood'
  <2> SUFFICES ASSUME clean', NEW i \in DOMAIN cuts(best), i < next + 1, Askable(cuts(best)[i])
      PROVE  Fresh(cuts(best)[i]) \cap wanted = {}
    BY DEF PassedForGood, Askable, Fresh
  <2>1. CASE i = next
    BY <2>1 DEF Candidate
  <2>2. CASE i < next
    BY <1>1, <2>2 DEF IInv, PassedForGood
  <2>3. i \in Nat
    BY <1>1, CutsAreStatements
  <2> QED BY <1>1, <2>1, <2>2, <2>3
<1>4. MinimumOrSaysSo'
  BY <1>1 DEF MinimumOrSaysSo
<1> QED BY <1>1, <1>2, <1>3, <1>4

LEMMA PassPreserves ==
  ASSUME IInv, Pass
  PROVE  IInv'
<1>1. /\ Cutting /\ ~Askable(Candidate) /\ next' = next + 1
      /\ UNCHANGED <<file, budget, stage, at, behind, wanted, best, tried, gave_up, clean>>
      /\ UNCHANGED counts
  BY DEF Pass, question
<1>2. AtOne' /\ KeptAlive' /\ PassedForGood' /\ MinimumOrSaysSo' /\ next' \in Nat \ {0}
  BY <1>1, OneMorePassed
<1>3. TypeOK'
  BY <1>1, <1>2, CasesStay DEF IInv, TypeOK
<1> QED BY <1>1, <1>2, <1>3, CasesStay DEF IInv

LEMMA DropPreserves ==
  ASSUME IInv, Drop
  PROVE  IInv'
<1>1. /\ Cutting /\ ~StillFails(Candidate) /\ next' = next + 1 /\ tried' = tried + 1
      /\ UNCHANGED <<file, budget, stage, at, wanted, best, gave_up>>
      /\ UNCHANGED counts
      /\ Asked(Candidate)
  BY DEF Drop, question
<1>2. behind \in BOOLEAN /\ clean \in BOOLEAN
  BY DEF IInv, TypeOK
<1>3. /\ behind' \in BOOLEAN /\ clean' \in BOOLEAN
      /\ clean' => clean /\ ~behind
  BY <1>1, <1>2 DEF Asked, Leave
<1>4. ASSUME clean' PROVE Fresh(Candidate) \cap wanted = {}
  BY <1>1, <1>2, <1>3, <1>4, CleanIsFresh DEF StillFails
<1>5. AtOne' /\ KeptAlive' /\ PassedForGood' /\ MinimumOrSaysSo' /\ next' \in Nat \ {0}
  BY <1>1, <1>3, <1>4, OneMorePassed
<1>6. tried' \in Nat
  BY <1>1 DEF IInv, TypeOK
<1>7. TypeOK'
  BY <1>1, <1>3, <1>5, <1>6, CasesStay DEF IInv, TypeOK
<1> QED BY <1>1, <1>5, <1>7, CasesStay DEF IInv

LEMMA KeepPreserves ==
  ASSUME IInv, Keep
  PROVE  IInv'
<1>1. /\ Cutting /\ Askable(Candidate) /\ StillFails(Candidate)
      /\ best' = Candidate /\ next' = 1 /\ tried' = tried + 1
      /\ UNCHANGED <<file, budget, stage, at, wanted, gave_up>>
      /\ UNCHANGED counts
      /\ Asked(Candidate)
  BY DEF Keep, question
<1>2. /\ stage = "cutting" /\ Reducing /\ Candidate \in Statements /\ Candidate \in Puttable
      /\ behind \in BOOLEAN /\ clean \in BOOLEAN
  BY <1>1, CandidateFacts DEF IInv, TypeOK
<1>3. /\ behind' \in BOOLEAN /\ clean' \in BOOLEAN
      /\ clean' => clean /\ ~behind
  BY <1>1, <1>2 DEF Asked, Leave
<1>4. tried' \in Nat
  BY <1>1 DEF IInv, TypeOK
<1>5. TypeOK'
  BY <1>1, <1>2, <1>3, <1>4, CasesStay DEF IInv, TypeOK
<1>6. AtOne'
  BY <1>1, <1>2 DEF IInv, AtOne, Reducing
<1>7. KeptAlive'
  <2> SUFFICES ASSUME clean' PROVE wanted = Fresh(file[at]) /\ Fresh(Candidate) \cap wanted # {}
    BY <1>1 DEF KeptAlive, Fresh
  <2>1. wanted = Fresh(file[at])
    BY <1>2, <1>3 DEF IInv, KeptAlive
  <2>2. Said(Candidate) = Fresh(Candidate)
    BY <1>2, <1>3, CleanIsFresh
  <2> QED BY <1>1, <2>1, <2>2 DEF StillFails
<1>8. PassedForGood'
  <2>1. DOMAIN cuts(best') = 1..Len(cuts(best')) /\ Len(cuts(best')) \in Nat
    BY <1>1, <1>2, CutsAreStatements
  <2>2. \A i \in DOMAIN cuts(best') : ~(i < next')
    BY <1>1, <2>1
  <2> QED BY <2>2 DEF PassedForGood
<1>9. MinimumOrSaysSo'
  BY <1>1, <1>2 DEF MinimumOrSaysSo
<1> QED BY <1>1, <1>5, <1>6, <1>7, <1>8, <1>9, CasesStay DEF IInv

LEMMA StoppingPreserves ==
  ASSUME IInv, GiveUp \/ NothingLeftToCut
  PROVE  IInv'
<1>1. /\ stage = "cutting" /\ stage' = "tidying"
      /\ UNCHANGED <<file, budget, at, behind, wanted, best, next, tried, clean>>
      /\ UNCHANGED counts
  BY DEF GiveUp, NothingLeftToCut, Cutting, question
<1>2. /\ gave_up' \in BOOLEAN
      /\ gave_up' \/ next > Len(cuts(best))
  BY DEF GiveUp, NothingLeftToCut, IInv, TypeOK
<1>3. TypeOK'
  BY <1>1, <1>2, CasesStay DEF IInv, TypeOK
<1>4. AtOne' /\ KeptAlive' /\ PassedForGood'
  BY <1>1 DEF IInv, AtOne, KeptAlive, PassedForGood, Reducing, Fresh
<1>5. MinimumOrSaysSo'
  <2> SUFFICES ASSUME ~gave_up', clean, NEW i \in DOMAIN cuts(best), Askable(cuts(best)[i])
      PROVE  Fresh(cuts(best)[i]) \cap wanted = {}
    BY <1>1 DEF MinimumOrSaysSo, Askable, Fresh
  <2>1. best \in Puttable /\ next \in Nat
    BY DEF IInv, TypeOK
  <2>2. i < next
    BY <1>2, <2>1, CutsAreStatements
  <2> QED BY <1>1, <2>2 DEF IInv, PassedForGood
<1> QED BY <1>1, <1>3, <1>4, <1>5, CasesStay DEF IInv

LEMMA EndingPreserves ==
  ASSUME IInv, Break \/ Report
  PROVE  IInv'
<1>1. /\ stage' \in {"broken", "printed"}
      /\ UNCHANGED <<file, budget, at, behind, wanted, best, next, tried, gave_up, clean>>
      /\ UNCHANGED counts
  BY DEF Break, Report, question
<1>2. TypeOK'
  BY <1>1, CasesStay DEF IInv, TypeOK
<1>3. AtOne' /\ KeptAlive' /\ PassedForGood' /\ MinimumOrSaysSo'
  BY <1>1 DEF AtOne, KeptAlive, PassedForGood, MinimumOrSaysSo, Reducing
<1> QED BY <1>1, <1>2, <1>3, CasesStay DEF IInv

-----------------------------------------------------------------------------
(***************************************************************************)
(* The step that counts a case.                                            *)
(***************************************************************************)
\* What is counted fails there and then, and what was not asked again did.
LEMMA TidiedFacts ==
  ASSUME IInv, Tidy
  PROVE  /\ Reducing /\ at \in 1..Len(file) /\ file[at] \in Statements
         /\ best' \in Puttable
         /\ behind' \in BOOLEAN /\ clean' \in BOOLEAN /\ tried' \in Nat
         /\ clean' => Fresh(best') \cap Fresh(file[at]) # {}
<1>1. stage = "tidying" /\ Reducing
  BY DEF Tidy, Reducing
<1>2. /\ at \in 1..Len(file) /\ best \in Statements /\ best \in Puttable /\ file[at] \in Statements
      /\ behind \in BOOLEAN /\ clean \in BOOLEAN /\ tried \in Nat
  BY <1>1, FileStatements DEF IInv, AtOne, TypeOK, Puttable
<1>3. ASSUME clean
      PROVE  Fresh(best) \cap wanted # {} /\ wanted = Fresh(file[at])
  BY <1>1, <1>3 DEF IInv, KeptAlive
<1>4. CASE tidy(best) = best
  <2>1. UNCHANGED <<behind, clean, tried, best>>
    BY <1>4 DEF Tidy
  <2> QED BY <1>1, <1>2, <1>3, <2>1
<1>5. CASE tidy(best) # best
  <2>1. /\ Asked(tidy(best)) /\ tried' = tried + 1
        /\ best' = IF StillFails(tidy(best)) THEN tidy(best) ELSE best
    BY <1>5 DEF Tidy
  <2>2. tidy(best) \in Puttable
    BY <1>2, TriageAssumption DEF TriageAssumption
  <2>3. /\ behind' \in BOOLEAN /\ clean' \in BOOLEAN
        /\ clean' => clean /\ ~behind
    BY <1>2, <2>1 DEF Asked, Leave
  <2>4. ASSUME clean' PROVE Fresh(best') \cap Fresh(file[at]) # {}
    <3>1. Said(tidy(best)) = Fresh(tidy(best))
      BY <1>2, <2>3, <2>4, CleanIsFresh
    <3>2. CASE StillFails(tidy(best))
      BY <1>3, <2>1, <2>3, <2>4, <3>1, <3>2 DEF StillFails
    <3>3. CASE ~StillFails(tidy(best))
      BY <1>3, <2>1, <2>3, <2>4, <3>3
    <3> QED BY <3>2, <3>3
  <2>5. best' \in Puttable
    BY <1>2, <2>1, <2>2
  <2>6. tried' \in Nat
    BY <1>2, <2>1
  <2> QED BY <1>1, <1>2, <2>3, <2>4, <2>5, <2>6
<1> QED BY <1>4, <1>5

LEMMA TidyPreserves ==
  ASSUME IInv, Tidy
  PROVE  IInv'
<1>1. /\ Add(best') /\ stage' = "looking" /\ at' = at + 1
      /\ UNCHANGED <<file, budget, wanted, next, gave_up>>
  BY DEF Tidy, question
<1>2. /\ cases \in Seq(Cases) /\ sound \subseteq DOMAIN cases
      /\ differed \in Nat /\ agreed \in Nat /\ wanted \subseteq Signatures
      /\ Len(cases) \in Nat /\ DOMAIN cases = 1..Len(cases)
      /\ \A i \in DOMAIN cases : cases[i] \in Cases
  BY DEF IInv, TypeOK
<1>3. differed' \in Nat /\ agreed' \in Nat
  BY <1>1, <1>2 DEF Add
<1>4. ASSUME cases' \in Seq(Cases), sound' \subseteq DOMAIN cases'
      PROVE  TypeOK'
  <2>1. Len(file) \in Nat /\ at \in 1..Len(file)
    BY TidiedFacts, FileStatements DEF IInv, TypeOK
  <2>2. at' \in 1 .. Len(file') + 1
    BY <1>1, <2>1
  <2> QED BY <1>1, <1>3, <1>4, <2>2, TidiedFacts DEF IInv, TypeOK
<1>5. AtOne' /\ KeptAlive' /\ PassedForGood' /\ MinimumOrSaysSo'
  BY <1>1 DEF AtOne, KeptAlive, PassedForGood, MinimumOrSaysSo, Reducing
<1>6. CASE Found(best') # {}
  <2>1. /\ cases' = [i \in DOMAIN cases |->
                       IF i \in Found(best') THEN [cases[i] EXCEPT !.hits = @ + 1] ELSE cases[i]]
        /\ sound' = sound
    BY <1>1, <1>6 DEF Add
  <2>2. /\ DOMAIN cases' = DOMAIN cases
        /\ \A i \in DOMAIN cases :
             /\ cases'[i] \in Cases
             /\ cases'[i].sql = cases[i].sql /\ cases'[i].first = cases[i].first
    <3> SUFFICES ASSUME NEW i \in DOMAIN cases
        PROVE  /\ cases'[i] \in Cases
               /\ cases'[i].sql = cases[i].sql /\ cases'[i].first = cases[i].first
      BY <2>1
    <3>1. cases[i] \in Cases
      BY <1>2
    <3>2. CASE i \in Found(best')
      <4>1. cases'[i] = [cases[i] EXCEPT !.hits = @ + 1]
        BY <2>1, <3>2
      <4> QED BY <3>1, <4>1 DEF Cases
    <3>3. CASE i \notin Found(best')
      <4>1. cases'[i] = cases[i]
        BY <2>1, <3>3
      <4> QED BY <3>1, <4>1
    <3> QED BY <3>2, <3>3
  <2>3. cases' \in Seq(Cases) /\ sound' \subseteq DOMAIN cases'
    <3>1. cases' \in [1..Len(cases) -> Cases]
      BY <1>2, <2>1, <2>2
    <3> QED BY <1>2, <2>1, <2>2, <3>1
  <2>4. CaseReproduces'
    BY <1>2, <2>1, <2>2 DEF IInv, CaseReproduces, Fresh
  <2>5. OneCaseEach'
    BY <2>2 DEF IInv, OneCaseEach
  <2> QED BY <1>4, <1>5, <2>3, <2>4, <2>5 DEF IInv
<1>7. CASE Found(best') = {}
  <2> DEFINE new == Case(best', wanted, file[at])
  <2>1. /\ cases' = Append(cases, new)
        /\ sound' = IF clean' THEN sound \cup {Len(cases) + 1} ELSE sound
    BY <1>1, <1>7 DEF Add
  <2>2. new \in Cases /\ new.sql = best' /\ new.first = file[at]
    BY <1>2, TidiedFacts DEF Case, Cases
  <2> HIDE DEF new
  <2>3. /\ cases' \in Seq(Cases)
        /\ DOMAIN cases' = 1 .. Len(cases) + 1
        /\ \A i \in DOMAIN cases : cases'[i] = cases[i]
        /\ cases'[Len(cases) + 1] = new
    BY <1>2, <2>1, <2>2
  <2>4. sound' \subseteq DOMAIN cases'
    BY <1>2, <2>1, <2>3
  <2>5. CaseReproduces'
    <3> SUFFICES ASSUME NEW i \in sound'
        PROVE  Fresh(cases'[i].sql) \cap Fresh(cases'[i].first) # {}
      BY DEF CaseReproduces, Fresh
    <3>1. CASE i \in sound
      <4>1. cases'[i] = cases[i]
        BY <1>2, <2>3, <3>1
      <4> QED BY <3>1, <4>1 DEF IInv, CaseReproduces
    <3>2. CASE i \notin sound
      <4>1. clean' /\ i = Len(cases) + 1
        BY <2>1, <3>2
      <4> QED BY <2>2, <2>3, <4>1, TidiedFacts
    <3> QED BY <3>1, <3>2
  <2>6. \A i \in DOMAIN cases : cases[i].sql # best'
    BY <1>7 DEF Found
  <2>7. OneCaseEach'
    <3> SUFFICES ASSUME NEW i \in DOMAIN cases', NEW j \in DOMAIN cases',
                        cases'[i].sql = cases'[j].sql
        PROVE  i = j
      BY DEF OneCaseEach
    <3>1. i \in DOMAIN cases \/ i = Len(cases) + 1
      BY <1>2, <2>3
    <3>2. j \in DOMAIN cases \/ j = Len(cases) + 1
      BY <1>2, <2>3
    <3>3. CASE i \in DOMAIN cases /\ j \in DOMAIN cases
      BY <2>3, <3>3 DEF IInv, OneCaseEach
    <3> QED BY <2>2, <2>3, <2>6, <3>1, <3>2, <3>3
  <2> QED BY <1>4, <1>5, <2>3, <2>4, <2>5, <2>7 DEF IInv
<1> QED BY <1>6, <1>7

-----------------------------------------------------------------------------
LEMMA NextPreserves ==
  IInv /\ [Next]_vars => IInv'
<1> SUFFICES ASSUME IInv, [Next]_vars PROVE IInv'
  OBVIOUS
<1>1. CASE UNCHANGED vars
  <2>1. UNCHANGED <<file, budget, stage, at, behind, wanted, best, next, tried, gave_up,
                    cases, differed, agreed, clean, sound>>
    BY <1>1 DEF vars
  <2>2. TypeOK'
    BY <2>1 DEF IInv, TypeOK
  <2>3. AtOne' /\ KeptAlive' /\ PassedForGood' /\ MinimumOrSaysSo'
    BY <2>1 DEF IInv, AtOne, KeptAlive, PassedForGood, MinimumOrSaysSo, Reducing, Fresh, Askable
  <2>4. CaseReproduces' /\ OneCaseEach'
    BY <2>1 DEF IInv, CaseReproduces, OneCaseEach, Fresh
  <2> QED BY <2>2, <2>3, <2>4 DEF IInv
<1>2. CASE Next
  BY <1>2, AgreePreserves, DifferPreserves, PassPreserves, StoppingPreserves, KeepPreserves,
     DropPreserves, TidyPreserves, EndingPreserves DEF Next
<1> QED BY <1>1, <1>2

\* Every state of a run satisfies the invariant.
THEOREM Inductive == Spec => []IInv
  BY InitIsInvariant, NextPreserves, PTL DEF Spec

\* Every variable of a triage keeps its type, whatever the parser and the
\* engines answer.
THEOREM TriageTypes == Spec => []TypeOK
<1>1. IInv => TypeOK
  BY DEF IInv
<1> QED BY <1>1, Inductive, PTL

\* A case whose reduction met no leftover reproduces what it was found in,
\* through any list of cuts and any budget (`shrink` with `Alive::keeps`).
THEOREM CasesReproduce == Spec => []CaseReproduces
<1>1. IInv => CaseReproduces
  BY DEF IInv
<1> QED BY <1>1, Inductive, PTL

\* A reduction that does not say it gave up has no cut left to make, whether
\* or not what still fails shrinks with the statement (`shrink`, 'again).
THEOREM MinimaAreReal == Spec => []MinimumOrSaysSo
<1>1. IInv => MinimumOrSaysSo
  BY DEF IInv
<1> QED BY <1>1, Inductive, PTL

\* No two cases are of one reduced statement (`Distinct::add`).
THEOREM CasesAreDistinct == Spec => []OneCaseEach
<1>1. IInv => OneCaseEach
  BY DEF IInv
<1> QED BY <1>1, Inductive, PTL

-----------------------------------------------------------------------------
(***************************************************************************)
(* The hits of a list of cases.  The sum is a recursive function, and what *)
(* is needed of it is that there is one and only one for every list: both  *)
(* by looking at the least place where it would fail.                      *)
(***************************************************************************)
\* A set of naturals that has a member has a least one.
LEMMA LeastNat ==
  ASSUME NEW T, T \subseteq Nat, T # {}
  PROVE  \E x \in T : \A y \in T : x <= y
<1>1. IsWellFoundedOn(OpToRel(<, Nat), Nat)
  BY NatLessThanWellFounded
<1>2. PICK x \in T : \A y \in T : ~(<<y, x>> \in OpToRel(<, Nat))
  BY <1>1, WFMin
<1>3. \A y \in T : ~(y < x)
  BY <1>2 DEF OpToRel
<1> QED BY <1>3

\* f sums the hits of the first n cases of c, for each n up to m.
Sums(f, c, m) == f = [n \in 0..m |-> IF n = 0 THEN 0 ELSE f[n - 1] + c[n].hits]

Counted(c, m) == \A n \in 1..m : c[n].hits \in Nat

LEMMA SumsType ==
  ASSUME NEW f, NEW c, NEW m \in Nat, Sums(f, c, m), Counted(c, m)
  PROVE  f \in [0..m -> Nat]
<1>1. f = [n \in 0..m |-> IF n = 0 THEN 0 ELSE f[n - 1] + c[n].hits]
  BY DEF Sums
<1> DEFINE Bad == {n \in 0..m : f[n] \notin Nat}
<1>2. Bad = {}
  <2> SUFFICES ASSUME Bad # {} PROVE FALSE
    OBVIOUS
  <2>1. Bad \subseteq Nat
    OBVIOUS
  <2> HIDE DEF Bad
  <2>2. PICK k \in Bad : \A j \in Bad : k <= j
    BY <2>1, LeastNat
  <2>3. k \in 0..m /\ f[k] \notin Nat
    BY <2>2 DEF Bad
  <2>4. k # 0
    BY <1>1, <2>3
  <2>5. f[k] = f[k - 1] + c[k].hits
    BY <1>1, <2>3, <2>4
  <2>6. k - 1 \in 0..m /\ k - 1 \notin Bad
    BY <2>1, <2>2, <2>3, <2>4
  <2>7. f[k - 1] \in Nat /\ c[k].hits \in Nat
    BY <2>3, <2>4, <2>6 DEF Bad, Counted
  <2> QED BY <2>3, <2>5, <2>7
<1>3. \A n \in 0..m : f[n] \in Nat
  BY <1>2
<1>4. f = [n \in 0..m |-> f[n]]
  BY <1>1
<1> QED BY <1>3, <1>4

LEMMA SumsUnique ==
  ASSUME NEW f, NEW g, NEW c, NEW m \in Nat, Sums(f, c, m), Sums(g, c, m)
  PROVE  f = g
<1>1. /\ f = [n \in 0..m |-> IF n = 0 THEN 0 ELSE f[n - 1] + c[n].hits]
      /\ g = [n \in 0..m |-> IF n = 0 THEN 0 ELSE g[n - 1] + c[n].hits]
  BY DEF Sums
<1> DEFINE Bad == {n \in 0..m : f[n] # g[n]}
<1>2. Bad = {}
  <2> SUFFICES ASSUME Bad # {} PROVE FALSE
    OBVIOUS
  <2>1. Bad \subseteq Nat
    OBVIOUS
  <2> HIDE DEF Bad
  <2>2. PICK k \in Bad : \A j \in Bad : k <= j
    BY <2>1, LeastNat
  <2>3. k \in 0..m /\ f[k] # g[k]
    BY <2>2 DEF Bad
  <2>4. k # 0
    BY <1>1, <2>3
  <2>5. f[k] = f[k - 1] + c[k].hits /\ g[k] = g[k - 1] + c[k].hits
    BY <1>1, <2>3, <2>4
  <2>6. k - 1 \in 0..m /\ k - 1 \notin Bad
    BY <2>1, <2>2, <2>3, <2>4
  <2>7. f[k - 1] = g[k - 1]
    BY <2>6 DEF Bad
  <2> QED BY <2>3, <2>5, <2>7
<1>3. \A n \in 0..m : f[n] = g[n]
  BY <1>2
<1>4. f = [n \in 0..m |-> f[n]] /\ g = [n \in 0..m |-> g[n]]
  BY <1>1
<1> QED BY <1>3, <1>4

LEMMA SumsExtend ==
  ASSUME NEW f, NEW c, NEW m \in Nat, Sums(f, c, m)
  PROVE  Sums([n \in 0..(m + 1) |-> IF n = m + 1 THEN f[m] + c[m + 1].hits ELSE f[n]],
              c, m + 1)
<1> DEFINE g == [n \in 0..(m + 1) |-> IF n = m + 1 THEN f[m] + c[m + 1].hits ELSE f[n]]
<1>1. f = [n \in 0..m |-> IF n = 0 THEN 0 ELSE f[n - 1] + c[n].hits]
  BY DEF Sums
<1>2. ASSUME NEW n \in 0..(m + 1)
      PROVE  g[n] = IF n = 0 THEN 0 ELSE g[n - 1] + c[n].hits
  <2>1. CASE n = 0
    BY <1>1, <2>1
  <2>2. CASE n = m + 1
    BY <2>2
  <2>3. CASE n \in 1..m
    BY <1>1, <2>3
  <2> QED BY <2>1, <2>2, <2>3
<1>3. g = [n \in 0..(m + 1) |-> g[n]]
  OBVIOUS
<1>4. g = [n \in 0..(m + 1) |-> IF n = 0 THEN 0 ELSE g[n - 1] + c[n].hits]
  <2> HIDE DEF g
  <2> QED BY <1>2, <1>3
<1> QED BY <1>4 DEF Sums

LEMMA SumsExist ==
  ASSUME NEW c, NEW m \in Nat
  PROVE  \E f : Sums(f, c, m)
<1> DEFINE Bad == {k \in Nat : ~\E f : Sums(f, c, k)}
<1>1. Bad = {}
  <2> SUFFICES ASSUME Bad # {} PROVE FALSE
    OBVIOUS
  <2>1. Bad \subseteq Nat
    OBVIOUS
  <2> HIDE DEF Bad
  <2>2. PICK k \in Bad : \A j \in Bad : k <= j
    BY <2>1, LeastNat
  <2>3. k \in Nat /\ ~\E f : Sums(f, c, k)
    BY <2>2 DEF Bad
  <2>4. k # 0
    <3>1. Sums([n \in 0..0 |-> 0], c, 0)
      BY DEF Sums
    <3> QED BY <2>3, <3>1
  <2>5. k - 1 \in Nat /\ k - 1 \notin Bad /\ (k - 1) + 1 = k
    BY <2>1, <2>2, <2>3, <2>4
  <2>6. PICK f : Sums(f, c, k - 1)
    BY <2>5 DEF Bad
  <2>7. \E g : Sums(g, c, (k - 1) + 1)
    BY <2>5, <2>6, SumsExtend
  <2> QED BY <2>3, <2>5, <2>7
<1> QED BY <1>1

\* The function of the module is that sum.
LEMMA HitsAreSums ==
  ASSUME Len(cases) \in Nat
  PROVE  Sums(HitsUpTo, cases, Len(cases))
<1>1. PICK f : Sums(f, cases, Len(cases))
  BY SumsExist
<1> QED BY <1>1 DEF Sums, HitsUpTo

\* Each case has the statements that went into it, and no other is in any.
AllCounted ==
  /\ HitsUpTo[Len(cases)] = differed
  /\ agreed + differed = at - 1

LEMMA TidyCounts ==
  ASSUME IInv, IInv', HitsUpTo[Len(cases)] = differed, Tidy
  PROVE  (HitsUpTo[Len(cases)] = differed)'
<1>1. /\ Add(best') /\ differed' = differed + 1
  BY DEF Tidy, Add
<1>2. /\ cases \in Seq(Cases) /\ Len(cases) \in Nat /\ DOMAIN cases = 1..Len(cases)
      /\ cases' \in Seq(Cases) /\ Len(cases') \in Nat /\ DOMAIN cases' = 1..Len(cases')
      /\ differed \in Nat
  BY DEF IInv, TypeOK
<1>3. Sums(HitsUpTo, cases, Len(cases))
  BY <1>2, HitsAreSums
<1>4. Sums(HitsUpTo', cases', Len(cases'))
  <2>1. PICK f : Sums(f, cases', Len(cases'))
    BY <1>2, SumsExist
  <2> QED BY <2>1 DEF Sums, HitsUpTo
<1> DEFINE m == Len(cases)
<1>5. CASE Found(best') = {}
  <2> DEFINE g == [n \in 0..(m + 1) |-> IF n = m + 1 THEN HitsUpTo[m] + cases'[m + 1].hits ELSE HitsUpTo[n]]
  <2>1. cases' = Append(cases, Case(best', wanted, file[at]))
    BY <1>1, <1>5 DEF Add
  <2>2. /\ Len(cases') = m + 1
        /\ \A n \in 1..m : cases'[n] = cases[n]
        /\ cases'[m + 1] = Case(best', wanted, file[at])
    BY <1>2, <2>1
  <2>3. cases'[m + 1].hits = 1
    BY <2>2 DEF Case
  <2>4. Sums(HitsUpTo, cases', m)
    BY <1>3, <2>2 DEF Sums
  <2>5. Sums(g, cases', m + 1)
    BY <1>2, <2>4, SumsExtend
  <2>6. HitsUpTo' = g
    BY <1>2, <1>4, <2>2, <2>5, SumsUnique
  <2>7. g[m + 1] = HitsUpTo[m] + 1
    BY <1>2, <2>3
  <2> QED BY <1>1, <2>2, <2>6, <2>7
<1>6. CASE Found(best') # {}
  <2>1. cases' = [i \in DOMAIN cases |->
                    IF i \in Found(best') THEN [cases[i] EXCEPT !.hits = @ + 1] ELSE cases[i]]
    BY <1>1, <1>6 DEF Add
  <2>2. PICK k \in DOMAIN cases : Found(best') = {k}
    BY <1>6 DEF Found, IInv, OneCaseEach
  <2>3. Len(cases') = m
    BY <1>2, <2>1
  <2>4. \A n \in 1..m : /\ cases[n].hits \in Nat
                       /\ cases'[n].hits = IF n = k THEN cases[n].hits + 1 ELSE cases[n].hits
    <3> SUFFICES ASSUME NEW n \in 1..m
                 PROVE  /\ cases[n].hits \in Nat
                        /\ cases'[n].hits = IF n = k THEN cases[n].hits + 1 ELSE cases[n].hits
      OBVIOUS
    <3>1. cases[n] \in Cases
      BY <1>2
    <3>2. CASE n = k
      <4>1. cases'[n] = [cases[n] EXCEPT !.hits = @ + 1]
        BY <1>2, <2>1, <2>2, <3>2
      <4> QED BY <3>1, <3>2, <4>1 DEF Cases
    <3>3. CASE n # k
      <4>1. cases'[n] = cases[n]
        BY <1>2, <2>1, <2>2, <3>3
      <4> QED BY <3>1, <3>3, <4>1 DEF Cases
    <3> QED BY <3>2, <3>3
  <2> DEFINE h == HitsUpTo
             g == [n \in 0..m |-> IF n >= k THEN h[n] + 1 ELSE h[n]]
  <2>5. h \in [0..m -> Nat]
    BY <1>2, <1>3, <2>4, SumsType DEF Counted
  <2>6. \A n \in 0..m : h[n] = IF n = 0 THEN 0 ELSE h[n - 1] + cases[n].hits
    BY <1>3 DEF Sums
  <2> HIDE DEF h
  <2>7. ASSUME NEW n \in 0..m
        PROVE  g[n] = IF n = 0 THEN 0 ELSE g[n - 1] + cases'[n].hits
    <3>1. k \in 1..m /\ m \in Nat
      BY <1>2, <2>2
    <3>2. CASE n = 0
      BY <2>6, <3>1, <3>2
    <3>3. CASE n \in 1..m
      <4>1. n - 1 \in 0..m /\ h[n] \in Nat /\ h[n - 1] \in Nat
        BY <2>5, <3>1, <3>3
      <4>2. h[n] = h[n - 1] + cases[n].hits /\ cases[n].hits \in Nat
        BY <2>4, <2>6, <3>3
      <4>3. cases'[n].hits = IF n = k THEN cases[n].hits + 1 ELSE cases[n].hits
        BY <2>4, <3>3
      <4>4. /\ g[n] = IF n >= k THEN h[n] + 1 ELSE h[n]
            /\ g[n - 1] = IF n - 1 >= k THEN h[n - 1] + 1 ELSE h[n - 1]
        BY <4>1
      <4> HIDE DEF g
      <4>5. n # 0 /\ n \in Nat /\ k \in Nat
        BY <3>1, <3>3
      <4>6. g[n] = g[n - 1] + cases'[n].hits
        <5>1. CASE n < k
          BY <4>1, <4>2, <4>3, <4>4, <4>5, <5>1
        <5>2. CASE n = k
          BY <4>1, <4>2, <4>3, <4>4, <4>5, <5>2
        <5>3. CASE n > k
          <6>1. n >= k /\ n - 1 >= k /\ n # k
            BY <4>5, <5>3
          <6>2. /\ g[n] = h[n] + 1 /\ g[n - 1] = h[n - 1] + 1
                /\ cases'[n].hits = cases[n].hits
            BY <4>3, <4>4, <6>1, Zenon
          <6>3. (h[n - 1] + cases[n].hits) + 1 = (h[n - 1] + 1) + cases[n].hits
            <7>1. \A x, y \in Nat : (x + y) + 1 = (x + 1) + y
              OBVIOUS
            <7> QED BY <4>1, <4>2, <7>1, Zenon
          <6>4. h[n] + 1 = (h[n - 1] + cases[n].hits) + 1
            BY <4>2, Zenon
          <6> QED BY <6>2, <6>3, <6>4, Zenon
        <5> QED BY <4>5, <5>1, <5>2, <5>3
      <4> QED BY <4>5, <4>6, Zenon
    <3> QED BY <3>1, <3>2, <3>3
  <2>8. g = [n \in 0..m |-> g[n]]
    OBVIOUS
  <2>9. g[m] = h[m] + 1
    BY <1>2, <2>2
  <2> HIDE DEF g
  <2>10. Sums(g, cases', m)
    BY <2>7, <2>8 DEF Sums
  <2>11. HitsUpTo' = g
    BY <1>2, <1>4, <2>3, <2>10, SumsUnique
  <2> QED BY <1>1, <2>3, <2>9, <2>11 DEF h
<1> QED BY <1>5, <1>6

\* The sum is of the cases, so a step that leaves them leaves it.
LEMMA SumStays ==
  ASSUME cases' = cases
  PROVE  HitsUpTo' = HitsUpTo /\ Len(cases') = Len(cases)
  BY DEF HitsUpTo

LEMMA StepCounts ==
  ASSUME IInv, IInv', AllCounted, [Next]_vars
  PROVE  AllCounted'
<1>0. at \in Nat /\ agreed \in Nat /\ differed \in Nat
  <2>1. Len(file) \in Nat
    BY FileStatements DEF IInv, TypeOK
  <2> QED BY <2>1 DEF IInv, TypeOK
<1>1. CASE Agree
  <2>1. cases' = cases /\ differed' = differed /\ agreed' = agreed + 1 /\ at' = at + 1
    BY <1>1 DEF Agree
  <2> QED BY <1>0, <2>1, SumStays DEF AllCounted
<1>2. CASE Tidy
  <2>1. (HitsUpTo[Len(cases)] = differed)'
    BY <1>2, TidyCounts DEF AllCounted
  <2>2. differed' = differed + 1 /\ agreed' = agreed /\ at' = at + 1
    BY <1>2 DEF Tidy, Add
  <2> QED BY <1>0, <2>1, <2>2 DEF AllCounted
<1>3. CASE ~Agree /\ ~Tidy
  <2>1. UNCHANGED <<cases, differed, agreed, at>>
    BY <1>3 DEF Next, Differ, Pass, GiveUp, Keep, Drop, NothingLeftToCut, Break, Report,
       counts, vars
  <2> QED BY <2>1, SumStays DEF AllCounted
<1> QED BY <1>1, <1>2, <1>3

LEMMA InitCounts ==
  Init => AllCounted
<1> SUFFICES ASSUME Init PROVE AllCounted
  OBVIOUS
<1>1. cases = <<>> /\ differed = 0 /\ agreed = 0 /\ at = 1 /\ Len(cases) = 0
  BY DEF Init
<1>2. Sums(HitsUpTo, cases, Len(cases))
  BY <1>1, HitsAreSums
<1> QED BY <1>1, <1>2 DEF Sums, AllCounted

\* Every statement looked at is counted once: the engines agreed about it, or it
\* is one of the hits of one case, and no reduced statement is two cases; so the
\* numbers `triage` prints add up to the statements of the file.
THEOREM StatementsAddUp == Spec => []EveryStatementCountedOnce
<1>1. IInv /\ AllCounted => EveryStatementCountedOnce
  BY DEF IInv, AllCounted, OneCaseEach, EveryStatementCountedOnce
<1>2. ASSUME IInv, IInv', AllCounted, [Next]_vars PROVE AllCounted'
  BY <1>2, StepCounts
<1> QED BY <1>1, <1>2, InitCounts, Inductive, PTL DEF Spec

-----------------------------------------------------------------------------
(***************************************************************************)
(* The cuts of Cuts.  Each of them is a list, and what the runs of tokens  *)
(* put into theirs is somewhere in the whole.                              *)
(***************************************************************************)
\* Whether something is in a list, which it stays when the list goes on.
In(x, s) == \E p \in 1..Len(s) : s[p] = x

LEMMA InTheWhole ==
  ASSUME NEW E, NEW s \in Seq(E), NEW t \in Seq(E)
  PROVE  s \o t \in Seq(E) /\ \A x : In(x, s) \/ In(x, t) => In(x, s \o t)
<1>1. /\ s \o t \in Seq(E) /\ Len(s \o t) = Len(s) + Len(t)
      /\ \A p \in 1..Len(s) : (s \o t)[p] = s[p]
      /\ \A k \in 1..Len(t) : (s \o t)[Len(s) + k] = t[k]
      /\ Len(s) \in Nat /\ Len(t) \in Nat
  OBVIOUS
<1>2. ASSUME NEW x, In(x, s) PROVE In(x, s \o t)
  <2>1. PICK p \in 1..Len(s) : s[p] = x
    BY <1>2 DEF In
  <2>2. p \in 1..Len(s \o t) /\ (s \o t)[p] = x
    BY <1>1, <2>1
  <2> QED BY <2>2 DEF In
<1>3. ASSUME NEW x, In(x, t) PROVE In(x, s \o t)
  <2>1. PICK p \in 1..Len(t) : t[p] = x
    BY <1>3 DEF In
  <2>2. Len(s) + p \in 1..Len(s \o t) /\ (s \o t)[Len(s) + p] = x
    BY <1>1, <2>1
  <2> QED BY <2>2 DEF In
<1> QED BY <1>1, <1>2, <1>3

\* A list of lists, one behind the other: what it is up to each of them.
Flattens(f, s) ==
  f = [i \in 1..Len(s) |-> IF i = 1 THEN s[i] ELSE f[i - 1] \o s[i]]

FlattensUpto(n, f, s, E) ==
  /\ f \in [1..n -> Seq(E)]
  /\ \A i \in 1..n : f[i] = IF i = 1 THEN s[i] ELSE f[i - 1] \o s[i]

LEMMA FlatteningExists ==
  ASSUME NEW E, NEW s \in Seq(Seq(E))
  PROVE  \E f : Flattens(f, s)
<1> DEFINE Bad == {n \in 1..Len(s) : ~\E f : FlattensUpto(n, f, s, E)}
<1>0. Len(s) \in Nat /\ \A i \in 1..Len(s) : s[i] \in Seq(E)
  OBVIOUS
<1>1. Bad = {}
  <2> SUFFICES ASSUME Bad # {} PROVE FALSE
    OBVIOUS
  <2>1. Bad \subseteq Nat
    OBVIOUS
  <2>0. \A n : n \in Bad <=> n \in 1..Len(s) /\ ~\E f : FlattensUpto(n, f, s, E)
    OBVIOUS
  <2> HIDE DEF Bad
  <2>2. PICK n \in Bad : \A m \in Bad : n <= m
    BY <2>1, LeastNat
  <2>3. n \in 1..Len(s) /\ n \in Nat /\ ~\E f : FlattensUpto(n, f, s, E)
    BY <2>0, <2>1, <2>2
  <2>4. CASE n = 1
    <3> DEFINE f == [i \in 1..1 |-> s[1]]
    <3>1. s[1] \in Seq(E)
      BY <1>0, <2>3
    <3>2. FlattensUpto(1, f, s, E)
      BY <3>1 DEF FlattensUpto
    <3> HIDE DEF f
    <3> QED BY <2>3, <2>4, <3>2
  <2>5. CASE n # 1
    <3>1. n - 1 \in 1..Len(s) /\ n - 1 \notin Bad
      BY <1>0, <2>1, <2>2, <2>3, <2>5
    <3>2. PICK g : FlattensUpto(n - 1, g, s, E)
      BY <2>0, <3>1
    <3> DEFINE f == [i \in 1..n |-> IF i = n THEN g[n - 1] \o s[n] ELSE g[i]]
    <3>3. g[n - 1] \in Seq(E) /\ s[n] \in Seq(E) /\ g[n - 1] \o s[n] \in Seq(E)
      BY <1>0, <2>3, <2>5, <3>1, <3>2 DEF FlattensUpto
    <3>a. \A i \in 1..(n - 1) : i \in 1..n /\ i # n /\ (i # 1 => i - 1 \in 1..(n - 1))
      BY <2>3
    <3>b. \A i \in 1..(n - 1) :
            g[i] \in Seq(E) /\ g[i] = IF i = 1 THEN s[i] ELSE g[i - 1] \o s[i]
      BY <3>2 DEF FlattensUpto
    <3>4. \A i \in 1..(n - 1) :
            /\ g[i] \in Seq(E) /\ i \in 1..n /\ i # n /\ (i # 1 => i - 1 \in 1..(n - 1))
            /\ g[i] = IF i = 1 THEN s[i] ELSE g[i - 1] \o s[i]
      BY <3>a, <3>b
    <3>5. \A i \in 1..n : i # n => i \in 1..(n - 1)
      BY <2>3
    <3>6. f \in [1..n -> Seq(E)]
      BY <3>3, <3>4, <3>5
    <3>7. \A i \in 1..(n - 1) : f[i] = g[i]
      BY <3>4
    <3>c. n \in 1..n /\ n - 1 \in 1..(n - 1)
      BY <2>3, <2>5
    <3>d. f[n] = g[n - 1] \o s[n]
      BY <3>c
    <3>8. f[n] = f[n - 1] \o s[n]
      BY <3>c, <3>d, <3>7
    <3> HIDE DEF f
    <3>9. \A i \in 1..n : f[i] = IF i = 1 THEN s[i] ELSE f[i - 1] \o s[i]
      BY <2>5, <3>4, <3>5, <3>7, <3>8
    <3>10. FlattensUpto(n, f, s, E)
      BY <3>6, <3>9 DEF FlattensUpto
    <3> QED BY <2>3, <3>10
  <2> QED BY <2>4, <2>5
<1>2. CASE Len(s) = 0
  <2> DEFINE f == [i \in 1..Len(s) |-> s]
  <2>1. f = [i \in 1..Len(s) |-> IF i = 1 THEN s[i] ELSE f[i - 1] \o s[i]]
    BY <1>2
  <2> HIDE DEF f
  <2> QED BY <2>1 DEF Flattens
<1>3. CASE Len(s) # 0
  <2>1. Len(s) \in 1..Len(s)
    BY <1>0, <1>3
  <2>2. PICK f : FlattensUpto(Len(s), f, s, E)
    BY <1>1, <2>1
  <2>3. f = [i \in 1..Len(s) |-> f[i]]
    BY <2>2 DEF FlattensUpto
  <2>4. f = [i \in 1..Len(s) |-> IF i = 1 THEN s[i] ELSE f[i - 1] \o s[i]]
    BY <2>2, <2>3 DEF FlattensUpto
  <2> QED BY <2>4 DEF Flattens
<1> QED BY <1>2, <1>3

\* Whatever was in one of them is still there.
HasUpto(i, t, s) ==
  \A j \in 1..i : \A k \in 1..Len(s[j]) : In(s[j][k], t)

LEMMA FlatteningKeeps ==
  ASSUME NEW E, NEW s \in Seq(Seq(E)), NEW f, Flattens(f, s)
  PROVE  \A i \in 1..Len(s) : f[i] \in Seq(E) /\ HasUpto(i, f[i], s)
<1> DEFINE Bad == {i \in 1..Len(s) : ~(f[i] \in Seq(E) /\ HasUpto(i, f[i], s))}
<1>a. f = [i \in 1..Len(s) |-> IF i = 1 THEN s[i] ELSE f[i - 1] \o s[i]]
  BY DEF Flattens
<1>b. \A i \in 1..Len(s) : f[i] = IF i = 1 THEN s[i] ELSE f[i - 1] \o s[i]
  BY <1>a
<1>0. /\ \A i \in 1..Len(s) : f[i] = IF i = 1 THEN s[i] ELSE f[i - 1] \o s[i]
      /\ Len(s) \in Nat /\ \A i \in 1..Len(s) : s[i] \in Seq(E)
  BY <1>b
<1>1. Bad = {}
  <2> SUFFICES ASSUME Bad # {} PROVE FALSE
    OBVIOUS
  <2>1. Bad \subseteq Nat
    BY <1>0
  <2>0. \A n : n \in Bad <=> n \in 1..Len(s) /\ ~(f[n] \in Seq(E) /\ HasUpto(n, f[n], s))
    OBVIOUS
  <2> HIDE DEF Bad
  <2>2. PICK n \in Bad : \A m \in Bad : n <= m
    BY <2>1, LeastNat
  <2>3. n \in 1..Len(s) /\ n \in Nat /\ ~(f[n] \in Seq(E) /\ HasUpto(n, f[n], s))
    BY <2>0, <2>1, <2>2
  <2>4. CASE n = 1
    <3>1. f[1] = s[1] /\ s[1] \in Seq(E)
      BY <1>0, <2>3, <2>4
    <3>2. HasUpto(1, f[1], s)
      BY <3>1, SMTT(30) DEF HasUpto, In
    <3> QED BY <2>3, <2>4, <3>1, <3>2
  <2>5. CASE n # 1
    <3>1. n - 1 \in 1..Len(s) /\ n - 1 \notin Bad
      BY <1>0, <2>1, <2>2, <2>3, <2>5
    <3> DEFINE g == f[n - 1]
    <3>2. g \in Seq(E) /\ HasUpto(n - 1, g, s)
      BY <2>0, <3>1
    <3>3. f[n] = g \o s[n] /\ s[n] \in Seq(E)
      BY <1>0, <2>3, <2>5
    <3> HIDE DEF g
    <3>5. f[n] \in Seq(E) /\ \A x : In(x, g) \/ In(x, s[n]) => In(x, f[n])
      BY <3>2, <3>3, InTheWhole
    <3>6. ASSUME NEW j \in 1..n, NEW k \in 1..Len(s[j])
          PROVE  In(s[j][k], f[n])
      <4>1. CASE j = n
        <5>1. In(s[n][k], s[n])
          BY <3>6, <4>1 DEF In
        <5> QED BY <3>5, <4>1, <5>1
      <4>2. CASE j # n
        <5>1. j \in 1..(n - 1)
          BY <2>3, <4>2
        <5>2. In(s[j][k], g)
          BY <3>2, <5>1 DEF HasUpto
        <5> QED BY <3>5, <5>2
      <4> QED BY <4>1, <4>2
    <3>7. HasUpto(n, f[n], s)
      BY <3>6 DEF HasUpto
    <3> QED BY <2>3, <3>5, <3>7
  <2> QED BY <2>4, <2>5
<1> QED BY <1>1

LEMMA FlattenedLists ==
  ASSUME NEW E, NEW s \in Seq(Seq(E))
  PROVE  /\ FlattenSeq(s) \in Seq(E)
         /\ HasUpto(Len(s), FlattenSeq(s), s)
<1> DEFINE t == FlattenSeq(s)
           f == CHOOSE g : g = [i \in 1..Len(s) |-> IF i = 1 THEN s[i] ELSE g[i - 1] \o s[i]]
<1>1. CASE Len(s) = 0
  <2>1. t = s /\ s = <<>>
    BY <1>1 DEF FlattenSeq
  <2>2. 1..Len(s) = {}
    BY <1>1
  <2>3. HasUpto(Len(s), t, s)
    BY <2>2 DEF HasUpto
  <2> QED BY <2>1, <2>3
<1>2. CASE Len(s) # 0
  <2>1. t = f[Len(s)]
    BY <1>2 DEF FlattenSeq
  <2>2. Flattens(f, s)
    BY FlatteningExists DEF Flattens
  <2> HIDE DEF f
  <2>3. Len(s) \in 1..Len(s)
    BY <1>2
  <2>4. f[Len(s)] \in Seq(E) /\ HasUpto(Len(s), f[Len(s)], s)
    BY <2>2, <2>3, FlatteningKeeps
  <2> QED BY <2>1, <2>4
<1> QED BY <1>1, <1>2

\* A list, whatever is in it.
IsList(t) == \E E : t \in Seq(E)

LEMMA ListsJoin ==
  ASSUME NEW s, IsList(s), NEW t, IsList(t)
  PROVE  IsList(s \o t) /\ \A x : In(x, s) \/ In(x, t) => In(x, s \o t)
<1>1. PICK E : s \in Seq(E)
  BY DEF IsList
<1>2. PICK F : t \in Seq(F)
  BY DEF IsList
<1>3. s \in Seq(E \cup F) /\ t \in Seq(E \cup F)
  BY <1>1, <1>2
<1>4. s \o t \in Seq(E \cup F) /\ \A x : In(x, s) \/ In(x, t) => In(x, s \o t)
  BY <1>3, InTheWhole
<1> QED BY <1>4 DEF IsList

LEMMA ListsOfLists ==
  ASSUME NEW n \in Nat, NEW f, f = [i \in 1..n |-> f[i]], \A i \in 1..n : IsList(f[i])
  PROVE  /\ IsList(FlattenSeq(f))
         /\ \A i \in 1..n : \A x : In(x, f[i]) => In(x, FlattenSeq(f))
<1> DEFINE Of(i) == CHOOSE E : f[i] \in Seq(E)
           E == UNION {Of(i) : i \in 1..n}
<1>1. \A i \in 1..n : f[i] \in Seq(Of(i))
  BY DEF IsList
<1>2. \A i \in 1..n : Of(i) \subseteq E
  OBVIOUS
<1> HIDE DEF Of
<1> HIDE DEF E
<1>3. \A i \in 1..n : f[i] \in Seq(E)
  BY <1>1, <1>2
<1>4. f \in Seq(Seq(E)) /\ Len(f) = n
  BY <1>3
<1>5. FlattenSeq(f) \in Seq(E) /\ HasUpto(n, FlattenSeq(f), f)
  BY <1>4, FlattenedLists
<1>6. ASSUME NEW i \in 1..n, NEW x, In(x, f[i])
      PROVE  In(x, FlattenSeq(f))
  <2>1. PICK k \in 1..Len(f[i]) : f[i][k] = x
    BY <1>6 DEF In
  <2>2. i \in 1..i /\ i \in 1..n
    OBVIOUS
  <2> QED BY <1>5, <2>1, <2>2 DEF HasUpto
<1> QED BY <1>5, <1>6 DEF IsList

LEMMA ShortLists ==
  /\ IsList(<<>>)
  /\ \A x : IsList(<<x>>)
  /\ \A x, y, z : IsList(<<x, y, z>>)
<1>1. <<>> \in Seq({})
  OBVIOUS
<1>2. \A x : <<x>> \in Seq({x})
  OBVIOUS
<1>3. \A x, y, z : <<x, y, z>> \in Seq({x, y, z})
  OBVIOUS
<1> QED BY <1>1, <1>2, <1>3 DEF IsList

-----------------------------------------------------------------------------
(***************************************************************************)
(* The widths: half of the tokens, and half of that, down to one.          *)
(***************************************************************************)
Halving(f, n) == f = [w \in 0..n |-> IF w = 0 THEN <<>> ELSE <<w>> \o f[w \div 2]]

LEMMA HalvingExists ==
  ASSUME NEW n \in Nat
  PROVE  \E f : Halving(f, n)
<1> DEFINE Bad == {m \in Nat : ~\E f : Halving(f, m)}
<1>0. \A m : m \in Bad <=> m \in Nat /\ ~\E f : Halving(f, m)
  OBVIOUS
<1>1. Bad = {}
  <2> SUFFICES ASSUME Bad # {} PROVE FALSE
    OBVIOUS
  <2>1. Bad \subseteq Nat
    OBVIOUS
  <2> HIDE DEF Bad
  <2>2. PICK m \in Bad : \A k \in Bad : m <= k
    BY <2>1, LeastNat
  <2>3. m \in Nat /\ ~\E f : Halving(f, m)
    BY <1>0, <2>2
  <2>4. CASE m = 0
    <3> DEFINE f == [w \in 0..0 |-> <<>>]
    <3>1. f = [w \in 0..0 |-> IF w = 0 THEN <<>> ELSE <<w>> \o f[w \div 2]]
      OBVIOUS
    <3> HIDE DEF f
    <3> QED BY <2>3, <2>4, <3>1 DEF Halving
  <2>5. CASE m # 0
    <3>1. m - 1 \in Nat /\ m - 1 \notin Bad
      BY <2>1, <2>2, <2>3, <2>5
    <3>2. PICK g : Halving(g, m - 1)
      BY <1>0, <3>1
    <3>3. \A w \in 0..(m - 1) : g[w] = IF w = 0 THEN <<>> ELSE <<w>> \o g[w \div 2]
      BY <3>2 DEF Halving
    <3> DEFINE f == [w \in 0..m |-> IF w = m THEN <<m>> \o g[m \div 2] ELSE g[w]]
    <3>4. ASSUME NEW w \in 0..m, w # 0
          PROVE  w \div 2 \in 0..(m - 1) /\ w \div 2 \in 0..m /\ w \div 2 # m
      BY <2>3, <3>4
    <3>5. ASSUME NEW w \in 0..m
          PROVE  f[w] = IF w = 0 THEN <<>> ELSE <<w>> \o f[w \div 2]
      <4>1. CASE w = 0
        <5>1. 0 \in 0..(m - 1) /\ 0 \in 0..m /\ 0 # m
          BY <2>3, <2>5
        <5>2. g[0] = <<>>
          BY <3>3, <5>1, Zenon
        <5>3. f[0] = g[0]
          BY <5>1
        <5> HIDE DEF f
        <5> QED BY <4>1, <5>2, <5>3
      <4>2. CASE w # 0
        <5>1. f[w \div 2] = g[w \div 2]
          BY <3>4, <4>2
        <5>2. f[w] = <<w>> \o g[w \div 2]
          <6>1. CASE w = m
            BY <6>1
          <6>2. CASE w # m
            <7>1. w \in 0..(m - 1)
              BY <2>3, <6>2
            <7> QED BY <3>3, <4>2, <6>2, <7>1
          <6> QED BY <6>1, <6>2
        <5> QED BY <4>2, <5>1, <5>2
      <4> QED BY <4>1, <4>2
    <3>6. f = [w \in 0..m |-> f[w]]
      OBVIOUS
    <3> HIDE DEF f
    <3>7. f = [w \in 0..m |-> IF w = 0 THEN <<>> ELSE <<w>> \o f[w \div 2]]
      BY <3>5, <3>6
    <3> QED BY <2>3, <3>7 DEF Halving
  <2> QED BY <2>4, <2>5
<1> QED BY <1>0, <1>1

\* Whatever is halved comes down to one.
LEMMA HalvesEndAtOne ==
  ASSUME NEW n \in Nat, NEW f, Halving(f, n)
  PROVE  \A w \in 0..n : f[w] \in Seq(1..n) /\ (w # 0 => In(1, f[w]))
<1> DEFINE Good(w) == f[w] \in Seq(1..n) /\ (w # 0 => In(1, f[w]))
           Bad == {w \in 0..n : ~Good(w)}
<1>0. \A w \in 0..n : f[w] = IF w = 0 THEN <<>> ELSE <<w>> \o f[w \div 2]
  BY DEF Halving
<1>1. Bad = {}
  <2> SUFFICES ASSUME Bad # {} PROVE FALSE
    OBVIOUS
  <2>1. Bad \subseteq Nat /\ \A w : w \in Bad <=> w \in 0..n /\ ~Good(w)
    OBVIOUS
  <2> HIDE DEF Bad
  <2>2. PICK w \in Bad : \A k \in Bad : w <= k
    BY <2>1, LeastNat
  <2>3. w \in 0..n /\ ~Good(w)
    BY <2>1, <2>2
  <2>4. CASE w = 0
    <3>1. f[0] = <<>>
      BY <1>0, <2>3, <2>4, Zenon
    <3>2. <<>> \in Seq(1..n)
      OBVIOUS
    <3> QED BY <2>3, <2>4, <3>1, <3>2
  <2>5. CASE w # 0
    <3>1. w \div 2 \in 0..n /\ w \div 2 < w /\ w \in 1..n
      BY <2>3, <2>5
    <3>2. Good(w \div 2)
      BY <2>1, <2>2, <3>1
    <3> DEFINE rest == f[w \div 2]
    <3>3. f[w] = <<w>> \o rest
      BY <1>0, <2>3, <2>5
    <3>4. rest \in Seq(1..n) /\ (w \div 2 # 0 => In(1, rest)) /\ <<w>> \in Seq(1..n)
      BY <3>1, <3>2
    <3> HIDE DEF rest
    <3>5. f[w] \in Seq(1..n) /\ \A x : In(x, <<w>>) \/ In(x, rest) => In(x, f[w])
      BY <3>3, <3>4, InTheWhole
    <3>6. CASE w = 1
      <4>1. In(1, <<w>>)
        BY <3>6 DEF In
      <4> QED BY <2>3, <3>5, <4>1
    <3>7. CASE w # 1
      <4>1. w \div 2 # 0
        BY <2>5, <3>1, <3>7
      <4> QED BY <2>3, <3>4, <3>5, <4>1
    <3> QED BY <3>6, <3>7
  <2> QED BY <2>4, <2>5
<1> QED BY <1>1

LEMMA WidthsEndAtOne ==
  ASSUME NEW n \in Nat
  PROVE  Widths(n) \in Seq(1..n) /\ (n > 1 => In(1, Widths(n)))
<1> DEFINE f == CHOOSE g : Halving(g, n)
<1>1. Halving(f, n)
  BY HalvingExists
<1>2. Widths(n) = f[n \div 2]
  BY DEF Widths, Halving
<1> HIDE DEF f
<1>3. n \div 2 \in 0..n /\ (n > 1 => n \div 2 # 0)
  OBVIOUS
<1> QED BY <1>1, <1>2, <1>3, HalvesEndAtOne

-----------------------------------------------------------------------------
(***************************************************************************)
(* A statement with one token less is among its cuts.                      *)
(***************************************************************************)
LEMMA PlacesInOrder ==
  ASSUME NEW n \in Nat, NEW I, I \subseteq 1..n
  PROVE  /\ Cardinality(I) \in Nat
         /\ InOrder(I) = [k \in 1..Cardinality(I) |-> Nth(I, k)]
         /\ Len(InOrder(I)) = Cardinality(I)
         /\ DOMAIN InOrder(I) = 1..Cardinality(I)
<1>1. Cardinality(I) \in Nat
  <2>1. IsFiniteSet(1..n)
    BY FS_Interval
  <2>2. IsFiniteSet(I)
    BY <2>1, FS_Subset
  <2> QED BY <2>2, FS_CardinalityType
<1> QED BY <1>1 DEF InOrder

LEMMA TokensInOrder ==
  ASSUME NEW s \in Seq(STRING)
  PROVE  /\ Len(Tokens(s)) \in Nat
         /\ DOMAIN Tokens(s) = 1..Len(Tokens(s))
<1>1. Len(s) \in Nat /\ DOMAIN s = 1..Len(s)
  OBVIOUS
<1>2. Meant(s) \subseteq 1..Len(s)
  BY <1>1 DEF Meant
<1> QED BY <1>1, <1>2, PlacesInOrder DEF Tokens

LEMMA ClausesListed ==
  ASSUME NEW s \in Seq(STRING)
  PROVE  IsList(DropClauses(s))
<1> DEFINE depth == Depth(s)
           I == {i \in Meant(s) : depth[i] = 0 /\ s[i] \in Clauses}
           starts == InOrder(I)
           End(k) == IF k < Len(starts) THEN starts[k + 1] - 1 ELSE Len(s)
           Both(k) == (IF k < Len(starts) THEN <<Without(s, starts[k], Len(s))>> ELSE <<>>)
                        \o <<Without(s, starts[k], End(k))>>
           f == [k \in DOMAIN starts |-> Both(k)]
<1>1. DropClauses(s) = FlattenSeq(f)
  BY DEF DropClauses
<1>2. Len(s) \in Nat /\ I \subseteq 1..Len(s)
  BY DEF Meant
<1> HIDE DEF I
<1>3. Cardinality(I) \in Nat /\ DOMAIN starts = 1..Cardinality(I)
  BY <1>2, PlacesInOrder
<1> HIDE DEF starts
<1>4. \A k : IsList(Both(k))
  <2> SUFFICES ASSUME NEW k PROVE IsList(Both(k))
    OBVIOUS
  <2>1. IsList(IF k < Len(starts) THEN <<Without(s, starts[k], Len(s))>> ELSE <<>>)
    BY ShortLists
  <2>2. IsList(<<Without(s, starts[k], End(k))>>)
    BY ShortLists
  <2> HIDE DEF End
  <2> QED BY <2>1, <2>2, ListsJoin
<1> HIDE DEF Both
<1>5. f = [k \in 1..Cardinality(I) |-> f[k]] /\ \A k \in 1..Cardinality(I) : f[k] = Both(k)
  BY <1>3
<1> HIDE DEF f
<1> QED BY <1>1, <1>3, <1>4, <1>5, ListsOfLists

LEMMA GroupsListed ==
  ASSUME NEW s \in Seq(STRING)
  PROVE  IsList(DropGroups(s))
<1> DEFINE depth == Depth(s)
           Closes(i) == {j \in i + 1 .. Len(s) : s[j] = ")" /\ depth[j] = depth[i]}
           Group(i) ==
             IF s[i] # "(" \/ Closes(i) = {} THEN <<>>
             ELSE LET j == Min(Closes(i)) IN
                  <<With(s, i, j, <<"1">>), Without(s, j, j), Without(s, i, i)>>
           f == [i \in DOMAIN s |-> Group(i)]
<1>1. DropGroups(s) = FlattenSeq(f)
  BY DEF DropGroups
<1>2. Len(s) \in Nat /\ DOMAIN s = 1..Len(s)
  OBVIOUS
<1>3. \A i : IsList(Group(i))
  <2> HIDE DEF Closes
  <2> QED BY ShortLists
<1> HIDE DEF Group
<1>4. f = [i \in 1..Len(s) |-> f[i]] /\ \A i \in 1..Len(s) : f[i] = Group(i)
  BY <1>2
<1> HIDE DEF f
<1> QED BY <1>1, <1>2, <1>3, <1>4, ListsOfLists

LEMMA LiteralsListed ==
  ASSUME NEW s \in Seq(STRING)
  PROVE  IsList(ShrinkLiterals(s))
<1> DEFINE Shrunk(i) ==
             CASE s[i] \in Texts               -> <<With(s, i, i, <<"''">>)>>
               [] s[i] \in Numbers \ {"0"}     -> <<With(s, i, i, <<"0">>)>>
               [] OTHER                        -> <<>>
           f == [i \in DOMAIN s |-> Shrunk(i)]
<1>1. ShrinkLiterals(s) = FlattenSeq(f)
  BY DEF ShrinkLiterals
<1>2. Len(s) \in Nat /\ DOMAIN s = 1..Len(s)
  OBVIOUS
<1>3. \A i : IsList(Shrunk(i))
  BY ShortLists
<1> HIDE DEF Shrunk
<1>4. f = [i \in 1..Len(s) |-> f[i]] /\ \A i \in 1..Len(s) : f[i] = Shrunk(i)
  BY <1>2
<1> HIDE DEF f
<1> QED BY <1>1, <1>2, <1>3, <1>4, ListsOfLists

LEMMA ItemsListed ==
  ASSUME NEW s \in Seq(STRING)
  PROVE  IsList(DropItems(s))
<1> DEFINE toks == Tokens(s)
           depth == Depth(s)
           Word(n) == s[toks[n]]
           Level(n) == depth[toks[n]]
           Boundary(n) == Word(n) \in Clauses \cup Introduces
           Joins(n) == Word(n) = "," \/ Word(n) \in Conjunctions
           Stops(k, n) == Level(k) < Level(n) \/ (Level(k) = Level(n) /\ (Boundary(k) \/ Joins(k)))
           Left(n)  == Min({l \in 1..n : \A k \in l .. n - 1 : ~Stops(k, n)})
           Right(n) == Max({r \in n..Len(toks) : \A k \in n + 1 .. r : ~Stops(k, n)})
           Sides(n) ==
             IF ~Joins(n) THEN <<>>
             ELSE (IF Left(n) < n THEN <<Without(s, toks[Left(n)], toks[n])>> ELSE <<>>)
                    \o (IF Right(n) > n THEN <<Without(s, toks[n], toks[Right(n)])>> ELSE <<>>)
           f == [n \in DOMAIN toks |-> Sides(n)]
<1>1. DropItems(s) = FlattenSeq(f)
  BY DEF DropItems
<1>2. Len(toks) \in Nat /\ DOMAIN toks = 1..Len(toks)
  BY TokensInOrder
<1> HIDE DEF Left, Right, Joins, toks
<1>3. \A n : IsList(Sides(n))
  <2> SUFFICES ASSUME NEW n PROVE IsList(Sides(n))
    OBVIOUS
  <2>1. IsList(IF Left(n) < n THEN <<Without(s, toks[Left(n)], toks[n])>> ELSE <<>>)
    BY ShortLists
  <2>2. IsList(IF Right(n) > n THEN <<Without(s, toks[n], toks[Right(n)])>> ELSE <<>>)
    BY ShortLists
  <2> QED BY <2>1, <2>2, ShortLists, ListsJoin
<1> HIDE DEF Sides
<1>4. f = [n \in 1..Len(toks) |-> f[n]] /\ \A n \in 1..Len(toks) : f[n] = Sides(n)
  BY <1>2
<1> HIDE DEF f
<1> QED BY <1>1, <1>2, <1>3, <1>4, ListsOfLists

\* The last of the runs are single tokens (`runs`, width down to one).
LEMMA RunsReachOne ==
  ASSUME NEW s \in Seq(STRING)
  PROVE  /\ IsList(DropRuns(s))
         /\ Len(Tokens(s)) > 1 =>
              \A k \in DOMAIN Tokens(s) :
                In(Without(s, Tokens(s)[k], Tokens(s)[k]), DropRuns(s))
<1> DEFINE toks == Tokens(s)
           n == Len(toks)
           widths == Widths(Len(toks))
           OfWidth(w) == [start \in 1 .. Len(toks) - w + 1 |->
                            Without(s, toks[start], toks[start + w - 1])]
           f == [k \in DOMAIN widths |-> OfWidth(widths[k])]
<1>1. DropRuns(s) = FlattenSeq(f)
  BY DEF DropRuns
<1>2. n \in Nat /\ DOMAIN toks = 1..n
  BY TokensInOrder
<1> HIDE DEF toks
<1>3. widths \in Seq(1..n) /\ (n > 1 => In(1, widths))
  BY <1>2, WidthsEndAtOne
<1>4. Len(widths) \in Nat /\ DOMAIN widths = 1..Len(widths) /\ \A k \in 1..Len(widths) : widths[k] \in 1..n
  BY <1>3
<1> HIDE DEF widths
<1>5. ASSUME NEW w \in 1..n
      PROVE  IsList(OfWidth(w))
  <2> DEFINE l == OfWidth(w)
             m == n - w + 1
  <2>1. m \in Nat /\ l = [start \in 1..m |-> l[start]]
    BY <1>2
  <2> HIDE DEF l
  <2>2. l \in Seq({l[i] : i \in 1..m})
    BY <2>1
  <2> QED BY <2>2 DEF IsList, l
<1>6. /\ f = [k \in 1..Len(widths) |-> f[k]]
      /\ \A k \in 1..Len(widths) : f[k] = OfWidth(widths[k])
  BY <1>4
<1>7. /\ IsList(FlattenSeq(f))
      /\ \A k \in 1..Len(widths) : \A x : In(x, OfWidth(widths[k])) => In(x, FlattenSeq(f))
  <2> HIDE DEF f, OfWidth
  <2> QED BY <1>4, <1>5, <1>6, ListsOfLists
<1>8. ASSUME n > 1, NEW k \in 1..n
      PROVE  In(Without(s, toks[k], toks[k]), FlattenSeq(f))
  <2>1. PICK p \in 1..Len(widths) : widths[p] = 1
    BY <1>3, <1>8 DEF In
  <2>2. /\ OfWidth(1) = [start \in 1..n |-> Without(s, toks[start], toks[start])]
    BY <1>2
  <2>3. Len(OfWidth(1)) = n /\ OfWidth(1)[k] = Without(s, toks[k], toks[k])
    BY <1>2, <2>2
  <2> HIDE DEF OfWidth, f
  <2>4. In(Without(s, toks[k], toks[k]), OfWidth(1))
    BY <2>3 DEF In
  <2> QED BY <1>7, <2>1, <2>4
<1> HIDE DEF f
<1> QED BY <1>1, <1>2, <1>7, <1>8 DEF toks

LEMMA TokensAreCut ==
  ASSUME NEW s \in Seq(STRING), Len(Tokens(s)) > 1, NEW k \in DOMAIN Tokens(s)
  PROVE  In(Without(s, Tokens(s)[k], Tokens(s)[k]), CutsOf(s))
<1> DEFINE x == Without(s, Tokens(s)[k], Tokens(s)[k])
           a == DropClauses(s) \o DropGroups(s)
           b == a \o DropRuns(s)
           c == b \o DropItems(s)
<1>1. In(x, DropRuns(s)) /\ IsList(DropRuns(s))
  BY RunsReachOne
<1> HIDE DEF x
<1>2. IsList(a)
  BY ClausesListed, GroupsListed, ListsJoin
<1> HIDE DEF a
<1>3. IsList(b) /\ In(x, b)
  BY <1>1, <1>2, ListsJoin
<1> HIDE DEF b
<1>4. IsList(c) /\ In(x, c)
  BY <1>3, ItemsListed, ListsJoin
<1> HIDE DEF c
<1>5. In(x, c \o ShrinkLiterals(s))
  BY <1>4, LiteralsListed, ListsJoin
<1>6. CutsOf(s) = c \o ShrinkLiterals(s)
  BY DEF CutsOf, a, b, c
<1> QED BY <1>5, <1>6 DEF x

\* A minimum has no single token to spare, whatever the other cuts are and
\* however the engines answer (reduce.rs:473).
THEOREM NoTokenIsToSpare == Spec => []NoTokenToSpare
<1>1. ASSUME IInv PROVE NoTokenToSpare
  <2> SUFFICES ASSUME stage = "tidying", ~gave_up, clean,
                      NEW k \in DOMAIN Tokens(best),
                      Len(Tokens(best)) > 1,
                      Without(best, Tokens(best)[k], Tokens(best)[k]) # Blank,
                      Askable(Without(best, Tokens(best)[k], Tokens(best)[k]))
               PROVE  Fresh(Without(best, Tokens(best)[k], Tokens(best)[k])) \cap wanted = {}
    BY DEF NoTokenToSpare
  <2> DEFINE shorter == Without(best, Tokens(best)[k], Tokens(best)[k])
  <2>1. best \in Statements
    BY <1>1 DEF IInv, AtOne, Reducing
  <2>2. best \in Seq(STRING) /\ cuts(best) = CutsOf(best)
    BY <2>1, ReducerAssumption
  <2>3. In(shorter, cuts(best))
    BY <2>2, TokensAreCut
  <2> HIDE DEF shorter
  <2>4. PICK i \in DOMAIN cuts(best) : cuts(best)[i] = shorter
    BY <2>1, <2>3, CutsAreStatements DEF In, Puttable
  <2>5. Fresh(cuts(best)[i]) \cap wanted = {}
    BY <1>1, <2>4 DEF IInv, MinimumOrSaysSo, shorter
  <2> QED BY <2>4, <2>5 DEF shorter
<1> QED BY <1>1, Inductive, PTL
=============================================================================
