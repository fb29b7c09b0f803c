-------------------------------- MODULE Spend --------------------------------
(***************************************************************************)
(* What the committed corpus costs, record by record: spend.rs.  The whole *)
(* corpus goes through one engine several times and then through the other *)
(* one, each pass in a session of its own, and the runs are lined up       *)
(* afterwards on the file and the line.  A record is timed when it passed  *)
(* and its session is on its file, so a pass may have no number for it; a  *)
(* record in a loop has one for every turn.                                *)
(***************************************************************************)
EXTENDS Resource

CONSTANTS
  Places,      (* The records of the corpus, in order, by file and line.   *)
  turns,       (* How often a pass comes by each of them at most.          *)
  Costs,       (* What a run of one may cost.                              *)
  Repeats,     (* How many passes each engine makes.                       *)
  ENOUGH       (* How many records a row for a file needs behind it.       *)

VARIABLES
  spend_at,    (* The engine being run, or "paired".                       *)
  pass,        (* The pass it is in, from 1.                               *)
  place,       (* The record the pass is at.                               *)
  seen,        (* What each engine's runs of each record cost.             *)
  spends       (* The records, and how many only one engine measured.      *)

spendVars == <<spend_at, pass, place, seen, spends>>

Sorts == {"ours", "theirs"}
None0 == [records |-> {}, ours_only |-> 0, theirs_only |-> 0]

Init ==
  /\ spend_at = "ours"
  /\ pass = 1
  /\ place = 1
  /\ seen = [e \in Sorts |-> [p \in DOMAIN Places |-> <<>>]]
  /\ spends = None0

Numbers(p) == UNION {[1..n -> Costs] : n \in 0..turns[p]}

\* The timings a pass leaves for one record.
TimeRecord ==
  /\ spend_at \in Sorts
  /\ place <= Len(Places)
  /\ \E numbers \in Numbers(place) : seen' = [seen EXCEPT ![spend_at][place] = @ \o numbers]
  /\ place' = place + 1
  /\ UNCHANGED <<spend_at, pass, spends>>

\* Mutant: the last pass is the answer.
MiddlesOfLast(e) ==
  [p \in {q \in DOMAIN Places : seen[e][q] # <<>>} |-> seen[e][p][Len(seen[e][p])]]

\* What `sweep` returns: a number for every record that has any.
Middles(e) ==
  [p \in {q \in DOMAIN Places : seen[e][q] # <<>>} |-> Middle(seen[e][p])]

Spent(p) == [group |-> Places[p][1], line |-> Places[p][2],
             pair |-> <<Middles("ours")[p], Middles("theirs")[p]>>]

\* The records of both engines, lined up.
Pair ==
  LET ours   == DOMAIN Middles("ours")
      theirs == DOMAIN Middles("theirs")
  IN  [records     |-> {Spent(p) : p \in ours \cap theirs},
       ours_only   |-> Cardinality(ours \ theirs),
       theirs_only |-> Cardinality(theirs \ ours)]

EndPass ==
  /\ spend_at \in Sorts
  /\ place > Len(Places)
  /\ place' = 1
  /\ IF pass < Repeats
       THEN /\ pass' = pass + 1
            /\ UNCHANGED <<spend_at, spends>>
       ELSE /\ pass' = 1
            /\ spend_at' = IF spend_at = "ours" THEN "theirs" ELSE "paired"
            /\ spends' = IF spend_at = "ours" THEN spends ELSE Pair
  /\ UNCHANGED seen

Next == TimeRecord \/ EndPass

\* `per_file`: a file with enough records behind it, over those worth dividing.
PerFile == PerGroup(spends.records, ENOUGH)

-----------------------------------------------------------------------------
(***************************************************************************)
(* Properties.                                                             *)
(***************************************************************************)

\* Every record either engine could time is counted once, and the number of one
\* that both could is a run of that record on that engine, with no more than half
\* of them on either side of it, over every pass and every turn of its loop.  A row
\* for a file is about records of that file that were measured, one of them at least.
SpendsPair ==
  spend_at = "paired" =>
    /\ Cardinality(spends.records) + spends.ours_only + spends.theirs_only
         = Cardinality({p \in DOMAIN Places : \E e \in Sorts : seen[e][p] # <<>>})
    /\ \A one \in spends.records : \E p \in DOMAIN Places :
         /\ Places[p] = <<one.group, one.line>>
         /\ IsTheMiddle(one.pair[1], seen["ours"][p])
         /\ IsTheMiddle(one.pair[2], seen["theirs"][p])
    /\ \A file \in DOMAIN PerFile :
         PerFile[file].time.count \in
           1..Cardinality({one \in spends.records : one.group = file /\ WorthDividing(one.pair)})
=============================================================================
