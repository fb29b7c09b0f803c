-------------------------------- MODULE Reducer --------------------------------
(***************************************************************************)
(* The reductions of Triage with the cuts of Cuts: `shrink` of reduce.rs   *)
(* over `cuts`.  A statement is the sequence of its words.                 *)
(***************************************************************************)
EXTENDS Triage, Cuts

ASSUME ReducerAssumption ==
  \A s \in Statements :
    /\ s \in Seq(STRING)
    /\ cuts(s) = CutsOf(s)

-----------------------------------------------------------------------------
(***************************************************************************)
(* The part of the reducer that "guarantees progress" (reduce.rs:473): at  *)
(* a minimum there is no single token whose removal leaves a statement     *)
(* that parses and still fails that way, whichever shapes the shortcuts    *)
(* recognise.                                                              *)
(***************************************************************************)
NoTokenToSpare ==
  stage = "tidying" /\ ~gave_up /\ clean =>
    \A k \in DOMAIN Tokens(best) :
      LET place == Tokens(best)[k]
          shorter == Without(best, place, place)
      IN  Len(Tokens(best)) > 1 /\ shorter # Blank /\ Askable(shorter) =>
            Fresh(shorter) \cap wanted = {}
=============================================================================
