----------------------------- MODULE LiveSession -----------------------------
(***************************************************************************)
(* What a session of statements promises a driver that runs a whole file   *)
(* through it: one engine that stays up, where every statement runs on     *)
(* what all the ones before it have left, and nothing outlives a reset.    *)
(***************************************************************************)
EXTENDS Naturals

CONSTANTS
  Texts,    (* The statements a file can have.                             *)
  Leaving   (* The ones of those that leave something behind.              *)

VARIABLES
  left,     (* What was left, by which statement, when.                    *)
  ran,      (* What the last statement ran on.                             *)
  said,     (* What came of it.                                            *)
  turn      (* How many statements have run.                               *)

vars == <<left, ran, said, turn>>

Init ==
  /\ left = {}
  /\ ran = {}
  /\ said = "nothing"
  /\ turn = 0

Mark(t) ==
  IF t \in Leaving THEN {[at |-> turn + 1, text |-> t]} ELSE {}

\* "broken" is an answer that came and could not be read.
Run(t, answer) ==
  /\ ran' = left
  /\ said' = answer
  /\ left' = IF answer = "refused" THEN left ELSE left \cup Mark(t)
  /\ turn' = turn + 1

\* The statement never reached the engine.
Break ==
  /\ said' = "broken"
  /\ UNCHANGED <<left, ran, turn>>

Reset ==
  /\ left' = {}
  /\ ran' = {}
  /\ said' = "nothing"
  /\ UNCHANGED turn

\* The session is over, and so is what it left.
Close ==
  /\ left' = {}
  /\ UNCHANGED <<ran, said, turn>>

Next ==
  \/ \E t \in Texts, answer \in {"ok", "refused", "broken"} : Run(t, answer)
  \/ Break
  \/ Reset
  \/ Close

Spec == Init /\ [][Next]_vars
=============================================================================
