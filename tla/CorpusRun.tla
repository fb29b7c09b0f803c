------------------------------ MODULE CorpusRun ------------------------------
(***************************************************************************)
(* What a run of the corpus promises, whoever carries it out: every file   *)
(* is heard once, and a page is published only when all of them were, with *)
(* one result for each and nothing else on it.                             *)
(***************************************************************************)
CONSTANTS
  Files,    (* The files of the run.                                       *)
  Results,  (* What a file can come to.                                    *)
  Unheard   (* Not a result: the file has not come to anything yet.        *)

VARIABLES
  answer,   (* What each file came to.                                     *)
  page,     (* What was published: a result for each file on it.           *)
  state     (* "running", "published" or "abandoned".                      *)

vars == <<answer, page, state>>

Init ==
  /\ answer = [f \in Files |-> Unheard]
  /\ page = [f \in {} |-> Unheard]
  /\ state = "running"

Hear(f) ==
  /\ state = "running"
  /\ answer[f] = Unheard
  /\ \E r \in Results : answer' = [answer EXCEPT ![f] = r]
  /\ UNCHANGED <<page, state>>

Publish ==
  /\ state = "running"
  /\ \A f \in Files : answer[f] # Unheard
  /\ page' = answer
  /\ state' = "published"
  /\ UNCHANGED answer

\* The harness itself broke, and nothing is published.
Abandon ==
  /\ state = "running"
  /\ state' = "abandoned"
  /\ UNCHANGED <<answer, page>>

Next == Publish \/ Abandon \/ \E f \in Files : Hear(f)

Spec == Init /\ [][Next]_vars
=============================================================================
