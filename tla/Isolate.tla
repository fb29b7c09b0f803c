------------------------------- MODULE Isolate -------------------------------
(***************************************************************************)
(* A corpus run: `run_corpus` of isolate.rs and the children it starts,    *)
(* one process per file, at most Width at a time, each with a clock and a  *)
(* cap on its memory held from outside.                                    *)
(*                                                                         *)
(* A poll of one child is two steps, because the child runs between them:  *)
(* `try_wait` first, and only when the child was alive the clock and the   *)
(* memory.  Time is counted in ticks of half a second, the least the code  *)
(* waits before it asks about memory; how often it asks after that is left *)
(* out, so a child here can be asked at every look.                        *)
(***************************************************************************)
EXTENDS Naturals, Sequences, FiniteSets

CONSTANTS
  N,         (* How many files the run has.                                *)
  Width,     (* How many children may run at once.                         *)
  Deadline   (* How many ticks a child is given: Limits::deadline.         *)

ASSUME IsolateAssumption ==
  /\ N \in Nat
  /\ Width \in Nat \ {0}
  /\ Deadline \in Nat \ {0}

VARIABLES
  child,     (* Where each file's process is.                              *)
  says,      (* How each process that exited on its own did so.            *)
  age,       (* How long each process has been going, up to Deadline.      *)
  outfiles,  (* Files whose process has its output file still on disk.     *)
  running,   (* The children the run holds, as their files.                *)
  next,      (* The file to start next.                                    *)
  phase,     (* Where the run is.                                          *)
  at,        (* Where in `running` the sweep is.                           *)
  looked,    (* Whether the child there was just seen alive.               *)
  done,      (* What each file came to.                                    *)
  total,     (* What the run returns: a result for each file on it.        *)
  lost,      (* History: files whose process could not be waited for.      *)
  missed,    (* History: files whose process ended just after being seen   *)
             (* alive, before the rest of that look.                       *)
  due,       (* History: the children this sweep began with.               *)
  polled     (* History: the children this sweep has finished polling.     *)

vars == <<child, says, age, outfiles, running, next, phase, at, looked, done,
          total, lost, missed, due, polled>>

Jobs == 1..N

-----------------------------------------------------------------------------
(***************************************************************************)
(* How a process ends on its own, and what the run makes of it.  One that  *)
(* exits with success but printed no counts is as cut off as one that died.*)
(***************************************************************************)
Endings == {"summary", "silence", "panic"}

Heard(ending) == IF ending = "summary" THEN "scored" ELSE "died"

Results == {"scored", "died", "time", "memory"}
Unheard == "unheard"

\* Mutant: whichever child settled, the last one is taken out.
PopLast(s, i) == SubSeq(s, 1, Len(s) - 1)

\* The last child takes the place of the one that is taken out.
SwapRemove(s, i) ==
  [j \in 1..(Len(s) - 1) |-> IF j = i THEN s[Len(s)] ELSE s[j]]

Init ==
  /\ child = [f \in Jobs |-> "unborn"]
  /\ says = [f \in Jobs |-> "nothing"]
  /\ age = [f \in Jobs |-> 0]
  /\ outfiles = {}
  /\ running = <<>>
  /\ next = 1
  /\ phase = "fill"
  /\ at = 1
  /\ looked = FALSE
  /\ done = [f \in Jobs |-> Unheard]
  /\ total = [f \in {} |-> Unheard]
  /\ lost = {}
  /\ missed = {}
  /\ due = {}
  /\ polled = {}

-----------------------------------------------------------------------------
(***************************************************************************)
(* Starting children.                                                      *)
(***************************************************************************)
books == <<at, looked, done, total, lost, missed, due, polled>>

CanSpawn == Len(running) < Width /\ next <= N

Spawn ==
  /\ phase = "fill"
  /\ CanSpawn
  /\ child' = [child EXCEPT ![next] = "alive"]
  /\ outfiles' = outfiles \cup {next}
  /\ running' = Append(running, next)
  /\ next' = next + 1
  /\ UNCHANGED <<says, age, phase, books>>

\* The output file cannot be made, or it can and the process cannot.  The error
\* goes up at once, past every child that is running.
SpawnFails ==
  /\ phase = "fill"
  /\ CanSpawn
  /\ phase' = "failed"
  /\ outfiles' \in {outfiles, outfiles \cup {next}}
  /\ UNCHANGED <<child, says, age, running, next, books>>

BeginSweep ==
  /\ phase = "fill"
  /\ ~CanSpawn
  /\ running # <<>>
  /\ phase' = "sweep"
  /\ at' = 1
  /\ due' = {running[i] : i \in 1..Len(running)}
  /\ polled' = {}
  /\ UNCHANGED <<child, says, age, outfiles, running, next, looked, done, total,
                 lost, missed>>

-----------------------------------------------------------------------------
(***************************************************************************)
(* One look at one child.                                                  *)
(***************************************************************************)
Polling == phase = "sweep" /\ at <= Len(running)
Job     == running[at]

\* Where the sweep goes on: what was swapped in has not been looked at yet.
After(settled) == IF settled THEN at ELSE at + 1

Settle(result) ==
  /\ done' = [done EXCEPT ![Job] = result]
  /\ running' = SwapRemove(running, at)
  /\ at' = After(TRUE)
  /\ looked' = FALSE
  /\ polled' = polled \cup {Job}
  /\ UNCHANGED <<says, age, next, phase, total, missed, due>>

HearExit ==
  /\ Polling
  /\ ~looked
  /\ child[Job] = "exited"
  /\ Settle(Heard(says[Job]))
  /\ child' = [child EXCEPT ![Job] = "reaped"]
  /\ outfiles' = outfiles \ {Job}
  /\ UNCHANGED lost

\* Asking about the child fails.  It is cut off, and neither it nor its output
\* file is seen to.
WaitFails ==
  /\ Polling
  /\ ~looked
  /\ Settle("died")
  /\ lost' = lost \cup {Job}
  /\ UNCHANGED <<child, outfiles>>

\* Mutant: the clock is read without asking whether the child has ended.
SeeRunning ==
  /\ Polling
  /\ ~looked
  /\ child[Job] \in {"alive", "exited"}
  /\ looked' = TRUE
  /\ UNCHANGED <<child, says, age, outfiles, running, next, phase, at, done,
                 total, lost, missed, due, polled>>

SeeAlive ==
  /\ Polling
  /\ ~looked
  /\ child[Job] = "alive"
  /\ looked' = TRUE
  /\ UNCHANGED <<child, says, age, outfiles, running, next, phase, at, done,
                 total, lost, missed, due, polled>>

\* Mutant: the output of a child that was killed is not taken.
CutLeaving(why) ==
  /\ Polling
  /\ looked
  /\ Settle(why)
  /\ child' = [child EXCEPT ![Job] = "reaped"]
  /\ UNCHANGED <<outfiles, lost>>

\* Killed and waited for, which a child that has exited meanwhile survives no better.
Cut(why) ==
  /\ Polling
  /\ looked
  /\ Settle(why)
  /\ child' = [child EXCEPT ![Job] = "reaped"]
  /\ outfiles' = outfiles \ {Job}
  /\ UNCHANGED lost

CutOnTime == Cut("time") /\ age[Job] >= Deadline

\* `ps` has a number over the cap only for a process that is still there.
CutOnMemory ==
  /\ Cut("memory")
  /\ age[Job] \in 1..(Deadline - 1)
  /\ child[Job] = "alive"

\* Mutant: every look starts the clock again.
MoveOnAnew ==
  /\ Polling
  /\ looked
  /\ age[Job] < Deadline
  /\ age' = [age EXCEPT ![Job] = 0]
  /\ at' = After(FALSE)
  /\ looked' = FALSE
  /\ polled' = polled \cup {Job}
  /\ UNCHANGED <<child, says, outfiles, running, next, phase, done, total, lost,
                 missed, due>>

MoveOn ==
  /\ Polling
  /\ looked
  /\ age[Job] < Deadline
  /\ at' = After(FALSE)
  /\ looked' = FALSE
  /\ polled' = polled \cup {Job}
  /\ UNCHANGED <<child, says, age, outfiles, running, next, phase, done, total, lost,
                 missed, due>>

EndSweep ==
  /\ phase = "sweep"
  /\ at > Len(running)
  /\ phase' = "fill"
  /\ UNCHANGED <<child, says, age, outfiles, running, next, books>>

-----------------------------------------------------------------------------
(***************************************************************************)
(* Every result there is, in the order of the files.                       *)
(***************************************************************************)
\* Mutant: the run is over when the last child has been started.
AllStarted == next > N

Finished == next > N /\ running = <<>>

Fold ==
  /\ phase = "fill"
  /\ Finished
  /\ total' = [f \in {g \in Jobs : done[g] # Unheard} |-> done[f]]
  /\ phase' = "done"
  /\ UNCHANGED <<child, says, age, outfiles, running, next, at, looked, done,
                 lost, missed, due, polled>>

-----------------------------------------------------------------------------
(***************************************************************************)
(* What goes on outside the run.                                           *)
(***************************************************************************)
Exit(f, ending) ==
  /\ child[f] = "alive"
  /\ child' = [child EXCEPT ![f] = "exited"]
  /\ says' = [says EXCEPT ![f] = ending]
  /\ missed' = IF looked /\ Job = f THEN missed \cup {f} ELSE missed
  /\ UNCHANGED <<age, outfiles, running, next, phase, at, looked, done, total,
                 lost, due, polled>>

Aging == {f \in Jobs : child[f] \in {"alive", "exited"} /\ age[f] < Deadline}

Tick ==
  /\ Aging # {}
  /\ age' = [f \in Jobs |-> IF f \in Aging THEN age[f] + 1 ELSE age[f]]
  /\ UNCHANGED <<child, says, outfiles, running, next, phase, books>>

Parent ==
  \/ Spawn \/ SpawnFails \/ BeginSweep
  \/ HearExit \/ WaitFails \/ SeeAlive \/ CutOnTime \/ CutOnMemory \/ MoveOn
  \/ EndSweep \/ Fold

Next ==
  \/ Parent
  \/ Tick
  \/ \E f \in Jobs, ending \in Endings : Exit(f, ending)

Safety == Init /\ [][Next]_vars

(***************************************************************************)
(* The run is a loop of its own that is never left waiting on a child, and *)
(* time passes.  No child need ever end.                                   *)
(***************************************************************************)
Spec == Safety /\ WF_vars(Parent) /\ WF_vars(Tick)

-----------------------------------------------------------------------------
(***************************************************************************)
(* Properties.                                                             *)
(***************************************************************************)

\* Every variable has the type its field has in the code, and the histories theirs.
TypeOK ==
  /\ child \in [Jobs -> {"unborn", "alive", "exited", "reaped"}]
  /\ says \in [Jobs -> Endings \cup {"nothing"}]
  /\ age \in [Jobs -> 0..Deadline]
  /\ outfiles \subseteq Jobs
  /\ running \in Seq(Jobs)
  /\ next \in 1..(N + 1)
  /\ phase \in {"fill", "sweep", "done", "failed"}
  /\ at \in Nat \ {0}
  /\ looked \in BOOLEAN
  /\ done \in [Jobs -> Results \cup {Unheard}]
  /\ lost \subseteq Jobs
  /\ missed \subseteq Jobs
  /\ due \subseteq Jobs
  /\ polled \subseteq Jobs

\* A file that was started is held by the run or has a result, never both and
\* never twice: no file is lost from the count or counted again when a child is
\* swapped out from under the sweep.
HeldOrHeard ==
  /\ \A i, j \in 1..Len(running) : running[i] = running[j] => i = j
  /\ \A f \in Jobs :
       f < next <=> \/ \E i \in 1..Len(running) : running[i] = f
                    \/ done[f] # Unheard
  /\ \A i \in 1..Len(running) : done[running[i]] = Unheard

\* A sweep looks once at every child it began with: what is left of it is what
\* stands from `at` on, although children are taken out of the list as it goes.
SweepMissesNobody ==
  phase = "sweep" =>
    {running[i] : i \in at..Len(running)} = due \ polled

\* No more than Width processes are up, but for the ones the run lost hold of.
BoundedChildren ==
  Cardinality({f \in Jobs : child[f] \in {"alive", "exited"}} \ lost) <= Width

\* A run that finished has waited for every process and removed every output
\* file, but for the ones it could not ask about.
NothingLeftBehind ==
  phase = "done" => /\ \A f \in Jobs \ lost : child[f] = "reaped"
                    /\ outfiles \subseteq lost

\* What a process said on ending is what its file came to, however late the
\* look: only one that ended in the blink after it was seen alive can be cut off
\* all the same, and a file is scored on nothing but a summary.
FinishedIsHeard ==
  \A f \in Jobs :
    /\ says[f] # "nothing" /\ done[f] # Unheard /\ f \notin lost \cup missed
         => done[f] = Heard(says[f])
    /\ done[f] = "scored" => says[f] = "summary"

\* Every run ends, even when no child ever does.
RunEnds == <>(phase \in {"done", "failed"})

(***************************************************************************)
(* A run carries out CorpusRun: one result for each file, and a page only  *)
(* of all of them.                                                         *)
(***************************************************************************)
RunState ==
  IF phase = "done" THEN "published"
  ELSE IF phase = "failed" THEN "abandoned" ELSE "running"

Promise ==
  INSTANCE CorpusRun WITH
    Files <- Jobs, answer <- done, page <- total, state <- RunState

KeepsPromise == Promise!Spec
=============================================================================
