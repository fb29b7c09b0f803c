--------------------------- MODULE Isolate_proofs ---------------------------
(***************************************************************************)
(* Proofs about Isolate, for every number of files, width and deadline.    *)
(***************************************************************************)
EXTENDS Isolate, FiniteSetTheorems, TLAPS

-----------------------------------------------------------------------------
(***************************************************************************)
(* Taking a child out of the list.                                         *)
(***************************************************************************)

\* What `swap_remove` leaves: a list one shorter, of the same elements.
LEMMA SwapRemoveType ==
  ASSUME NEW S, NEW s \in Seq(S), NEW i \in 1..Len(s)
  PROVE  /\ SwapRemove(s, i) \in Seq(S)
         /\ Len(SwapRemove(s, i)) = Len(s) - 1
         /\ \A j \in 1..(Len(s) - 1) :
              SwapRemove(s, i)[j] = IF j = i THEN s[Len(s)] ELSE s[j]
  <1>1. Len(s) \in Nat /\ Len(s) - 1 \in Nat
    OBVIOUS
  <1>2. \A j \in 1..(Len(s) - 1) : (IF j = i THEN s[Len(s)] ELSE s[j]) \in S
    OBVIOUS
  <1>3. SwapRemove(s, i) \in [1..(Len(s) - 1) -> S]
    BY <1>2 DEF SwapRemove
  <1>4. QED
    BY <1>1, <1>3 DEF SwapRemove

\* From the place of the child on, it is the only one that goes.
LEMMA SwapRemoveFrom ==
  ASSUME NEW S, NEW s \in Seq(S), NEW i \in 1..Len(s), NEW from \in 1..i,
         \A j, k \in 1..Len(s) : s[j] = s[k] => j = k
  PROVE  {SwapRemove(s, i)[j] : j \in from..(Len(s) - 1)}
           = {s[j] : j \in from..Len(s)} \ {s[i]}
  <1> DEFINE r == SwapRemove(s, i)
  <1>1. \A j \in 1..(Len(s) - 1) : r[j] = IF j = i THEN s[Len(s)] ELSE s[j]
    BY SwapRemoveType
  <1> HIDE DEF r
  <1>2. ASSUME NEW j \in from..(Len(s) - 1)
        PROVE  r[j] \in {s[k] : k \in from..Len(s)} \ {s[i]}
    BY <1>1, <1>2
  <1>3. ASSUME NEW k \in from..Len(s), k # i
        PROVE  \E j \in from..(Len(s) - 1) : r[j] = s[k]
    <2>1. CASE k = Len(s)
      BY <1>1, <1>3, <2>1
    <2>2. CASE k # Len(s)
      BY <1>1, <1>3, <2>2
    <2>3. QED
      BY <2>1, <2>2
  <1>4. ASSUME NEW x \in {s[k] : k \in from..Len(s)} \ {s[i]}
        PROVE  \E j \in from..(Len(s) - 1) : r[j] = x
    <2>1. PICK k \in from..Len(s) : x = s[k] /\ k # i
      BY <1>4
    <2>2. QED
      BY <1>3, <2>1
  <1> DEFINE before == {s[j] : j \in from..Len(s)} \ {s[i]}
             after  == {r[j] : j \in from..(Len(s) - 1)}
  <1>5. \A x \in after : x \in before
    BY <1>2
  <1>6. \A x \in before : x \in after
    BY <1>4
  <1>7. before = after
    BY <1>5, <1>6
  <1>8. QED
    BY <1>7 DEF r

\* No child is twice in the list afterwards.
LEMMA SwapRemoveInjective ==
  ASSUME NEW S, NEW s \in Seq(S), NEW i \in 1..Len(s),
         \A j, k \in 1..Len(s) : s[j] = s[k] => j = k
  PROVE  \A j, k \in 1..(Len(s) - 1) :
           SwapRemove(s, i)[j] = SwapRemove(s, i)[k] => j = k
  <1>1. \A j \in 1..(Len(s) - 1) :
          SwapRemove(s, i)[j] = IF j = i THEN s[Len(s)] ELSE s[j]
    BY SwapRemoveType
  <1>2. Len(s) \in Nat \ {0}
    OBVIOUS
  <1>3. QED
    BY <1>1, <1>2

-----------------------------------------------------------------------------
(***************************************************************************)
(* The inductive invariant.  A file that was started is held by the run or *)
(* has a result, a process the run holds is up, and one it does not hold   *)
(* was waited for unless it was lost.                                      *)
(***************************************************************************)
Held == {running[i] : i \in 1..Len(running)}

Processes ==
  \A f \in Jobs :
    /\ child[f] = "unborn" <=> next <= f
    /\ f \in Held => child[f] \in {"alive", "exited"} /\ f \notin lost
    /\ done[f] # Unheard /\ f \notin lost => child[f] = "reaped"
    /\ f \in lost => done[f] = "died"
    /\ child[f] \in {"unborn", "alive"} => says[f] = "nothing"
    /\ child[f] = "exited" => says[f] # "nothing"

Files ==
  \A f \in outfiles : f \in Held \/ f \in lost \/ (phase = "failed" /\ f = next)

Looks ==
  looked => /\ Polling
            /\ child[Job] = "exited" => Job \in missed

Ends ==
  phase = "done" => /\ next = N + 1
                    /\ running = <<>>
                    /\ total = done

IInv ==
  /\ TypeOK
  /\ HeldOrHeard
  /\ Len(running) <= Width
  /\ SweepMissesNobody
  /\ Processes
  /\ Files
  /\ Looks
  /\ FinishedIsHeard
  /\ Ends

\* Nothing is running to begin with.
LEMMA InitIInv == Init => IInv
  <1> SUFFICES ASSUME Init
               PROVE  IInv
    OBVIOUS
  <1> USE IsolateAssumption DEF Init, IsolateAssumption
  <1>1. TypeOK
    <2>1. /\ outfiles \subseteq Jobs /\ lost \subseteq Jobs /\ missed \subseteq Jobs
          /\ due \subseteq Jobs /\ polled \subseteq Jobs /\ looked \in BOOLEAN
          /\ phase \in {"fill", "sweep", "done", "failed"}
      OBVIOUS
    <2>2. next \in 1..(N + 1) /\ at \in Nat \ {0}
      OBVIOUS
    <2>3. running \in Seq(Jobs)
      OBVIOUS
    <2>4. /\ child \in [Jobs -> {"unborn", "alive", "exited", "reaped"}]
          /\ says \in [Jobs -> Endings \cup {"nothing"}]
          /\ done \in [Jobs -> Results \cup {Unheard}]
      OBVIOUS
    <2>5. age \in [Jobs -> 0..Deadline]
      OBVIOUS
    <2>6. QED
      BY <2>1, <2>2, <2>3, <2>4, <2>5 DEF TypeOK
  <1>2. HeldOrHeard /\ Len(running) <= Width /\ Held = {}
    BY DEF HeldOrHeard, Held, Jobs
  <1>3. SweepMissesNobody /\ Files /\ Looks /\ Ends
    BY DEF SweepMissesNobody, Files, Looks, Ends
  <1>4. Processes
    BY <1>2 DEF Processes, Jobs
  <1>5. FinishedIsHeard
    BY DEF FinishedIsHeard, Unheard
  <1>6. QED
    BY <1>1, <1>2, <1>3, <1>4, <1>5 DEF IInv

-----------------------------------------------------------------------------
(***************************************************************************)
(* A child that settles leaves the list and has a result, whichever way it *)
(* settles: it is waited for, or it is lost.                               *)
(***************************************************************************)
LEMMA Settling ==
  ASSUME IInv, Polling, NEW r \in Results, Settle(r),
         r = "scored" => says[Job] = "summary",
         \/ /\ child' = [child EXCEPT ![Job] = "reaped"]
            /\ outfiles' = outfiles \ {Job}
            /\ lost' = lost
            /\ says[Job] # "nothing" /\ Job \notin missed => r = Heard(says[Job])
         \/ /\ child' = child
            /\ outfiles' = outfiles
            /\ lost' = lost \cup {Job}
            /\ r = "died"
  PROVE  IInv'
  <1> USE IsolateAssumption DEF IsolateAssumption, IInv
  <1>1. /\ at \in 1..Len(running) /\ running \in Seq(Jobs) /\ Len(running) \in Nat
        /\ Job \in Jobs /\ Job \in Held
        /\ \A j, k \in 1..Len(running) : running[j] = running[k] => j = k
    BY DEF Polling, Job, Held, TypeOK, HeldOrHeard
  <1>2. /\ done' = [done EXCEPT ![Job] = r] /\ running' = SwapRemove(running, at)
        /\ at' = at /\ looked' = FALSE /\ polled' = polled \cup {Job}
        /\ UNCHANGED <<says, age, next, phase, total, missed, due>>
    BY DEF Settle, After
  <1>3. /\ running' \in Seq(Jobs) /\ Len(running') = Len(running) - 1
        /\ \A j, k \in 1..Len(running') : running'[j] = running'[k] => j = k
    <2>1. /\ SwapRemove(running, at) \in Seq(Jobs)
          /\ Len(SwapRemove(running, at)) = Len(running) - 1
      BY <1>1, SwapRemoveType
    <2>2. \A j, k \in 1..(Len(running) - 1) :
            SwapRemove(running, at)[j] = SwapRemove(running, at)[k] => j = k
      BY ONLY <1>1, SwapRemoveInjective
    <2>3. QED
      BY <1>2, <2>1, <2>2
  <1>4. Held' = Held \ {Job}
    <2>1. 1 \in 1..at
      BY <1>1
    <2>2. {SwapRemove(running, at)[j] : j \in 1..(Len(running) - 1)}
            = {running[j] : j \in 1..Len(running)} \ {running[at]}
      BY ONLY <1>1, <2>1, SwapRemoveFrom
    <2>3. running' = SwapRemove(running, at) /\ Len(running') = Len(running) - 1
      BY <1>2, <1>3
    <2>4. QED
      BY ONLY <2>2, <2>3, Zenon DEF Held, Job
  <1>5. {running'[i] : i \in at..Len(running')} = {running[i] : i \in at..Len(running)} \ {Job}
    <2>1. at \in 1..at
      BY <1>1
    <2>2. {SwapRemove(running, at)[j] : j \in at..(Len(running) - 1)}
            = {running[j] : j \in at..Len(running)} \ {running[at]}
      BY ONLY <1>1, <2>1, SwapRemoveFrom
    <2>3. running' = SwapRemove(running, at) /\ Len(running') = Len(running) - 1 /\ at' = at
      BY <1>2, <1>3
    <2>4. QED
      BY ONLY <2>2, <2>3, Zenon DEF Job
  <1>6. TypeOK'
    <2>1. done' \in [Jobs -> Results \cup {Unheard}]
      BY <1>2 DEF TypeOK
    <2>2. /\ child' \in [Jobs -> {"unborn", "alive", "exited", "reaped"}]
          /\ outfiles' \subseteq Jobs /\ lost' \subseteq Jobs
      BY <1>1 DEF TypeOK
    <2>3. QED
      BY <1>1, <1>2, <1>3, <2>1, <2>2 DEF TypeOK
  <1>7. HeldOrHeard'
    <2>1. \A f \in Jobs : (\E i \in 1..Len(running) : running[i] = f) <=> f \in Held
      BY DEF Held
    <2>2. \A f \in Jobs : (\E i \in 1..Len(running') : running'[i] = f) <=> f \in Held'
      BY DEF Held
    <2>3. \A f \in Jobs : done'[f] # Unheard <=> f = Job \/ done[f] # Unheard
      BY <1>1, <1>2 DEF TypeOK, Results, Unheard
    <2>4. \A f \in Jobs : f < next' <=> f \in Held' \/ done'[f] # Unheard
      BY <1>1, <1>2, <1>4, <2>1, <2>3 DEF HeldOrHeard
    <2>5. \A f \in Held : f \in Jobs /\ done[f] = Unheard
      BY <1>1 DEF Held, HeldOrHeard
    <2>6. \A f \in Held' : f \in Jobs /\ done'[f] = Unheard
      BY <1>1, <1>4, <2>3, <2>5
    <2>7. \A i \in 1..Len(running') : running'[i] \in Held'
      BY DEF Held
    <2>8. QED
      BY <1>3, <2>2, <2>4, <2>6, <2>7 DEF HeldOrHeard
  <1>8. Len(running') <= Width
    BY <1>1, <1>3
  <1>9. SweepMissesNobody'
    <2>1. {running[i] : i \in at..Len(running)} = due \ polled
      BY DEF Polling, SweepMissesNobody
    <2>2. QED
      BY <1>2, <1>5, <2>1 DEF SweepMissesNobody
  <1>10. Processes'
    <2> SUFFICES ASSUME NEW f \in Jobs
                 PROVE  /\ child'[f] = "unborn" <=> next' <= f
                        /\ f \in Held' => child'[f] \in {"alive", "exited"} /\ f \notin lost'
                        /\ done'[f] # Unheard /\ f \notin lost' => child'[f] = "reaped"
                        /\ f \in lost' => done'[f] = "died"
                        /\ child'[f] \in {"unborn", "alive"} => says'[f] = "nothing"
                        /\ child'[f] = "exited" => says'[f] # "nothing"
      BY DEF Processes
    <2>1. CASE f = Job
      BY <1>1, <1>2, <1>4, <2>1 DEF Processes, TypeOK
    <2>2. CASE f # Job
      BY <1>1, <1>2, <1>4, <2>2 DEF Processes, TypeOK
    <2>3. QED
      BY <2>1, <2>2
  <1>11. Files'
    BY <1>2, <1>4 DEF Files
  <1>12. Looks' /\ Ends'
    BY <1>2 DEF Looks, Ends, Polling
  <1>13. FinishedIsHeard'
    <2> SUFFICES ASSUME NEW f \in Jobs
                 PROVE  /\ says'[f] # "nothing" /\ done'[f] # Unheard /\ f \notin lost' \cup missed'
                             => done'[f] = Heard(says'[f])
                        /\ done'[f] = "scored" => says'[f] = "summary"
      BY DEF FinishedIsHeard
    <2>1. CASE f = Job
      BY <1>1, <1>2, <2>1 DEF TypeOK
    <2>2. CASE f # Job
      BY <1>1, <1>2, <2>2 DEF TypeOK, FinishedIsHeard
    <2>3. QED
      BY <2>1, <2>2
  <1>14. QED
    BY <1>6, <1>7, <1>8, <1>9, <1>10, <1>11, <1>12, <1>13

\* Starting a child: the file that comes next joins the ones held.
LEMMA Spawning ==
  ASSUME IInv, Spawn
  PROVE  IInv'
  <1> USE IsolateAssumption DEF IsolateAssumption, IInv
  <1>1. /\ next \in Jobs /\ running \in Seq(Jobs) /\ Len(running) \in Nat
        /\ Len(running) < Width /\ phase = "fill"
    BY DEF Spawn, CanSpawn, TypeOK, Jobs
  <1>2. /\ child' = [child EXCEPT ![next] = "alive"] /\ outfiles' = outfiles \cup {next}
        /\ running' = Append(running, next) /\ next' = next + 1
        /\ UNCHANGED <<says, age, phase, at, looked, done, total, lost, missed, due, polled>>
    BY DEF Spawn, books
  <1>3. /\ running' \in Seq(Jobs) /\ Len(running') = Len(running) + 1
        /\ \A i \in 1..Len(running) : running'[i] = running[i]
        /\ running'[Len(running')] = next
    BY <1>1, <1>2
  <1>4. next \notin Held /\ next \notin lost /\ child[next] = "unborn" /\ done[next] = Unheard
    <2>1. next \in Nat /\ ~(next < next) /\ next <= next
      BY <1>1 DEF Jobs
    <2>2. child[next] = "unborn"
      BY <1>1, <2>1 DEF Processes
    <2>3. next \notin Held /\ done[next] = Unheard
      BY <1>1, <2>1 DEF HeldOrHeard, Held
    <2>4. next \notin lost
      BY <1>1, <2>3 DEF Processes, Unheard
    <2>5. QED
      BY <2>2, <2>3, <2>4
  <1>5. Held' = Held \cup {next}
    <2>1. \A i \in 1..Len(running') : running'[i] \in Held \cup {next}
      BY <1>1, <1>3 DEF Held
    <2>2. \A f \in Held \cup {next} : \E i \in 1..Len(running') : running'[i] = f
      BY <1>1, <1>3 DEF Held
    <2>3. QED
      BY <2>1, <2>2 DEF Held
  <1>6. TypeOK'
    <2>1. /\ child' \in [Jobs -> {"unborn", "alive", "exited", "reaped"}]
          /\ outfiles' \subseteq Jobs /\ next' \in 1..(N + 1)
      BY <1>1, <1>2 DEF TypeOK, Jobs
    <2>2. QED
      BY <1>2, <1>3, <2>1 DEF TypeOK
  <1>7. HeldOrHeard'
    <2>1. \A f \in Jobs : (\E i \in 1..Len(running) : running[i] = f) <=> f \in Held
      BY DEF Held
    <2>2. \A f \in Jobs : (\E i \in 1..Len(running') : running'[i] = f) <=> f \in Held'
      BY DEF Held
    <2>3. \A f \in Jobs : f < next' <=> f \in Held' \/ done'[f] # Unheard
      BY <1>1, <1>2, <1>4, <1>5, <2>1 DEF HeldOrHeard, TypeOK, Jobs
    <2>4. \A i, j \in 1..Len(running') : running'[i] = running'[j] => i = j
      BY <1>1, <1>3, <1>4 DEF HeldOrHeard, Held
    <2>5. \A i \in 1..Len(running') : done'[running'[i]] = Unheard
      BY <1>1, <1>2, <1>3, <1>4 DEF HeldOrHeard
    <2>6. QED
      BY <2>2, <2>3, <2>4, <2>5 DEF HeldOrHeard
  <1>8. Len(running') <= Width
    BY <1>1, <1>3
  <1>9. SweepMissesNobody' /\ Looks' /\ Ends' /\ FinishedIsHeard'
    BY <1>1, <1>2 DEF SweepMissesNobody, Looks, Polling, Ends, FinishedIsHeard
  <1>10. Processes'
    <2> SUFFICES ASSUME NEW f \in Jobs
                 PROVE  /\ child'[f] = "unborn" <=> next' <= f
                        /\ f \in Held' => child'[f] \in {"alive", "exited"} /\ f \notin lost'
                        /\ done'[f] # Unheard /\ f \notin lost' => child'[f] = "reaped"
                        /\ f \in lost' => done'[f] = "died"
                        /\ child'[f] \in {"unborn", "alive"} => says'[f] = "nothing"
                        /\ child'[f] = "exited" => says'[f] # "nothing"
      BY DEF Processes
    <2>1. CASE f = next
      BY <1>1, <1>2, <1>4, <1>5, <2>1 DEF Processes, TypeOK, Jobs
    <2>2. CASE f # next
      BY <1>1, <1>2, <1>5, <2>2 DEF Processes, TypeOK, Jobs
    <2>3. QED
      BY <2>1, <2>2
  <1>11. Files'
    BY <1>1, <1>2, <1>5 DEF Files
  <1>12. QED
    BY <1>6, <1>7, <1>8, <1>9, <1>10, <1>11

\* A process ends on its own, whoever is looking.
LEMMA Exiting ==
  ASSUME IInv, NEW g \in Jobs, NEW ending \in Endings, Exit(g, ending)
  PROVE  IInv'
  <1> USE IsolateAssumption DEF IsolateAssumption, IInv
  <1>1. /\ child[g] = "alive" /\ child' = [child EXCEPT ![g] = "exited"]
        /\ says' = [says EXCEPT ![g] = ending]
        /\ missed' = IF looked /\ Job = g THEN missed \cup {g} ELSE missed
        /\ UNCHANGED <<age, outfiles, running, next, phase, at, looked, done, total,
                       lost, due, polled>>
    BY DEF Exit
  <1>2. Held' = Held /\ Job' = Job
    BY <1>1 DEF Held, Job
  <1>3. TypeOK'
    BY <1>1 DEF TypeOK
  <1>4. HeldOrHeard' /\ Len(running') <= Width /\ SweepMissesNobody' /\ Ends'
    BY <1>1 DEF HeldOrHeard, SweepMissesNobody, Ends
  <1>5. Files'
    BY <1>1, <1>2 DEF Files
  <1>6. Looks'
    <2>1. CASE looked /\ Job = g
      BY <1>1, <1>2, <2>1 DEF Looks, Polling
    <2>2. CASE looked /\ Job # g
      <3>1. child'[Job] = child[Job] \/ child'[Job] # "exited"
        BY <1>1, <2>2 DEF TypeOK, Looks, Polling, Job
      <3>2. QED
        BY <1>1, <1>2, <2>2, <3>1 DEF Looks, Polling
    <2>3. QED
      BY <1>1, <2>1, <2>2 DEF Looks
  <1>7. Processes'
    BY <1>1, <1>2 DEF Processes, TypeOK, Endings
  <1>8. FinishedIsHeard'
    <2>1. done[g] = Unheard \/ (g \in lost /\ done[g] = "died")
      BY <1>1 DEF Processes
    <2>2. \A f \in Jobs : f # g => says'[f] = says[f] /\ (f \in missed' <=> f \in missed)
      BY <1>1 DEF TypeOK
    <2>3. QED
      BY <1>1, <2>1, <2>2 DEF FinishedIsHeard, Unheard
  <1>9. QED
    BY <1>3, <1>4, <1>5, <1>6, <1>7, <1>8

-----------------------------------------------------------------------------
(***************************************************************************)
(* The rest of the polls and of the loop.                                  *)
(***************************************************************************)

\* Every way a child settles is one of the two of Settling.
LEMMA SettlingSteps ==
  ASSUME IInv, HearExit \/ WaitFails \/ CutOnTime \/ CutOnMemory
  PROVE  IInv'
  <1>1. Polling => Job \in Jobs /\ Job \in Held
    BY DEF IInv, TypeOK, Polling, Job, Held
  <1>2. CASE HearExit
    <2>1. /\ Polling /\ child[Job] = "exited" /\ Settle(Heard(says[Job]))
          /\ child' = [child EXCEPT ![Job] = "reaped"]
          /\ outfiles' = outfiles \ {Job} /\ lost' = lost
      BY <1>2 DEF HearExit
    <2>2. Heard(says[Job]) \in Results /\ (Heard(says[Job]) = "scored" => says[Job] = "summary")
      BY DEF Heard, Results
    <2>3. QED
      BY <2>1, <2>2, Settling
  <1>3. CASE WaitFails
    <2>1. "died" \in Results
      BY DEF Results
    <2>2. QED
      BY <1>3, <2>1, Settling DEF WaitFails
  <1>4. ASSUME NEW why \in {"time", "memory"}, Cut(why)
        PROVE  IInv'
    <2>1. /\ Polling /\ looked /\ Settle(why) /\ lost' = lost
          /\ child' = [child EXCEPT ![Job] = "reaped"] /\ outfiles' = outfiles \ {Job}
      BY <1>4 DEF Cut
    <2>2. says[Job] # "nothing" => Job \in missed
      BY <1>1, <2>1 DEF IInv, Looks, Processes
    <2>3. why \in Results /\ why # "scored"
      BY DEF Results
    <2>4. QED
      BY <2>1, <2>2, <2>3, Settling
  <1>5. QED
    BY <1>2, <1>3, <1>4 DEF CutOnTime, CutOnMemory

\* Seeing a child alive and leaving it alone.
LEMMA LookingSteps ==
  ASSUME IInv, SeeAlive \/ MoveOn
  PROVE  IInv'
  <1> USE DEF IInv
  <1>1. UNCHANGED <<child, says, age, outfiles, running, next, phase, done, total, lost, missed, due>>
    BY DEF SeeAlive, MoveOn
  <1>2. Held' = Held
    BY <1>1 DEF Held
  <1>3. /\ Polling /\ at \in 1..Len(running) /\ running \in Seq(Jobs) /\ Job \in Jobs
        /\ \A j, k \in 1..Len(running) : running[j] = running[k] => j = k
    <2>1. Polling
      BY DEF SeeAlive, MoveOn
    <2>2. at \in 1..Len(running) /\ running \in Seq(Jobs)
      BY <2>1 DEF Polling, TypeOK
    <2>3. Job \in Jobs
      BY <2>2 DEF Job
    <2>4. QED
      BY <2>1, <2>2, <2>3 DEF HeldOrHeard
  <1>4. HeldOrHeard' /\ Len(running') <= Width /\ Ends' /\ FinishedIsHeard'
    BY <1>1 DEF HeldOrHeard, Ends, FinishedIsHeard
  <1>5. Processes' /\ Files'
    BY <1>1, <1>2 DEF Processes, Files
  <1>6. CASE SeeAlive
    <2>1. child[Job] = "alive" /\ looked' = TRUE /\ at' = at /\ polled' = polled
      BY <1>6 DEF SeeAlive
    <2>2. TypeOK' /\ SweepMissesNobody'
      BY <1>1, <2>1 DEF TypeOK, SweepMissesNobody
    <2>3. Looks'
      <3>1. Polling' /\ Job' = Job /\ child'[Job'] = "alive"
        BY <1>1, <1>3, <2>1 DEF Polling, Job
      <3>2. child'[Job'] # "exited"
        BY <3>1
      <3>3. QED
        BY <3>1, <3>2 DEF Looks
    <2>4. QED
      BY <1>4, <1>5, <2>2, <2>3
  <1>7. CASE MoveOn
    <2>1. looked' = FALSE /\ at' = at + 1 /\ polled' = polled \cup {Job}
      BY <1>7 DEF MoveOn, After
    <2>2. TypeOK'
      <3>1. at + 1 \in Nat \ {0} /\ polled \cup {Job} \subseteq Jobs
        BY <1>3 DEF TypeOK
      <3>2. QED
        BY <1>1, <2>1, <3>1 DEF TypeOK
    <2>3. {running[i] : i \in (at + 1)..Len(running)} = {running[i] : i \in at..Len(running)} \ {Job}
      <3>1. \A i \in (at + 1)..Len(running) :
              running[i] \in {running[k] : k \in at..Len(running)} \ {Job}
        BY <1>3 DEF Job
      <3>2. \A i \in at..Len(running) : running[i] # Job => i \in (at + 1)..Len(running)
        BY <1>3 DEF Job
      <3>3. QED
        BY <3>1, <3>2
    <2>4. {running[i] : i \in at..Len(running)} = due \ polled
      BY <1>3 DEF Polling, SweepMissesNobody
    <2>5. SweepMissesNobody'
      BY <1>1, <2>1, <2>3, <2>4 DEF SweepMissesNobody
    <2>6. Looks'
      BY <2>1 DEF Looks
    <2>7. QED
      BY <1>4, <1>5, <2>2, <2>5, <2>6
  <1>8. QED
    BY <1>6, <1>7

\* The steps of the loop that touch no child.
LEMMA LoopSteps ==
  ASSUME IInv, SpawnFails \/ BeginSweep \/ EndSweep \/ Fold
  PROVE  IInv'
  <1> USE IsolateAssumption DEF IsolateAssumption, IInv
  <1>1. UNCHANGED <<child, says, age, running, next, looked, done, lost, missed>>
    BY DEF SpawnFails, BeginSweep, EndSweep, Fold, books
  <1>2. Held' = Held
    BY <1>1 DEF Held
  <1>3. HeldOrHeard' /\ Len(running') <= Width /\ FinishedIsHeard' /\ Processes'
    BY <1>1, <1>2 DEF HeldOrHeard, FinishedIsHeard, Processes
  <1>4. looked = FALSE
    <2>1. CASE EndSweep
      BY <2>1 DEF EndSweep, Looks, Polling, TypeOK
    <2>2. CASE ~EndSweep
      BY <2>2 DEF SpawnFails, BeginSweep, Fold, Looks, Polling, TypeOK
    <2>3. QED
      BY <2>1, <2>2
  <1>5. Looks'
    BY <1>1, <1>4 DEF Looks
  <1>6. CASE SpawnFails
    <2>1. /\ phase' = "failed" /\ outfiles' \in {outfiles, outfiles \cup {next}}
          /\ phase = "fill" /\ next \in Jobs /\ UNCHANGED books
      BY <1>6 DEF SpawnFails, CanSpawn, TypeOK, Jobs
    <2>2. TypeOK' /\ SweepMissesNobody' /\ Ends'
      BY <1>1, <2>1 DEF TypeOK, SweepMissesNobody, Ends, books
    <2>3. Files'
      BY <1>1, <1>2, <2>1 DEF Files
    <2>4. QED
      BY <1>3, <1>5, <2>2, <2>3
  <1>7. CASE BeginSweep
    <2>1. /\ phase = "fill" /\ phase' = "sweep" /\ at' = 1 /\ due' = Held /\ polled' = {}
          /\ UNCHANGED <<outfiles, total>>
      BY <1>7 DEF BeginSweep, Held
    <2>2. Held \subseteq Jobs
      BY DEF Held, TypeOK
    <2>3. TypeOK' /\ Ends'
      BY <1>1, <2>1, <2>2 DEF TypeOK, Ends
    <2>4. SweepMissesNobody'
      BY <1>1, <2>1 DEF SweepMissesNobody, Held
    <2>5. Files'
      BY <1>1, <1>2, <2>1 DEF Files
    <2>6. QED
      BY <1>3, <1>5, <2>3, <2>4, <2>5
  <1>8. CASE EndSweep
    <2>1. phase = "sweep" /\ phase' = "fill" /\ UNCHANGED <<books, outfiles>>
      BY <1>8 DEF EndSweep
    <2>2. TypeOK' /\ SweepMissesNobody' /\ Ends'
      BY <1>1, <2>1 DEF TypeOK, SweepMissesNobody, Ends, books
    <2>3. Files'
      BY <1>1, <1>2, <2>1 DEF Files
    <2>4. QED
      BY <1>3, <1>5, <2>2, <2>3
  <1>9. CASE Fold
    <2>1. /\ phase = "fill" /\ phase' = "done" /\ running = <<>> /\ next > N
          /\ total' = [f \in {g \in Jobs : done[g] # Unheard} |-> done[f]]
          /\ UNCHANGED <<outfiles, at, due, polled>>
      BY <1>9 DEF Fold, Finished
    <2>2. next = N + 1
      BY <2>1 DEF TypeOK
    <2>3. \A f \in Jobs : done[f] # Unheard
      BY <2>1, <2>2 DEF HeldOrHeard, Jobs
    <2>4. {g \in Jobs : done[g] # Unheard} = Jobs /\ done \in [Jobs -> Results \cup {Unheard}]
      BY <2>3 DEF TypeOK
    <2>5. total' = done
      BY <2>1, <2>4
    <2>6. TypeOK' /\ SweepMissesNobody' /\ Ends'
      BY <1>1, <2>1, <2>2, <2>5 DEF TypeOK, SweepMissesNobody, Ends
    <2>7. Files'
      BY <1>1, <1>2, <2>1 DEF Files
    <2>8. QED
      BY <1>3, <1>5, <2>6, <2>7
  <1>10. QED
    BY <1>6, <1>7, <1>8, <1>9

LEMMA Ticking ==
  ASSUME IInv, Tick
  PROVE  IInv'
  <1> USE IsolateAssumption DEF IsolateAssumption, IInv
  <1>1. /\ UNCHANGED <<child, says, outfiles, running, next, phase, books>>
        /\ age' = [f \in Jobs |-> IF f \in Aging THEN age[f] + 1 ELSE age[f]]
    BY DEF Tick
  <1>2. age' \in [Jobs -> 0..Deadline]
    BY <1>1 DEF TypeOK, Aging
  <1>3. UNCHANGED <<Held, Job, Polling>>
    BY <1>1 DEF Held, Job, Polling, books
  <1>4. TypeOK'
    BY <1>1, <1>2 DEF TypeOK, books
  <1>5. HeldOrHeard' /\ Len(running') <= Width /\ SweepMissesNobody' /\ FinishedIsHeard' /\ Ends'
    BY <1>1 DEF HeldOrHeard, SweepMissesNobody, FinishedIsHeard, Ends, books
  <1>6. Processes' /\ Files' /\ Looks'
    BY <1>1, <1>3 DEF Processes, Files, Looks, books
  <1>7. QED
    BY <1>4, <1>5, <1>6

LEMMA StepIInv ==
  ASSUME IInv, [Next]_vars
  PROVE  IInv'
  <1>1. CASE Parent
    BY <1>1, Spawning, SettlingSteps, LookingSteps, LoopSteps DEF Parent
  <1>2. CASE Tick
    BY <1>2, Ticking
  <1>3. ASSUME NEW f \in Jobs, NEW ending \in Endings, Exit(f, ending)
        PROVE  IInv'
    BY <1>3, Exiting
  <1>4. CASE UNCHANGED vars
    BY <1>4 DEF vars, IInv, TypeOK, HeldOrHeard, SweepMissesNobody, Processes, Files,
         Looks, Polling, Job, FinishedIsHeard, Ends, Held
  <1>5. QED
    BY <1>1, <1>2, <1>3, <1>4 DEF Next

THEOREM Inductive == Spec => []IInv
  BY InitIInv, StepIInv, PTL DEF Spec, Safety

-----------------------------------------------------------------------------
(***************************************************************************)
(* What a run of the corpus keeps.                                         *)
(***************************************************************************)

\* The type of every variable of a run, with any number of files and children.
THEOREM RunTypes == Spec => []TypeOK
  BY Inductive, PTL DEF IInv

\* No file that was started is lost from the count or counted twice.
THEOREM EveryFileIsHeldOrHeard == Spec => []HeldOrHeard
  BY Inductive, PTL DEF IInv

\* The sweep of `run_corpus` looks once at every child it began with, although
\* `swap_remove` moves them about under it.
THEOREM EverySweepMissesNobody == Spec => []SweepMissesNobody
  BY Inductive, PTL DEF IInv

\* What a process said on ending is what its file came to.
THEOREM EveryFinishedChildIsHeard == Spec => []FinishedIsHeard
  BY Inductive, PTL DEF IInv

\* A finished run has waited for every process and removed every output file, but
\* for those it could not ask about.
THEOREM AFinishedRunLeavesNothing == Spec => []NothingLeftBehind
  <1>1. IInv => NothingLeftBehind
    <2> SUFFICES ASSUME IInv, phase = "done"
                 PROVE  /\ \A f \in Jobs \ lost : child[f] = "reaped"
                        /\ outfiles \subseteq lost
      BY DEF NothingLeftBehind
    <2>1. next = N + 1 /\ running = <<>> /\ Held = {}
      BY DEF IInv, Ends, Held
    <2>2. \A f \in Jobs : done[f] # Unheard
      BY <2>1, IsolateAssumption DEF IInv, HeldOrHeard, Jobs, IsolateAssumption
    <2>3. \A f \in Jobs \ lost : child[f] = "reaped"
      BY <2>2 DEF IInv, Processes
    <2>4. outfiles \subseteq lost
      BY <2>1 DEF IInv, Files
    <2>5. QED
      BY <2>3, <2>4
  <1>2. QED
    BY Inductive, <1>1, PTL

\* At most Width processes are up, but for the ones the run lost hold of.
THEOREM ChildrenAreBounded == Spec => []BoundedChildren
  <1>1. IInv => BoundedChildren
    <2> SUFFICES ASSUME IInv
                 PROVE  BoundedChildren
      OBVIOUS
    <2> DEFINE up == {f \in Jobs : child[f] \in {"alive", "exited"}} \ lost
    <2>1. up \subseteq Held
      <3> SUFFICES ASSUME NEW f \in up
                   PROVE  f \in Held
        OBVIOUS
      <3>1. done[f] = Unheard /\ child[f] # "unborn"
        BY DEF IInv, Processes
      <3>2. f < next
        BY <3>1, IsolateAssumption DEF IInv, Processes, TypeOK, Jobs, IsolateAssumption
      <3>3. QED
        BY <3>1, <3>2 DEF IInv, HeldOrHeard, Held
    <2>2. Len(running) \in Nat /\ running \in Seq(Jobs) /\ Len(running) <= Width
      BY DEF IInv, TypeOK
    <2>3. IsFiniteSet(1..Len(running)) /\ Cardinality(1..Len(running)) = Len(running)
      BY <2>2, FS_Interval, SMTT(30)
    <2>4. running \in Surjection(1..Len(running), Held)
      BY <2>2 DEF Held, Surjection
    <2>5. IsFiniteSet(Held) /\ Cardinality(Held) <= Len(running)
      BY ONLY <2>3, <2>4, FS_Surjection
    <2>6. IsFiniteSet(up) /\ Cardinality(up) <= Cardinality(Held)
      BY <2>1, <2>5, FS_Subset
    <2>7. Cardinality(up) \in Nat /\ Cardinality(Held) \in Nat
      BY <2>5, <2>6, FS_CardinalityType
    <2>8. QED
      BY <2>2, <2>5, <2>6, <2>7, IsolateAssumption DEF BoundedChildren, IsolateAssumption
  <1>2. QED
    BY Inductive, <1>1, PTL

(***************************************************************************)
(* Every step of a run is a step of CorpusRun or changes nothing of it.    *)
(***************************************************************************)

\* A child that settles had not been heard, and is heard now.
LEMMA SettlingIsHearing ==
  ASSUME IInv, Polling, NEW r \in Results, Settle(r)
  PROVE  Promise!Hear(Job)
  <1>1. Job \in Held /\ Job \in Jobs /\ done[Job] = Unheard /\ phase = "sweep"
    BY DEF IInv, TypeOK, Polling, Job, Held, HeldOrHeard
  <1>2. done' = [done EXCEPT ![Job] = r] /\ UNCHANGED <<phase, total>>
    BY DEF Settle
  <1>3. RunState = "running" /\ RunState' = RunState
    BY <1>1, <1>2 DEF RunState
  <1>4. QED
    BY <1>1, <1>2, <1>3 DEF Promise!Hear

\* One result for each file, and a page only of all of them.
THEOREM RunKeepsPromise == Spec => KeepsPromise
  <1>1. Init => Promise!Init
    BY DEF Init, Promise!Init, RunState
  <1>2. ASSUME IInv, [Next]_vars
        PROVE  [Promise!Next]_(Promise!vars)
    <2>1. CASE HearExit \/ WaitFails \/ CutOnTime \/ CutOnMemory
      <3>1. \E r \in Results : Polling /\ Settle(r)
        BY <2>1 DEF HearExit, WaitFails, CutOnTime, CutOnMemory, Cut, Results, Heard
      <3>2. Promise!Hear(Job)
        BY <1>2, <3>1, SettlingIsHearing
      <3>3. Polling
        BY <3>1
      <3>4. Job \in Jobs
        BY <1>2, <3>3 DEF IInv, TypeOK, Polling, Job
      <3>5. QED
        BY <3>2, <3>4 DEF Promise!Next
    <2>2. CASE Fold
      <3>1. IInv'
        BY <1>2, StepIInv
      <3>2. /\ phase = "fill" /\ phase' = "done" /\ done' = done
            /\ Finished
        BY <2>2 DEF Fold
      <3>3. total' = done
        BY <3>1, <3>2 DEF IInv, Ends
      <3>4. \A f \in Jobs : done[f] # Unheard
        BY <1>2, <3>2, IsolateAssumption
           DEF IInv, TypeOK, HeldOrHeard, Finished, Jobs, IsolateAssumption
      <3>5. Promise!Publish
        BY <3>2, <3>3, <3>4 DEF Promise!Publish, RunState
      <3>6. QED
        BY <3>5 DEF Promise!Next
    <2>3. CASE SpawnFails
      <3>1. phase = "fill" /\ phase' = "failed" /\ UNCHANGED <<done, total>>
        BY <2>3 DEF SpawnFails, books
      <3>2. QED
        BY <3>1 DEF Promise!Next, Promise!Abandon, RunState
    <2>4. CASE Spawn \/ BeginSweep \/ SeeAlive \/ MoveOn \/ EndSweep \/ Tick
      <3>1. /\ UNCHANGED <<done, total>>
            /\ phase' = phase \/ {phase, phase'} \subseteq {"fill", "sweep"}
        BY <2>4 DEF Spawn, BeginSweep, SeeAlive, MoveOn, EndSweep, Tick, books
      <3>2. QED
        BY <3>1 DEF Promise!vars, RunState
    <2>5. ASSUME NEW f \in Jobs, NEW ending \in Endings, Exit(f, ending)
          PROVE  UNCHANGED Promise!vars
      BY <2>5 DEF Exit, Promise!vars, RunState
    <2>6. CASE UNCHANGED vars
      BY <2>6 DEF vars, Promise!vars, RunState
    <2>7. QED
      BY <1>2, <2>1, <2>2, <2>3, <2>4, <2>5, <2>6 DEF Next, Parent
  <1>3. QED
    BY Inductive, <1>1, <1>2, PTL DEF KeepsPromise, Promise!Spec, Spec, Safety
=============================================================================
