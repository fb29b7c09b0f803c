------------------------------ MODULE ShardedRun ------------------------------
(***************************************************************************)
(* One run of the corpus over several machines: scripts/shard starts       *)
(* `slt --refresh --shard k/n --out` on each, waits for all of them,       *)
(* collects what they wrote onto the first and has `merge` fold it.        *)
(*                                                                         *)
(* What a machine says of its checkout is true or unknown, which is what   *)
(* Checkout is about, and each file of a slice has one result, which is    *)
(* what CorpusRun is about.  What the results are is left out: a run is    *)
(* counted by its files.                                                   *)
(***************************************************************************)
EXTENDS Naturals, Sequences, FiniteSets

CONSTANTS
  Machines, (* The hosts there are.                                        *)
  Scripts,  (* The calls of scripts/shard that are made.                   *)
  hosts,    (* The hosts each is given, in order.                          *)
  corpus,   (* The files of each commit of upstream, numbered by path.     *)
  Quiet,    (* Whether a call waits for the runs an earlier one left.      *)
  MaxCommit (* A bound on how far the branch moves.                        *)

Commits == 1..MaxCommit

Many(s) == Len(hosts[s])
Places(s) == 1..Many(s)

ASSUME ShardedAssumption ==
  /\ MaxCommit \in Nat \ {0}
  /\ corpus \in [Commits -> SUBSET Nat]
  /\ \A c \in Commits : IsFiniteSet(corpus[c])
  /\ hosts \in [Scripts -> Seq(Machines) \ {<<>>}]
  /\ \A s \in Scripts : \A j, k \in Places(s) : hosts[s][j] = hosts[s][k] => j = k
  /\ Quiet \in BOOLEAN

VARIABLES
  tip,      (* The commit upstream's branch is at.                         *)
  head,     (* The commit each machine's checkout is at, or 0.             *)
  out,      (* Each machine's target/shard.out.                            *)
  shards,   (* What is in each machine's target/shards, by number.         *)
  stage,    (* Where each script is.                                       *)
  place,    (* The host it has to do with next.                            *)
  job,      (* Where each of its runs is.                                  *)
  over,     (* The commit each of those listed its files at.               *)
  began,    (* History: where the branch was when the script began.        *)
  merged    (* What merge printed: nothing, or what it counted, over what. *)

vars == <<tip, head, out, shards, stage, place, job, over, began, merged>>

Files == UNION {corpus[c] : c \in Commits}

Outs == [over : Commits \cup {0}, files : SUBSET Files]

\* A file that is not there, and the files of a run that found no commit to name.
None == [over |-> 0, files |-> {}]

Nothing == [over |-> 0, count |-> [f \in Files |-> 0]]

Init ==
  /\ tip = 1
  /\ head = [m \in Machines |-> 0]
  /\ out = [m \in Machines |-> None]
  /\ shards = [m \in Machines |-> <<>>]
  /\ stage = [s \in Scripts |-> "new"]
  /\ place = [s \in Scripts |-> 1]
  /\ job = [s \in Scripts |-> [k \in Places(s) |-> "none"]]
  /\ over = [s \in Scripts |-> [k \in Places(s) |-> 0]]
  /\ began = [s \in Scripts |-> 0]
  /\ merged = [s \in Scripts |-> Nothing]

-----------------------------------------------------------------------------
(***************************************************************************)
(* Which files a shard takes, of the list sorted by path.                  *)
(***************************************************************************)
Position(c, f) == Cardinality({g \in corpus[c] : g < f})

Takes(k, n, index) == index % n = k - 1

Slice(c, k, n) == {f \in corpus[c] : Takes(k, n, Position(c, f))}

-----------------------------------------------------------------------------
(***************************************************************************)
(* A run on one machine.                                                   *)
(***************************************************************************)
Running == {"launched", "listed"}

\* Mutant: a checkout that is there is not fetched again.
FetchedOnce(m) == IF head[m] = 0 THEN tip ELSE head[m]

Fetched(m) == tip

List(s, k) ==
  LET m == hosts[s][k] IN
  /\ job[s][k] = "launched"
  /\ job' = [job EXCEPT ![s][k] = "listed"]
  /\ over' = [over EXCEPT ![s][k] = Fetched(m)]
  /\ head' = [head EXCEPT ![m] = Fetched(m)]
  /\ UNCHANGED <<tip, out, shards, stage, place, began, merged>>

\* The stamp is asked for when the run is over, of the checkout that is there then.
Write(s, k) ==
  LET m == hosts[s][k] IN
  /\ job[s][k] = "listed"
  /\ job' = [job EXCEPT ![s][k] = "ok"]
  /\ \E stamp \in {head[m], 0} :
       out' = [out EXCEPT ![m] =
                 [over |-> stamp, files |-> Slice(over[s][k], k, Many(s))]]
  /\ UNCHANGED <<tip, head, shards, stage, place, over, began, merged>>

\* A fetch, a run or a connection that breaks.
Fail(s, k) ==
  /\ job[s][k] \in Running
  /\ job' = [job EXCEPT ![s][k] = "failed"]
  /\ UNCHANGED <<tip, head, out, shards, stage, place, over, began, merged>>

-----------------------------------------------------------------------------
(***************************************************************************)
(* The script.  Whenever it stops, what it started goes on.                *)
(***************************************************************************)
Ended == {"new", "done", "failed", "refused"}

\* One call is made after another has ended.
Free ==
  /\ \A r \in Scripts : stage[r] \in Ended
  /\ Quiet => \A r \in Scripts : \A k \in Places(r) : job[r][k] \notin Running

Call(s) ==
  /\ stage[s] = "new"
  /\ Free
  /\ stage' = [stage EXCEPT ![s] = "launching"]
  /\ began' = [began EXCEPT ![s] = tip]
  /\ UNCHANGED <<tip, head, out, shards, place, job, over, merged>>

Launch(s) ==
  /\ stage[s] = "launching"
  /\ place[s] <= Many(s)
  /\ job' = [job EXCEPT ![s][place[s]] = "launched"]
  /\ place' = [place EXCEPT ![s] = @ + 1]
  /\ UNCHANGED <<tip, head, out, shards, stage, over, began, merged>>

\* Mutant: the last to be waited for is the only one whose failure is noticed.
WaitForLast(s) == job[s][Many(s)] = "ok"

AllOk(s) == \A k \in Places(s) : job[s][k] = "ok"

\* All are waited for, and what an earlier run collected is removed.
Wait(s) ==
  /\ stage[s] = "launching"
  /\ place[s] = Many(s) + 1
  /\ AllOk(s)
  /\ stage' = [stage EXCEPT ![s] = "collecting"]
  /\ shards' = [shards EXCEPT ![hosts[s][1]] = <<>>]
  /\ place' = [place EXCEPT ![s] = 1]
  /\ UNCHANGED <<tip, head, out, job, over, began, merged>>

\* A copy into a directory.
Put(dir, k, copy) ==
  [j \in DOMAIN dir \cup {k} |-> IF j = k THEN copy ELSE dir[j]]

Collect(s) ==
  /\ stage[s] = "collecting"
  /\ place[s] <= Many(s)
  /\ shards' = [shards EXCEPT ![hosts[s][1]] = Put(@, place[s], out[hosts[s][place[s]]])]
  /\ place' = [place EXCEPT ![s] = @ + 1]
  /\ UNCHANGED <<tip, head, out, stage, job, over, began, merged>>

\* A copy that fails, or a run that has.
GiveUp(s) ==
  /\ \/ stage[s] = "launching" /\ place[s] <= Many(s)
     \/ stage[s] = "launching" /\ \E k \in Places(s) :
          job[s][k] = "failed" /\ \A j \in 1..k-1 : job[s][j] = "ok"
     \/ stage[s] = "collecting" /\ place[s] <= Many(s)
  /\ stage' = [stage EXCEPT ![s] = "failed"]
  /\ UNCHANGED <<tip, head, out, shards, place, job, over, began, merged>>

\* One total over shards that name one commit: the shard each says it is, is not
\* asked for.
Folded(read) ==
  [over |-> read[1].over,
   count |-> [f \in Files |-> Cardinality({k \in DOMAIN read : f \in read[k].files})]]

Foldable(read) ==
  /\ 1 \in DOMAIN read
  /\ \A k \in DOMAIN read : read[k].over # 0
  /\ \A j, k \in DOMAIN read : read[j].over = read[k].over

Merge(s) ==
  LET read == shards[hosts[s][1]] IN
  /\ stage[s] = "collecting"
  /\ place[s] = Many(s) + 1
  /\ IF Foldable(read)
     THEN /\ stage' = [stage EXCEPT ![s] = "done"]
          /\ merged' = [merged EXCEPT ![s] = Folded(read)]
     ELSE /\ stage' = [stage EXCEPT ![s] = "refused"]
          /\ UNCHANGED merged
  /\ UNCHANGED <<tip, head, out, shards, place, job, over, began>>

MoveBranch ==
  /\ tip < MaxCommit
  /\ tip' = tip + 1
  /\ UNCHANGED <<head, out, shards, stage, place, job, over, began, merged>>

Next ==
  \/ \E s \in Scripts : \E k \in Places(s) : List(s, k) \/ Write(s, k) \/ Fail(s, k)
  \/ \E s \in Scripts :
       Call(s) \/ Launch(s) \/ Wait(s) \/ Collect(s) \/ GiveUp(s) \/ Merge(s)
  \/ MoveBranch

Spec == Init /\ [][Next]_vars

-----------------------------------------------------------------------------
(***************************************************************************)
(* Properties.                                                             *)
(***************************************************************************)

\* Every variable has its type.
TypeOK ==
  /\ tip \in Commits
  /\ head \in [Machines -> Commits \cup {0}]
  /\ out \in [Machines -> Outs]
  /\ \A m \in Machines : \A k \in DOMAIN shards[m] : shards[m][k] \in Outs
  /\ stage \in [Scripts -> Ended \cup {"launching", "collecting"}]
  /\ \A s \in Scripts :
       /\ place[s] \in 1..Many(s) + 1
       /\ job[s] \in [Places(s) -> Running \cup {"none", "ok", "failed"}]
       /\ over[s] \in [Places(s) -> Commits \cup {0}]
  /\ began \in [Scripts -> Commits \cup {0}]
  /\ merged \in [Scripts -> [over : Commits \cup {0}, count : [Files -> Nat]]]

\* What merge prints is what a whole run over that commit would have: every file
\* of the corpus, once.
MergedIsWhole ==
  \A s \in Scripts : stage[s] = "done" =>
    \A f \in Files : merged[s].count[f] = IF f \in corpus[merged[s].over] THEN 1 ELSE 0

\* A script whose machines all did their part is refused its total only when the
\* branch moved under it or a machine could not name its corpus.
RefusedForAReason ==
  [][\A s \in Scripts : stage[s] # "refused" /\ stage'[s] = "refused" =>
       \/ tip # began[s]
       \/ \E k \in Places(s) : out[hosts[s][k]].over = 0]_vars
=============================================================================
