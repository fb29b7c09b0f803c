--------------------------- MODULE ShardedRun_proofs ---------------------------
(***************************************************************************)
(* What merge prints is whole, for any machines, calls and corpora, as     *)
(* long as a call is made only when the runs of the ones before it have    *)
(* ended (Quiet).  Then one call at a time touches the machines, and what  *)
(* it collects is what its own runs wrote.                                 *)
(***************************************************************************)
EXTENDS ShardedRun, FiniteSetTheorems, TLAPS

\* Domains that TypeOK does not need to speak of.
Shape ==
  /\ place \in [Scripts -> Nat]
  /\ DOMAIN job = Scripts
  /\ DOMAIN over = Scripts
  /\ DOMAIN shards = Machines
  /\ \A m \in Machines : IsFiniteSet(DOMAIN shards[m])
  /\ \A s \in Scripts : \A k \in Places(s) : job[s][k] = "listed" => over[s][k] \in Commits

TypeInv == TypeOK /\ Shape

Active(s) == stage[s] \notin Ended
Goes(s, k) == job[s][k] \in Running

\* Nothing of a call that was not made has been started.
NewIsIdle ==
  \A s \in Scripts : stage[s] = "new" => \A k \in Places(s) : job[s][k] = "none"

\* One call is made at a time, and what runs is a part of one call: the one
\* that is made, if any is.
OneAtATime ==
  /\ \A r, s \in Scripts : Active(r) /\ Active(s) => r = s
  /\ \A r, s \in Scripts : \A j \in Places(r) : Active(s) /\ Goes(r, j) => r = s
  /\ \A r, s \in Scripts : \A j \in Places(r), k \in Places(s) :
       Goes(r, j) /\ Goes(s, k) => r = s

\* A checkout stays where the run that listed it left it.
ListedAtHead ==
  \A s \in Scripts : \A k \in Places(s) :
    job[s][k] = "listed" => over[s][k] = head[hosts[s][k]]

\* It was listed since the call was made.
ListedSince ==
  \A s \in Scripts :
    Active(s) =>
      /\ began[s] \in Commits /\ began[s] <= tip
      /\ \A k \in Places(s) :
           job[s][k] \in {"listed", "ok"} => over[s][k] \in began[s]..tip

\* What the runs of the call wrote is still there.
OutIsItsSlice ==
  \A s \in Scripts : \A k \in Places(s) :
    Active(s) /\ job[s][k] = "ok" =>
      /\ out[hosts[s][k]].over \in {over[s][k], 0}
      /\ out[hosts[s][k]].files = Slice(over[s][k], k, Many(s))

\* And what was copied is that.
CollectedIsOut ==
  \A s \in Scripts :
    stage[s] = "collecting" =>
      /\ AllOk(s)
      /\ DOMAIN shards[hosts[s][1]] = 1 .. place[s] - 1
      /\ \A k \in 1 .. place[s] - 1 : shards[hosts[s][1]][k] = out[hosts[s][k]]

IInv ==
  /\ TypeInv
  /\ NewIsIdle
  /\ OneAtATime
  /\ ListedAtHead
  /\ ListedSince
  /\ OutIsItsSlice
  /\ CollectedIsOut
  /\ MergedIsWhole

-----------------------------------------------------------------------------
(***************************************************************************)
(* The constants.                                                          *)
(***************************************************************************)
LEMMA HostFacts ==
  ASSUME NEW s \in Scripts
  PROVE  /\ Many(s) \in Nat \ {0}
         /\ Places(s) = 1..Many(s)
         /\ 1 \in Places(s)
         /\ \A k \in Places(s) : hosts[s][k] \in Machines
         /\ \A j, k \in Places(s) : hosts[s][j] = hosts[s][k] => j = k
<1>1. hosts[s] \in Seq(Machines) /\ hosts[s] # <<>>
  BY ShardedAssumption DEF ShardedAssumption
<1>2. Many(s) \in Nat \ {0}
  BY <1>1 DEF Many
<1>3. \A k \in Places(s) : hosts[s][k] \in Machines
  BY <1>1 DEF Places, Many
<1>4. \A j, k \in Places(s) : hosts[s][j] = hosts[s][k] => j = k
  BY ShardedAssumption DEF ShardedAssumption
<1> QED BY <1>2, <1>3, <1>4 DEF Places

LEMMA CorpusFacts ==
  /\ 1 \in Commits
  /\ \A c \in Commits : corpus[c] \subseteq Files /\ corpus[c] \subseteq Nat /\ IsFiniteSet(corpus[c])
  BY ShardedAssumption DEF ShardedAssumption, Commits, Files

LEMMA SliceIsFiles ==
  ASSUME NEW c \in Commits, NEW k, NEW n
  PROVE  Slice(c, k, n) \subseteq Files
  BY CorpusFacts DEF Slice

\* Round robin: every file of the list is in the slice of exactly one place.
LEMMA OneSliceEach ==
  ASSUME NEW c \in Commits, NEW n \in Nat \ {0}, NEW f
  PROVE  LET takers == {k \in 1..n : f \in Slice(c, k, n)} IN
         /\ f \in corpus[c] => \E k \in 1..n : takers = {k}
         /\ f \notin corpus[c] => takers = {}
<1> DEFINE takers == {k \in 1..n : f \in Slice(c, k, n)}
<1>1. ASSUME f \in corpus[c] PROVE \E k \in 1..n : takers = {k}
  <2> DEFINE index == Position(c, f)
  <2>1. index \in Nat
    <3>1. IsFiniteSet({g \in corpus[c] : g < f})
      BY CorpusFacts, FS_Subset
    <3> QED BY <3>1, FS_CardinalityType DEF Position
  <2> HIDE DEF index
  <2>2. index % n \in 0 .. n - 1
    BY <2>1
  <2>3. \A k \in 1..n : k \in takers <=> (index % n) = k - 1
    BY <1>1 DEF Slice, Takes, index
  <2>4. takers = {(index % n) + 1}
    <3>1. (index % n) + 1 \in 1..n
      BY <2>2
    <3>2. \A k : k \in takers <=> k = (index % n) + 1
      BY <2>2, <2>3, <3>1
    <3> QED BY <3>2
  <2> QED BY <2>2, <2>4
<1>2. ASSUME f \notin corpus[c] PROVE takers = {}
  BY <1>2 DEF Slice
<1> QED BY <1>1, <1>2

LEMMA OutFacts ==
  /\ None \in Outs
  /\ \A c \in Commits \cup {0}, fs \in SUBSET Files :
       [over |-> c, files |-> fs] \in Outs
  /\ \A o \in Outs : o.over \in Commits \cup {0} /\ o.files \subseteq Files
BY DEF None, Outs

-----------------------------------------------------------------------------
(***************************************************************************)
(* Types.                                                                  *)
(***************************************************************************)
LEMMA InitTypes == Init => TypeInv
<1> SUFFICES ASSUME Init PROVE TypeInv
  OBVIOUS
<1> USE DEF Init
<1>1. tip \in Commits /\ head \in [Machines -> Commits \cup {0}]
  BY CorpusFacts
<1>2. out \in [Machines -> Outs]
  BY OutFacts
<1>3. \A m \in Machines : shards[m] = <<>> /\ DOMAIN shards[m] = {}
  OBVIOUS
<1>4. stage \in [Scripts -> Ended \cup {"launching", "collecting"}]
  BY DEF Ended
<1>5. ASSUME NEW s \in Scripts
      PROVE  /\ place[s] \in 1..Many(s) + 1
             /\ job[s] \in [Places(s) -> Running \cup {"none", "ok", "failed"}]
             /\ over[s] \in [Places(s) -> Commits \cup {0}]
  BY HostFacts
<1>6. merged \in [Scripts -> [over : Commits \cup {0}, count : [Files -> Nat]]]
  BY DEF Nothing
<1>7. TypeOK
  BY <1>1, <1>2, <1>3, <1>4, <1>5, <1>6 DEF TypeOK
<1>8. Shape
  BY <1>3, FS_EmptySet DEF Shape
<1> QED BY <1>7, <1>8 DEF TypeInv

\* An assignment to one run of one call.
LEMMA OneRun ==
  ASSUME NEW old, DOMAIN old = Scripts, NEW T,
         \A r \in Scripts : old[r] \in [Places(r) -> T],
         NEW s \in Scripts, NEW k \in Places(s), NEW v \in T
  PROVE  LET new == [old EXCEPT ![s][k] = v] IN
         /\ DOMAIN new = Scripts
         /\ \A r \in Scripts : new[r] \in [Places(r) -> T]
         /\ \A r \in Scripts : \A j \in Places(r) :
              new[r][j] = IF r = s /\ j = k THEN v ELSE old[r][j]
OBVIOUS

LEMMA FoldedType ==
  ASSUME NEW read, IsFiniteSet(DOMAIN read), 1 \in DOMAIN read,
         \A k \in DOMAIN read : read[k] \in Outs
  PROVE  Folded(read) \in [over : Commits \cup {0}, count : [Files -> Nat]]
<1>1. \A f \in Files : Cardinality({k \in DOMAIN read : f \in read[k].files}) \in Nat
  BY FS_Subset, FS_CardinalityType
<1>2. read[1].over \in Commits \cup {0}
  BY OutFacts
<1> QED BY <1>1, <1>2 DEF Folded

LEMMA StepTypes == TypeInv /\ [Next]_vars => TypeInv'
<1> SUFFICES ASSUME TypeInv, [Next]_vars PROVE TypeInv'
  OBVIOUS
<1> USE DEF TypeInv
<1>1. /\ \A m \in Machines : head[m] \in Commits \cup {0} /\ out[m] \in Outs
      /\ \A s \in Scripts : over[s] \in [Places(s) -> Commits \cup {0}]
      /\ \A s \in Scripts : job[s] \in [Places(s) -> Running \cup {"none", "ok", "failed"}]
  BY DEF TypeOK
<1>2. ASSUME NEW s \in Scripts, NEW k \in Places(s), List(s, k) PROVE TypeInv'
  <2>1. hosts[s][k] \in Machines
    BY HostFacts
  <2>2. /\ DOMAIN job' = Scripts
        /\ \A r \in Scripts : job'[r] \in [Places(r) -> Running \cup {"none", "ok", "failed"}]
        /\ \A r \in Scripts : \A j \in Places(r) :
             job'[r][j] = IF r = s /\ j = k THEN "listed" ELSE job[r][j]
    BY <1>1, <1>2, OneRun DEF List, Shape, Running
  <2>3. /\ DOMAIN over' = Scripts
        /\ \A r \in Scripts : over'[r] \in [Places(r) -> Commits \cup {0}]
        /\ \A r \in Scripts : \A j \in Places(r) :
             over'[r][j] = IF r = s /\ j = k THEN tip ELSE over[r][j]
    <3>1. over' = [over EXCEPT ![s][k] = tip] /\ tip \in Commits \cup {0}
      BY <1>2 DEF List, Fetched, TypeOK
    <3> QED BY <3>1, <1>1, OneRun DEF Shape
  <2>4. head' \in [Machines -> Commits \cup {0}]
    BY <1>2, <2>1 DEF List, Fetched, TypeOK
  <2> QED BY <1>2, <2>2, <2>3, <2>4 DEF List, TypeOK, Shape
<1>3. ASSUME NEW s \in Scripts, NEW k \in Places(s), Write(s, k) PROVE TypeInv'
  <2>1. hosts[s][k] \in Machines
    BY HostFacts
  <2>2. /\ DOMAIN job' = Scripts
        /\ \A r \in Scripts : job'[r] \in [Places(r) -> Running \cup {"none", "ok", "failed"}]
        /\ \A r \in Scripts : \A j \in Places(r) :
             job'[r][j] = IF r = s /\ j = k THEN "ok" ELSE job[r][j]
    BY <1>1, <1>3, OneRun DEF Write, Shape
  <2>3. out' \in [Machines -> Outs]
    <3>1. PICK stamp \in {head[hosts[s][k]], 0} :
            out' = [out EXCEPT ![hosts[s][k]] =
                      [over |-> stamp, files |-> Slice(over[s][k], k, Many(s))]]
      BY <1>3 DEF Write
    <3>2. stamp \in Commits \cup {0} /\ over[s][k] \in Commits
      BY <1>1, <1>3, <2>1 DEF Write, Shape
    <3>3. Slice(over[s][k], k, Many(s)) \subseteq Files
      BY <3>2, SliceIsFiles
    <3> QED BY <3>1, <3>2, <3>3, <2>1, OutFacts DEF TypeOK
  <2> QED BY <1>3, <2>2, <2>3 DEF Write, TypeOK, Shape
<1>4. ASSUME NEW s \in Scripts, NEW k \in Places(s), Fail(s, k) PROVE TypeInv'
  <2>1. /\ DOMAIN job' = Scripts
        /\ \A r \in Scripts : job'[r] \in [Places(r) -> Running \cup {"none", "ok", "failed"}]
        /\ \A r \in Scripts : \A j \in Places(r) :
             job'[r][j] = IF r = s /\ j = k THEN "failed" ELSE job[r][j]
    BY <1>1, <1>4, OneRun DEF Fail, Shape
  <2> QED BY <1>4, <2>1 DEF Fail, TypeOK, Shape
<1>5. ASSUME NEW s \in Scripts, Call(s) PROVE TypeInv'
  BY <1>5 DEF Call, TypeOK, Shape, Ended
<1>6. ASSUME NEW s \in Scripts, Launch(s) PROVE TypeInv'
  <2>1. place[s] \in Places(s) /\ place[s] + 1 \in 1 .. Many(s) + 1
    BY <1>6, HostFacts DEF Launch, TypeOK
  <2>2. /\ DOMAIN job' = Scripts
        /\ \A r \in Scripts : job'[r] \in [Places(r) -> Running \cup {"none", "ok", "failed"}]
        /\ \A r \in Scripts : \A j \in Places(r) :
             job'[r][j] = IF r = s /\ j = place[s] THEN "launched" ELSE job[r][j]
    BY <1>1, <1>6, <2>1, OneRun DEF Launch, Shape, Running
  <2> QED BY <1>6, <2>1, <2>2 DEF Launch, TypeOK, Shape
<1>7. ASSUME NEW s \in Scripts, Wait(s) PROVE TypeInv'
  <2>1. hosts[s][1] \in Machines /\ 1 \in 1 .. Many(s) + 1
    BY HostFacts
  <2>2. \A m \in Machines :
          shards'[m] = IF m = hosts[s][1] THEN <<>> ELSE shards[m]
    BY <1>7, <2>1 DEF Wait, Shape
  <2>3. \A m \in Machines :
          /\ IsFiniteSet(DOMAIN shards'[m])
          /\ \A k \in DOMAIN shards'[m] : shards'[m][k] \in Outs
    BY <2>2, FS_EmptySet DEF TypeOK, Shape
  <2> QED BY <1>7, <2>1, <2>3 DEF Wait, TypeOK, Shape, Ended
<1>8. ASSUME NEW s \in Scripts, Collect(s) PROVE TypeInv'
  <2>1. /\ hosts[s][1] \in Machines /\ place[s] \in Places(s)
        /\ hosts[s][place[s]] \in Machines /\ place[s] + 1 \in 1 .. Many(s) + 1
    BY <1>8, HostFacts DEF Collect, TypeOK
  <2> DEFINE copy == out[hosts[s][place[s]]]
  <2>2. \A m \in Machines :
          shards'[m] = IF m = hosts[s][1] THEN Put(shards[m], place[s], copy) ELSE shards[m]
    BY <1>8, <2>1 DEF Collect, Shape
  <2>3. copy \in Outs
    BY <1>1, <2>1
  <2>4. ASSUME NEW m \in Machines
        PROVE  LET dir == Put(shards[m], place[s], copy) IN
               IsFiniteSet(DOMAIN dir) /\ \A k \in DOMAIN dir : dir[k] \in Outs
    <3>1. DOMAIN Put(shards[m], place[s], copy) = DOMAIN shards[m] \cup {place[s]}
      BY DEF Put
    <3>2. IsFiniteSet(DOMAIN shards[m] \cup {place[s]})
      BY FS_AddElement DEF Shape
    <3> QED BY <3>1, <3>2, <2>3 DEF Put, TypeOK
  <2>5. \A m \in Machines :
          /\ IsFiniteSet(DOMAIN shards'[m])
          /\ \A k \in DOMAIN shards'[m] : shards'[m][k] \in Outs
    BY <2>2, <2>4 DEF TypeOK, Shape
  <2>6. DOMAIN shards' = Machines
    BY <1>8 DEF Collect, Shape
  <2> QED BY <1>8, <2>1, <2>5, <2>6 DEF Collect, TypeOK, Shape
<1>9. ASSUME NEW s \in Scripts, GiveUp(s) PROVE TypeInv'
  BY <1>9 DEF GiveUp, TypeOK, Shape, Ended
<1>10. ASSUME NEW s \in Scripts, Merge(s) PROVE TypeInv'
  <2> DEFINE read == shards[hosts[s][1]]
  <2>1. hosts[s][1] \in Machines
    BY HostFacts
  <2>2. Foldable(read) => Folded(read) \in [over : Commits \cup {0}, count : [Files -> Nat]]
    BY <2>1, FoldedType DEF Foldable, TypeOK, Shape
  <2>3. merged' \in [Scripts -> [over : Commits \cup {0}, count : [Files -> Nat]]]
    BY <1>10, <2>2 DEF Merge, TypeOK
  <2>4. stage' \in [Scripts -> Ended \cup {"launching", "collecting"}]
    BY <1>10, ZenonT(60) DEF Merge, TypeOK, Ended
  <2> QED BY <1>10, <2>3, <2>4 DEF Merge, TypeOK, Shape
<1>11. ASSUME MoveBranch PROVE TypeInv'
  BY <1>11, ShardedAssumption DEF MoveBranch, TypeOK, Shape, Commits, ShardedAssumption
<1>12. ASSUME UNCHANGED vars PROVE TypeInv'
  BY <1>12 DEF vars, TypeOK, Shape
<1> QED
  BY <1>2, <1>3, <1>4, <1>5, <1>6, <1>7, <1>8, <1>9, <1>10, <1>11, <1>12 DEF Next

\* The variables of a run over several machines have their types.
THEOREM ShardedTypes == Spec => []TypeOK
<1>1. TypeInv => TypeOK
  BY DEF TypeInv
<1> QED BY InitTypes, StepTypes, <1>1, PTL DEF Spec

-----------------------------------------------------------------------------
(***************************************************************************)
(* The invariant, and what it gives.                                       *)
(***************************************************************************)
LEMMA InitIsInvariant == Init => IInv
<1> SUFFICES ASSUME Init PROVE IInv
  OBVIOUS
<1>1. TypeInv
  BY InitTypes
<1>2. \A s \in Scripts :
        stage[s] = "new" /\ ~Active(s) /\ \A k \in Places(s) : job[s][k] = "none"
  BY DEF Init, Active, Ended
<1>3. NewIsIdle /\ OneAtATime
  BY <1>2 DEF NewIsIdle, OneAtATime, Goes, Running
<1>4. ListedAtHead /\ ListedSince /\ OutIsItsSlice /\ CollectedIsOut /\ MergedIsWhole
  BY <1>2 DEF ListedAtHead, ListedSince, OutIsItsSlice, CollectedIsOut, MergedIsWhole
<1> QED BY <1>1, <1>3, <1>4 DEF IInv

LEMMA RunMoves ==
  ASSUME TypeInv, NEW s \in Scripts, NEW k \in Places(s),
         NEW v \in Running \cup {"none", "ok", "failed"}
  PROVE  LET new == [job EXCEPT ![s][k] = v] IN
         \A r \in Scripts : \A j \in Places(r) :
           new[r][j] = IF r = s /\ j = k THEN v ELSE job[r][j]
BY OneRun DEF TypeInv, TypeOK, Shape

\* While a call collects, none of what it started goes on.
LEMMA StillWhileCollecting ==
  ASSUME IInv, NEW s \in Scripts, stage[s] = "collecting",
         NEW r \in Scripts, NEW j \in Places(r)
  PROVE  ~Goes(r, j)
<1>1. Active(s) /\ AllOk(s)
  BY DEF IInv, CollectedIsOut, Active, Ended
<1> QED BY <1>1 DEF IInv, OneAtATime, AllOk, Goes, Running

\* Once everything is collected, the shards of the call are what its runs wrote.
LEMMA AllCollected ==
  ASSUME IInv, NEW s \in Scripts, stage[s] = "collecting", place[s] = Many(s) + 1
  PROVE  LET read == shards[hosts[s][1]] IN
         /\ DOMAIN read = Places(s)
         /\ \A k \in Places(s) :
              /\ read[k] = out[hosts[s][k]]
              /\ read[k].over \in {over[s][k], 0}
              /\ read[k].files = Slice(over[s][k], k, Many(s))
              /\ over[s][k] \in began[s]..tip /\ over[s][k] \in Commits
<1> DEFINE read == shards[hosts[s][1]]
<1>1. Many(s) \in Nat \ {0} /\ Places(s) = 1 .. place[s] - 1
  BY HostFacts
<1>2. /\ AllOk(s)
      /\ DOMAIN read = Places(s)
      /\ \A k \in Places(s) : read[k] = out[hosts[s][k]]
  BY <1>1 DEF IInv, CollectedIsOut
<1>3. Active(s) /\ \A k \in Places(s) : job[s][k] = "ok"
  BY <1>2 DEF Active, Ended, AllOk
<1>4. \A k \in Places(s) : over[s][k] \in began[s]..tip /\ over[s][k] \in Commits
  <2>1. began[s] \in Commits /\ tip \in Commits
    BY <1>3 DEF IInv, ListedSince, TypeInv, TypeOK
  <2>2. \A k \in Places(s) : over[s][k] \in began[s]..tip
    BY <1>3 DEF IInv, ListedSince
  <2> QED BY <2>1, <2>2, ShardedAssumption DEF Commits, ShardedAssumption
<1> QED BY <1>2, <1>3, <1>4 DEF IInv, OutIsItsSlice

\* What merge folds is one slice of each place, of one list.
LEMMA FoldedIsWhole ==
  ASSUME IInv, NEW s \in Scripts, stage[s] = "collecting", place[s] = Many(s) + 1,
         Foldable(shards[hosts[s][1]])
  PROVE  LET total == Folded(shards[hosts[s][1]]) IN
         \A f \in Files : total.count[f] = IF f \in corpus[total.over] THEN 1 ELSE 0
<1> DEFINE read == shards[hosts[s][1]]
           c == read[1].over
<1>1. Many(s) \in Nat \ {0} /\ Places(s) = 1..Many(s) /\ 1 \in Places(s)
  BY HostFacts
<1>2. DOMAIN read = Places(s)
  BY AllCollected
<1>3. /\ c \in Commits
      /\ \A k \in Places(s) : read[k].files = Slice(c, k, Many(s))
  <2>1. \A k \in Places(s) : read[k].over = c /\ c # 0
    BY <1>1, <1>2 DEF Foldable
  <2>2. \A k \in Places(s) :
          /\ read[k].over \in {over[s][k], 0}
          /\ read[k].files = Slice(over[s][k], k, Many(s))
          /\ over[s][k] \in Commits
    BY AllCollected
  <2> QED BY <1>1, <2>1, <2>2
<1>4. ASSUME NEW f \in Files
      PROVE  Folded(read).count[f] = IF f \in corpus[c] THEN 1 ELSE 0
  <2> DEFINE takers == {k \in 1..Many(s) : f \in Slice(c, k, Many(s))}
  <2>1. {k \in DOMAIN read : f \in read[k].files} = takers
    BY <1>1, <1>2, <1>3
  <2>2. Folded(read).count[f] = Cardinality(takers)
    BY <2>1 DEF Folded
  <2>3. CASE f \in corpus[c]
    <3>1. PICK k \in 1..Many(s) : takers = {k}
      BY <1>1, <1>3, <2>3, OneSliceEach
    <3> QED BY <2>2, <2>3, <3>1, FS_Singleton
  <2>4. CASE f \notin corpus[c]
    <3>1. takers = {}
      BY <1>1, <1>3, <2>4, OneSliceEach
    <3> QED BY <2>2, <2>4, <3>1, FS_EmptySet
  <2> QED BY <2>3, <2>4
<1>5. Folded(read).over = c
  BY DEF Folded
<1> QED BY <1>4, <1>5

-----------------------------------------------------------------------------
(***************************************************************************)
(* Every step keeps it.                                                    *)
(***************************************************************************)
LEMMA ListKeeps ==
  ASSUME IInv, NEW s \in Scripts, NEW k \in Places(s), List(s, k), TypeInv'
  PROVE  IInv'
<1> USE DEF IInv
<1>1. /\ hosts[s][k] \in Machines
      /\ Goes(s, k)
      /\ \A r \in Scripts : stage[r] # "collecting"
  BY HostFacts, StillWhileCollecting DEF List, Goes, Running
<1>2. \A r \in Scripts : \A j \in Places(r) :
        /\ job'[r][j] = IF r = s /\ j = k THEN "listed" ELSE job[r][j]
        /\ over'[r][j] = IF r = s /\ j = k THEN tip ELSE over[r][j]
  <2>1. job' = [job EXCEPT ![s][k] = "listed"] /\ over' = [over EXCEPT ![s][k] = tip]
    BY DEF List, Fetched
  <2>2. "listed" \in Running \cup {"none", "ok", "failed"} /\ tip \in Commits \cup {0}
    BY DEF Running, TypeInv, TypeOK
  <2>3. \A r \in Scripts : \A j \in Places(r) :
          over'[r][j] = IF r = s /\ j = k THEN tip ELSE over[r][j]
    BY <2>1, <2>2, OneRun DEF TypeInv, TypeOK, Shape
  <2> QED BY <2>1, <2>2, <2>3, RunMoves
<1>3. \A m \in Machines : head'[m] = IF m = hosts[s][k] THEN tip ELSE head[m]
  BY <1>1 DEF List, Fetched, TypeInv, TypeOK
<1>4. UNCHANGED <<tip, out, shards, stage, place, began, merged>>
  BY DEF List
<1>5. job[s][k] = "launched"
  BY DEF List
<1>6. \A r \in Scripts : \A j \in Places(r) : Goes(r, j)' <=> Goes(r, j)
  BY <1>2, <1>5 DEF Goes, Running
<1>7. NewIsIdle'
  BY <1>2, <1>4, <1>5 DEF NewIsIdle
<1>8. OneAtATime'
  BY <1>4, <1>6 DEF OneAtATime, Active
<1>9. ListedAtHead'
  <2> SUFFICES ASSUME NEW r \in Scripts, NEW j \in Places(r), job'[r][j] = "listed"
               PROVE  over'[r][j] = head'[hosts[r][j]]
    BY DEF ListedAtHead
  <2>1. CASE r = s /\ j = k
    BY <1>1, <1>2, <1>3, <2>1
  <2>2. CASE ~(r = s /\ j = k)
    <3>1. job[r][j] = "listed" /\ Goes(r, j)
      BY <1>2, <2>2 DEF Goes, Running
    <3>2. r = s
      BY <1>1, <3>1 DEF OneAtATime
    <3>3. hosts[r][j] # hosts[s][k] /\ hosts[r][j] \in Machines
      BY <2>2, <3>2, HostFacts
    <3> QED BY <1>2, <1>3, <2>2, <3>1, <3>3 DEF ListedAtHead
  <2> QED BY <2>1, <2>2
<1>10. ListedSince'
  BY <1>2, <1>4, SMTT(30) DEF ListedSince, Active, TypeInv, TypeOK, Commits
<1>11. OutIsItsSlice'
  BY <1>2, <1>4 DEF OutIsItsSlice, Active
<1>12. CollectedIsOut' /\ MergedIsWhole'
  BY <1>1, <1>4 DEF CollectedIsOut, MergedIsWhole
<1> QED BY <1>7, <1>8, <1>9, <1>10, <1>11, <1>12

LEMMA WriteKeeps ==
  ASSUME IInv, NEW s \in Scripts, NEW k \in Places(s), Write(s, k), TypeInv'
  PROVE  IInv'
<1> USE DEF IInv
<1>1. /\ hosts[s][k] \in Machines
      /\ Goes(s, k)
      /\ \A r \in Scripts : stage[r] # "collecting"
  BY HostFacts, StillWhileCollecting DEF Write, Goes, Running
<1>2. \A r \in Scripts : \A j \in Places(r) :
        job'[r][j] = IF r = s /\ j = k THEN "ok" ELSE job[r][j]
  BY RunMoves DEF Write, Running
<1>3. UNCHANGED <<tip, head, shards, stage, place, over, began, merged>>
  BY DEF Write
<1>4. /\ out'[hosts[s][k]].over \in {over[s][k], 0}
      /\ out'[hosts[s][k]].files = Slice(over[s][k], k, Many(s))
      /\ \A m \in Machines : m # hosts[s][k] => out'[m] = out[m]
  <2>1. over[s][k] = head[hosts[s][k]]
    BY DEF Write, ListedAtHead
  <2> QED BY <1>1, <2>1 DEF Write, TypeInv, TypeOK
<1>5. job[s][k] = "listed"
  BY DEF Write
<1>6. \A r \in Scripts : \A j \in Places(r) : Goes(r, j)' => Goes(r, j)
  BY <1>2 DEF Goes, Running
<1>7. NewIsIdle'
  BY <1>2, <1>3, <1>5 DEF NewIsIdle
<1>8. OneAtATime'
  BY <1>3, <1>6 DEF OneAtATime, Active
<1>9. ListedAtHead'
  BY <1>2, <1>3 DEF ListedAtHead
<1>10. ListedSince'
  BY <1>2, <1>3, <1>5 DEF ListedSince, Active
<1>11. OutIsItsSlice'
  <2> SUFFICES ASSUME NEW r \in Scripts, NEW j \in Places(r), Active(r), job'[r][j] = "ok"
               PROVE  /\ out'[hosts[r][j]].over \in {over[r][j], 0}
                      /\ out'[hosts[r][j]].files = Slice(over[r][j], j, Many(r))
    BY <1>3 DEF OutIsItsSlice, Active
  <2>1. r = s
    BY <1>1 DEF OneAtATime
  <2>2. CASE j = k
    BY <1>4, <2>1, <2>2
  <2>3. CASE j # k
    <3>1. hosts[r][j] # hosts[s][k] /\ hosts[r][j] \in Machines
      BY <2>1, <2>3, HostFacts
    <3> QED BY <1>2, <1>4, <2>1, <2>3, <3>1 DEF OutIsItsSlice
  <2> QED BY <2>2, <2>3
<1>12. CollectedIsOut' /\ MergedIsWhole'
  BY <1>1, <1>3 DEF CollectedIsOut, MergedIsWhole
<1> QED BY <1>7, <1>8, <1>9, <1>10, <1>11, <1>12

LEMMA FailKeeps ==
  ASSUME IInv, NEW s \in Scripts, NEW k \in Places(s), Fail(s, k), TypeInv'
  PROVE  IInv'
<1> USE DEF IInv
<1>1. \A r \in Scripts : stage[r] # "collecting"
  BY StillWhileCollecting DEF Fail, Goes
<1>2. \A r \in Scripts : \A j \in Places(r) :
        job'[r][j] = IF r = s /\ j = k THEN "failed" ELSE job[r][j]
  BY RunMoves DEF Fail, Running
<1>3. UNCHANGED <<tip, head, out, shards, stage, place, over, began, merged>>
  BY DEF Fail
<1>4. job[s][k] # "none"
  BY DEF Fail, Running
<1>5. NewIsIdle'
  BY <1>2, <1>3, <1>4 DEF NewIsIdle
<1>6. OneAtATime'
  <2>1. \A r \in Scripts : \A j \in Places(r) : Goes(r, j)' => Goes(r, j)
    BY <1>2 DEF Goes, Running
  <2> QED BY <1>3, <2>1 DEF OneAtATime, Active
<1>7. ListedAtHead' /\ ListedSince' /\ OutIsItsSlice'
  BY <1>2, <1>3 DEF ListedAtHead, ListedSince, OutIsItsSlice, Active
<1>8. CollectedIsOut' /\ MergedIsWhole'
  BY <1>1, <1>3 DEF CollectedIsOut, MergedIsWhole
<1> QED BY <1>5, <1>6, <1>7, <1>8

\* Here is what Quiet is for: nothing runs when a call is made.
LEMMA CallKeeps ==
  ASSUME Quiet, IInv, NEW s \in Scripts, Call(s), TypeInv'
  PROVE  IInv'
<1> USE DEF IInv
<1>1. UNCHANGED <<tip, head, out, shards, place, job, over, merged>>
  BY DEF Call
<1>2. /\ \A r \in Scripts : stage[r] \in Ended /\ \A j \in Places(r) : ~Goes(r, j)
      /\ \A j \in Places(s) : job[s][j] = "none"
  BY DEF Call, Free, Goes, NewIsIdle
<1>3. /\ \A r \in Scripts : stage'[r] = IF r = s THEN "launching" ELSE stage[r]
      /\ began'[s] = tip
  BY DEF Call, TypeInv, TypeOK
<1>4. \A r \in Scripts : Active(r)' <=> r = s
  BY <1>2, <1>3 DEF Active, Ended
<1>5. NewIsIdle'
  BY <1>1, <1>3 DEF NewIsIdle
<1>6. OneAtATime'
  BY <1>1, <1>2, <1>4 DEF OneAtATime, Goes
<1>7. ListedAtHead'
  BY <1>1 DEF ListedAtHead
<1>8. ListedSince'
  BY <1>1, <1>2, <1>3, <1>4 DEF ListedSince, TypeInv, TypeOK, Commits
<1>9. OutIsItsSlice'
  BY <1>1, <1>2, <1>4 DEF OutIsItsSlice
<1>10. CollectedIsOut' /\ MergedIsWhole'
  BY <1>1, <1>2, <1>3 DEF CollectedIsOut, MergedIsWhole, Ended
<1> QED BY <1>5, <1>6, <1>7, <1>8, <1>9, <1>10

LEMMA LaunchKeeps ==
  ASSUME IInv, NEW s \in Scripts, Launch(s), TypeInv'
  PROVE  IInv'
<1> USE DEF IInv
<1>1. place[s] \in Places(s)
  BY HostFacts DEF Launch, TypeInv, TypeOK
<1>2. \A r \in Scripts : \A j \in Places(r) :
        job'[r][j] = IF r = s /\ j = place[s] THEN "launched" ELSE job[r][j]
  BY <1>1, RunMoves DEF Launch, Running
<1>3. UNCHANGED <<tip, head, out, shards, stage, over, began, merged>>
  BY DEF Launch
<1>4. /\ Active(s) /\ stage[s] = "launching"
      /\ \A r \in Scripts : Active(r) => r = s
      /\ \A r \in Scripts : \A j \in Places(r) : Goes(r, j) => r = s
  BY DEF Launch, Active, Ended, OneAtATime
<1>5. \A r \in Scripts : stage[r] # "collecting"
  BY <1>4 DEF Active, Ended
<1>6. \A r \in Scripts : \A j \in Places(r) : Goes(r, j)' => r = s
  BY <1>2, <1>4 DEF Goes
<1>7. NewIsIdle'
  BY <1>2, <1>3, <1>4 DEF NewIsIdle
<1>8. OneAtATime'
  BY <1>3, <1>4, <1>6 DEF OneAtATime, Active
<1>9. ListedAtHead' /\ ListedSince' /\ OutIsItsSlice'
  BY <1>2, <1>3 DEF ListedAtHead, ListedSince, OutIsItsSlice, Active
<1>10. CollectedIsOut' /\ MergedIsWhole'
  BY <1>3, <1>5 DEF CollectedIsOut, MergedIsWhole
<1> QED BY <1>7, <1>8, <1>9, <1>10

\* A call that stops, with its total or without.
LEMMA StopKeeps ==
  ASSUME IInv, NEW s \in Scripts, Active(s),
         NEW end \in Ended \ {"new"}, stage' = [stage EXCEPT ![s] = end],
         UNCHANGED <<tip, head, out, shards, place, job, over, began>>,
         MergedIsWhole', TypeInv'
  PROVE  IInv'
<1> USE DEF IInv
<1>1. \A r \in Scripts : stage'[r] = IF r = s THEN end ELSE stage[r]
  BY DEF TypeInv, TypeOK
<1>2. \A r \in Scripts : Active(r)' => Active(r)
  BY <1>1 DEF Active
<1>3. NewIsIdle'
  BY <1>1 DEF NewIsIdle
<1>4. OneAtATime'
  BY <1>2 DEF OneAtATime, Goes
<1>5. ListedAtHead' /\ ListedSince' /\ OutIsItsSlice'
  BY <1>2 DEF ListedAtHead, ListedSince, OutIsItsSlice
<1>6. CollectedIsOut'
  BY <1>1 DEF CollectedIsOut, AllOk, Ended
<1> QED BY <1>3, <1>4, <1>5, <1>6

\* The directory of an earlier run is emptied before the first copy.
LEMMA WaitKeeps ==
  ASSUME IInv, NEW s \in Scripts, Wait(s), TypeInv'
  PROVE  IInv'
<1> USE DEF IInv
<1>1. UNCHANGED <<tip, head, out, job, over, began, merged>>
  BY DEF Wait
<1>2. /\ Active(s)
      /\ \A r \in Scripts : Active(r) => r = s
  BY DEF Wait, Active, Ended, OneAtATime
<1>3. /\ \A r \in Scripts : stage'[r] = IF r = s THEN "collecting" ELSE stage[r]
      /\ place'[s] = 1
      /\ shards'[hosts[s][1]] = <<>>
  BY HostFacts DEF Wait, TypeInv, TypeOK, Shape
<1>4. \A r \in Scripts : Active(r)' <=> Active(r)
  BY <1>2, <1>3 DEF Active, Ended
<1>5. NewIsIdle' /\ OneAtATime'
  BY <1>1, <1>3, <1>4 DEF NewIsIdle, OneAtATime, Goes
<1>6. ListedAtHead' /\ ListedSince' /\ OutIsItsSlice'
  BY <1>1, <1>4 DEF ListedAtHead, ListedSince, OutIsItsSlice
<1>7. CollectedIsOut'
  <2>1. \A r \in Scripts : stage'[r] = "collecting" => r = s
    BY <1>2, <1>3 DEF Active, Ended
  <2>2. AllOk(s)'
    BY <1>1 DEF Wait, AllOk
  <2>3. DOMAIN shards'[hosts[s][1]] = 1 .. place'[s] - 1 /\ 1 .. place'[s] - 1 = {}
    BY <1>3
  <2> QED BY <2>1, <2>2, <2>3 DEF CollectedIsOut
<1>8. MergedIsWhole'
  BY <1>1, <1>3 DEF MergedIsWhole
<1> QED BY <1>5, <1>6, <1>7, <1>8

LEMMA CollectKeeps ==
  ASSUME IInv, NEW s \in Scripts, Collect(s), TypeInv'
  PROVE  IInv'
<1> USE DEF IInv
<1>1. UNCHANGED <<tip, head, out, stage, job, over, began, merged>>
  BY DEF Collect
<1>2. /\ stage[s] = "collecting"
      /\ \A r \in Scripts : stage[r] = "collecting" => r = s
  BY DEF Collect, Active, Ended, OneAtATime
<1> DEFINE m == hosts[s][1]
           copy == out[hosts[s][place[s]]]
<1>3. /\ shards'[m] = Put(shards[m], place[s], copy)
      /\ place'[s] = place[s] + 1
      /\ place[s] \in Nat \ {0}
  BY HostFacts DEF Collect, TypeInv, TypeOK, Shape
<1>4. CollectedIsOut'
  <2>1. /\ AllOk(s)
        /\ DOMAIN shards[m] = 1 .. place[s] - 1
        /\ \A k \in 1 .. place[s] - 1 : shards[m][k] = out[hosts[s][k]]
    BY <1>2 DEF CollectedIsOut
  <2>2. 1 .. place'[s] - 1 = (1 .. place[s] - 1) \cup {place[s]}
    BY <1>3
  <2>3. DOMAIN shards'[m] = 1 .. place'[s] - 1
    BY <1>3, <2>1, <2>2 DEF Put
  <2>4. \A k \in 1 .. place'[s] - 1 : shards'[m][k] = out[hosts[s][k]]
    BY <1>3, <2>1, <2>2 DEF Put
  <2>5. AllOk(s)'
    BY <1>1, <2>1 DEF AllOk
  <2> QED BY <1>1, <1>2, <2>3, <2>4, <2>5 DEF CollectedIsOut
<1>5. NewIsIdle' /\ OneAtATime' /\ ListedAtHead'
  BY <1>1 DEF NewIsIdle, OneAtATime, ListedAtHead, Active, Goes
<1>6. ListedSince' /\ OutIsItsSlice' /\ MergedIsWhole'
  BY <1>1 DEF ListedSince, OutIsItsSlice, MergedIsWhole, Active
<1> QED BY <1>4, <1>5, <1>6

LEMMA GiveUpKeeps ==
  ASSUME IInv, NEW s \in Scripts, GiveUp(s), TypeInv'
  PROVE  IInv'
<1>1. Active(s) /\ "failed" \in Ended \ {"new"}
  BY DEF GiveUp, Active, Ended
<1>2. /\ stage' = [stage EXCEPT ![s] = "failed"]
      /\ UNCHANGED <<tip, head, out, shards, place, job, over, began, merged>>
  BY DEF GiveUp
<1>3. MergedIsWhole'
  BY <1>1, <1>2 DEF IInv, MergedIsWhole, TypeInv, TypeOK
<1> QED BY <1>1, <1>2, <1>3, StopKeeps

LEMMA MergeKeeps ==
  ASSUME IInv, NEW s \in Scripts, Merge(s), TypeInv'
  PROVE  IInv'
<1> DEFINE read == shards[hosts[s][1]]
           end == IF Foldable(read) THEN "done" ELSE "refused"
<1>1. Active(s) /\ end \in Ended \ {"new"}
  BY DEF Merge, Active, Ended
<1>2. /\ stage' = [stage EXCEPT ![s] = end]
      /\ UNCHANGED <<tip, head, out, shards, place, job, over, began>>
  BY DEF Merge
<1>3. MergedIsWhole'
  <2>1. \A r \in Scripts : r # s => merged'[r] = merged[r] /\ stage'[r] = stage[r]
    BY DEF Merge, IInv, TypeInv, TypeOK
  <2>2. stage'[s] = "done" => Foldable(read) /\ merged'[s] = Folded(read)
    BY <1>2 DEF Merge, IInv, TypeInv, TypeOK
  <2>3. Foldable(read) =>
          \A f \in Files :
            Folded(read).count[f] = IF f \in corpus[Folded(read).over] THEN 1 ELSE 0
    BY FoldedIsWhole DEF Merge
  <2> QED BY <2>1, <2>2, <2>3 DEF IInv, MergedIsWhole
<1> HIDE DEF end
<1> QED BY <1>1, <1>2, <1>3, StopKeeps

LEMMA MoveBranchKeeps ==
  ASSUME IInv, MoveBranch, TypeInv'
  PROVE  IInv'
<1> USE DEF IInv
<1>1. /\ tip' = tip + 1
      /\ UNCHANGED <<head, out, shards, stage, place, job, over, began, merged>>
  BY DEF MoveBranch
<1>2. ListedSince'
  BY <1>1 DEF ListedSince, Active, TypeInv, TypeOK, Commits
<1>3. NewIsIdle' /\ OneAtATime' /\ ListedAtHead' /\ OutIsItsSlice'
  BY <1>1 DEF NewIsIdle, OneAtATime, ListedAtHead, OutIsItsSlice, Active, Goes
<1>4. CollectedIsOut' /\ MergedIsWhole'
  BY <1>1 DEF CollectedIsOut, MergedIsWhole, AllOk
<1> QED BY <1>2, <1>3, <1>4

LEMMA Inductive == Quiet => (IInv /\ [Next]_vars => IInv')
<1> SUFFICES ASSUME Quiet, IInv, [Next]_vars PROVE IInv'
  OBVIOUS
<1>1. TypeInv'
  BY StepTypes DEF IInv
<1>2. ASSUME NEW s \in Scripts, NEW k \in Places(s), List(s, k) PROVE IInv'
  BY <1>1, <1>2, ListKeeps
<1>3. ASSUME NEW s \in Scripts, NEW k \in Places(s), Write(s, k) PROVE IInv'
  BY <1>1, <1>3, WriteKeeps
<1>4. ASSUME NEW s \in Scripts, NEW k \in Places(s), Fail(s, k) PROVE IInv'
  BY <1>1, <1>4, FailKeeps
<1>5. ASSUME NEW s \in Scripts, Call(s) PROVE IInv'
  BY <1>1, <1>5, CallKeeps
<1>6. ASSUME NEW s \in Scripts, Launch(s) PROVE IInv'
  BY <1>1, <1>6, LaunchKeeps
<1>7. ASSUME NEW s \in Scripts, Wait(s) PROVE IInv'
  BY <1>1, <1>7, WaitKeeps
<1>8. ASSUME NEW s \in Scripts, Collect(s) PROVE IInv'
  BY <1>1, <1>8, CollectKeeps
<1>9. ASSUME NEW s \in Scripts, GiveUp(s) PROVE IInv'
  BY <1>1, <1>9, GiveUpKeeps
<1>10. ASSUME NEW s \in Scripts, Merge(s) PROVE IInv'
  BY <1>1, <1>10, MergeKeeps
<1>11. ASSUME MoveBranch PROVE IInv'
  BY <1>1, <1>11, MoveBranchKeeps
<1>12. ASSUME UNCHANGED vars PROVE IInv'
  BY <1>1, <1>12
     DEF vars, IInv, NewIsIdle, OneAtATime, ListedAtHead, ListedSince, OutIsItsSlice,
         CollectedIsOut, MergedIsWhole, Active, Goes, AllOk
<1> QED
  BY <1>2, <1>3, <1>4, <1>5, <1>6, <1>7, <1>8, <1>9, <1>10, <1>11, <1>12 DEF Next

\* When calls wait for each other's runs, what merge prints has every file of the
\* corpus it is over once, on any machines and in any order of their steps.
THEOREM TotalsAreWhole == Quiet => (Spec => []MergedIsWhole)
<1> SUFFICES ASSUME Quiet PROVE Spec => []MergedIsWhole
  OBVIOUS
<1>1. IInv /\ [Next]_vars => IInv'
  BY Inductive
<1>2. IInv => MergedIsWhole
  BY DEF IInv
<1> QED BY InitIsInvariant, <1>1, <1>2, PTL DEF Spec

LEMMA RefusalHasAReason ==
  ASSUME IInv, [Next]_vars, NEW s \in Scripts,
         stage[s] # "refused", stage'[s] = "refused", tip = began[s]
  PROVE  \E k \in Places(s) : out[hosts[s][k]].over = 0
<1>1. Merge(s) /\ ~Foldable(shards[hosts[s][1]])
  <2>1. stage' # stage
    OBVIOUS
  <2>2. \A r \in Scripts : ~(\E k \in Places(r) : List(r, k) \/ Write(r, k) \/ Fail(r, k))
    BY <2>1 DEF List, Write, Fail
  <2>3. ~MoveBranch /\ ~UNCHANGED vars
    BY <2>1 DEF MoveBranch, vars
  <2>4. \A r \in Scripts :
          Call(r) \/ Launch(r) \/ Wait(r) \/ Collect(r) \/ GiveUp(r) =>
            stage'[s] \in {stage[s], "launching", "collecting", "failed"}
    BY DEF Call, Launch, Wait, Collect, GiveUp, IInv, TypeInv, TypeOK
  <2>5. PICK r \in Scripts : Merge(r)
    BY <2>2, <2>3, <2>4 DEF Next
  <2> QED BY <2>5 DEF Merge, IInv, TypeInv, TypeOK
<1> DEFINE read == shards[hosts[s][1]]
<1>2. stage[s] = "collecting" /\ place[s] = Many(s) + 1
  BY <1>1 DEF Merge
<1>3. /\ 1 \in DOMAIN read
      /\ DOMAIN read = Places(s)
      /\ \A k \in Places(s) :
           read[k].over = out[hosts[s][k]].over /\ read[k].over \in {over[s][k], 0}
  BY <1>2, AllCollected, HostFacts
<1>4. \A k \in Places(s) : over[s][k] = tip
  <2>1. tip \in Nat
    BY DEF IInv, TypeInv, TypeOK, Commits
  <2> QED BY <1>2, <2>1, AllCollected
<1> QED BY <1>1, <1>3, <1>4 DEF Foldable

\* And a script is refused its total only for one of the two reasons there are.
THEOREM RefusalsHaveReasons == Quiet => (Spec => RefusedForAReason)
<1> SUFFICES ASSUME Quiet PROVE Spec => RefusedForAReason
  OBVIOUS
<1> DEFINE A == \A s \in Scripts : stage[s] # "refused" /\ stage'[s] = "refused" =>
                  \/ tip # began[s]
                  \/ \E k \in Places(s) : out[hosts[s][k]].over = 0
<1>1. IInv /\ [Next]_vars => IInv'
  BY Inductive
<1>2. IInv /\ [Next]_vars => [A]_vars
  BY RefusalHasAReason
<1>3. Spec => [][A]_vars
  BY InitIsInvariant, <1>1, <1>2, PTL DEF Spec
<1> QED BY <1>3 DEF RefusedForAReason
=============================================================================
