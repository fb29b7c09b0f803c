---------------------------- MODULE DuckdbDriver ----------------------------
(***************************************************************************)
(* DuckDB as a process per statement: `Duckdb` of duckdb.rs.  The callers  *)
(* are the threads of one process, which share a directory and a counter.  *)
(* A run takes a number, and the child writes the types and the rows of a  *)
(* query, and what it says when it fails, to files with that number; the   *)
(* caller polls it, kills it at its limit, and reads and removes the files.*)
(***************************************************************************)
EXTENDS Naturals, FiniteSets

CONSTANTS
  Callers,     (* The threads.                                             *)
  MaxRuns      (* A bound on how many statements are run.                  *)

VARIABLES
  runs,        (* RUNS: how many numbers have been taken.                  *)
  pc,          (* Where each caller is.                                    *)
  number,      (* The number of its files.                                 *)
  query,       (* Whether its statement is one COPY and DESCRIBE take.     *)
  child,       (* What the child it started is about to do.                *)
  scratch,     (* What is in the directory: whose, by kind and number.     *)
  answer,      (* What came of its statement.                              *)
  lost         (* History: the numbers a step that failed left to lie.     *)

duckdbVars == <<runs, pc, number, query, child, scratch, answer, lost>>

Kinds   == {"types", "rows", "said"}
Nothing == [said |-> "nothing"]

Init ==
  /\ runs = 0
  /\ pc = [c \in Callers |-> "idle"]
  /\ number = [c \in Callers |-> 0]
  /\ query = [c \in Callers |-> FALSE]
  /\ child = [c \in Callers |-> "none"]
  /\ scratch = {}
  /\ answer = [c \in Callers |-> Nothing]
  /\ lost = {}

Write(kind, n, c) == {f \in scratch : ~(f.kind = kind /\ f.n = n)}
                        \cup {[kind |-> kind, n |-> n, by |-> c]}
Remove(kinds, n)  == {f \in scratch : ~(f.kind \in kinds /\ f.n = n)}
Exists(kind, n)   == \E f \in scratch : f.kind = kind /\ f.n = n
By(kind, n)       == (CHOOSE f \in scratch : f.kind = kind /\ f.n = n).by

\* Mutant: the names are fixed.
TakeFixed(c) == number' = [number EXCEPT ![c] = 0] /\ runs' = runs + 1

TakeNumber(c) == number' = [number EXCEPT ![c] = runs] /\ runs' = runs + 1

\* The file for what it says is made before the child that writes it.
Spawn(c) ==
  /\ pc[c] = "idle"
  /\ runs < MaxRuns
  /\ TakeNumber(c)
  /\ query' \in {[query EXCEPT ![c] = q] : q \in BOOLEAN}
  /\ answer' = [answer EXCEPT ![c] = Nothing]
  /\ scratch' = Write("said", number'[c], c)
  /\ \/ /\ pc' = [pc EXCEPT ![c] = "waiting"]
        /\ child' = [child EXCEPT ![c] = IF query'[c] THEN "types" ELSE "rows"]
        /\ UNCHANGED lost
     \/ /\ UNCHANGED <<pc, child>>
        /\ lost' = lost \cup {number'[c]}

(***************************************************************************)
(* The child: the types, then the rows, then the end, and an error at any  *)
(* of them.  A statement that is no query writes neither file.             *)
(***************************************************************************)
ChildWrites(c) ==
  /\ child[c] \in {"types", "rows"}
  /\ \/ /\ scratch' = IF query[c] THEN Write(child[c], number[c], c) ELSE scratch
        /\ child' = [child EXCEPT ![c] = IF @ = "types" THEN "rows" ELSE "exited"]
     \/ /\ scratch' = Write("said", number[c], c)
        /\ child' = [child EXCEPT ![c] = "failed"]
  /\ UNCHANGED <<runs, pc, number, query, answer, lost>>

Alive(c) == child[c] \in {"types", "rows"}

Says(c, what) == answer' = [answer EXCEPT ![c] = what]

\* `wait_for` came back: the child ended before its limit.
Failed(c) ==
  /\ pc[c] = "waiting"
  /\ child[c] = "failed"
  /\ Exists("said", number[c])
  /\ Says(c, [said |-> "error", by |-> By("said", number[c])])
  /\ scratch' = Remove(Kinds, number[c])
  /\ pc' = [pc EXCEPT ![c] = "idle"]
  /\ child' = [child EXCEPT ![c] = "none"]
  /\ UNCHANGED <<runs, number, query, lost>>

\* Unreadable files are an error of the harness, and are not removed; what is in
\* them may still be no table, with the files gone by then.
Succeeded(c) ==
  /\ pc[c] = "waiting"
  /\ child[c] = "exited"
  /\ \/ /\ ~query[c]
        /\ Says(c, [said |-> "no rows", by |-> c])
        /\ scratch' = Remove({"said"}, number[c])
        /\ UNCHANGED lost
     \/ /\ query[c]
        /\ Exists("types", number[c]) /\ Exists("rows", number[c])
        /\ Says(c, [said |-> "rows", by |-> By("rows", number[c])])
        /\ scratch' = Remove(Kinds, number[c])
        /\ UNCHANGED lost
     \/ /\ query[c]
        /\ Says(c, [said |-> "broken"])
        /\ scratch' = Remove({"said"}, number[c])
        /\ lost' = lost \cup {number[c]}
     \/ /\ query[c]
        /\ Exists("types", number[c]) /\ Exists("rows", number[c])
        /\ Says(c, [said |-> "broken"])
        /\ scratch' = Remove(Kinds, number[c])
        /\ UNCHANGED lost
  /\ pc' = [pc EXCEPT ![c] = "idle"]
  /\ child' = [child EXCEPT ![c] = "none"]
  /\ UNCHANGED <<runs, number, query>>

\* The limit: kill, wait for it to be gone, and only then remove.
TimeOut(c) ==
  /\ pc[c] = "waiting"
  /\ Alive(c)
  /\ pc' = [pc EXCEPT ![c] = "killing"]
  /\ UNCHANGED <<runs, number, query, child, scratch, answer, lost>>

\* Mutant: the files go while the child may still be writing.
RemoveUnwaited(c) ==
  /\ pc[c] = "killing"
  /\ scratch' = Remove(Kinds, number[c])
  /\ Says(c, [said |-> "timeout", by |-> c])
  /\ pc' = [pc EXCEPT ![c] = "idle"]
  /\ UNCHANGED <<runs, number, query, child, lost>>

KillAndRemove(c) ==
  /\ pc[c] = "killing"
  /\ child' = [child EXCEPT ![c] = "none"]
  /\ scratch' = Remove(Kinds, number[c])
  /\ Says(c, [said |-> "timeout", by |-> c])
  /\ pc' = [pc EXCEPT ![c] = "idle"]
  /\ UNCHANGED <<runs, number, query, lost>>

\* A try_wait that fails leaves the child and the files.
WaitFails(c) ==
  /\ pc[c] = "waiting"
  /\ Says(c, [said |-> "broken"])
  /\ pc' = [pc EXCEPT ![c] = "left"]
  /\ lost' = lost \cup {number[c]}
  /\ UNCHANGED <<runs, number, query, child, scratch>>

Next ==
  \E c \in Callers :
    \/ Spawn(c) \/ ChildWrites(c) \/ Failed(c) \/ Succeeded(c)
    \/ TimeOut(c) \/ KillAndRemove(c) \/ WaitFails(c)

Spec == Init /\ [][Next]_duckdbVars

-----------------------------------------------------------------------------
(***************************************************************************)
(* Properties.                                                             *)
(***************************************************************************)

\* What a caller is answered with was written by the child of its own statement,
\* however the callers interleave.
AnswerIsItsOwn ==
  \A c \in Callers : "by" \in DOMAIN answer[c] => answer[c].by = c

\* A caller that is idle has left nothing in the directory, and nothing still
\* running that could put it back, unless a file could not be read, a child not
\* started or not waited for: a timeout, an error and an answer all clean up.
CleansUp ==
  \A f \in scratch : f.n \in lost \/ \E c \in Callers : number[c] = f.n /\ pc[c] # "idle"
=============================================================================
