----------------------------- MODULE ShellSession -----------------------------
(***************************************************************************)
(* `Session` of shell.rs: one session kept up over a process per statement.*)
(* While it is on a file the database file carries the state from process  *)
(* to process and only the settings are replayed; the first statement a    *)
(* file cannot carry gives the file up, and from there the whole history   *)
(* is replayed in front of every statement until the reset.                *)
(*                                                                         *)
(* What a statement leaves is a mark, its text and its turn, so that two   *)
(* states are the same exactly when the same statements made them.  A      *)
(* statement that is replayed is taken to do again what it did.  What a    *)
(* statement answers and costs is left out.                                *)
(***************************************************************************)
EXTENDS Naturals, Sequences

CONSTANTS
  Texts,    (* The statements the session is given.                        *)
  opens,    (* What the first words of each say it is.                     *)
  prints,   (* Whether it prints a result set.                             *)
  leaves,   (* What it leaves behind, and whether a file keeps that.       *)
  Torn,     (* The ones that can fail having left what they leave.         *)
  Garbled,  (* The ones whose rows may come back unreadable.               *)
  Asked,    (* The ones put to `accepts`.                                  *)
  MaxTurns, (* A bound on how many statements are run.                     *)
  MaxHomes  (* A bound on how many directories are made.                   *)

ASSUME SessionAssumption ==
  /\ opens \in [Texts -> {"setting", "owned", "other"}]
  /\ prints \in [Texts -> BOOLEAN]
  /\ leaves \in [Texts -> {"nothing", "data", "process"}]
  /\ Torn \subseteq Texts
  /\ Garbled \subseteq {t \in Texts : prints[t]}
  /\ Asked \subseteq Texts
  /\ MaxTurns \in Nat
  /\ MaxHomes \in Nat

VARIABLES
  wanted,   (* Whether a file was asked for.                               *)
  on_file,  (* Whether the file is carrying the session.                   *)
  home,     (* The session's directory, or 0.                              *)
  file,     (* What the database in it holds.                              *)
  history,  (* What ran and printed nothing, in order.                     *)
  settings, (* The settings among that.                                    *)
  over,     (* Whether the session was dropped.                            *)
  sessions, (* SESSIONS: how many directories were made.                   *)
  dirs,     (* The directories that are on disk.                           *)
  stuck,    (* History: the ones whose removal failed.                     *)
  turn,     (* History: how many statements have run.                      *)
  ran,      (* History: what the last statement ran on.                    *)
  said      (* What came of it.                                            *)

vars == <<wanted, on_file, home, file, history, settings, over, sessions, dirs,
          stuck, turn, ran, said>>

books == <<history, settings>>
disk  == <<home, file, sessions, dirs, stuck>>

Marks == [at : Nat \ {0}, text : Texts]

Here(t) == [at |-> turn + 1, text |-> t]

Init ==
  /\ wanted \in BOOLEAN
  /\ on_file = wanted
  /\ home = 0
  /\ file = {}
  /\ history = <<>>
  /\ settings = <<>>
  /\ over = FALSE
  /\ sessions = 0
  /\ dirs = {}
  /\ stuck = {}
  /\ turn = 0
  /\ ran = {}
  /\ said = "nothing"

-----------------------------------------------------------------------------
(***************************************************************************)
(* What the words of a statement say, and what is replayed.                *)
(***************************************************************************)
IsASetting(t) == opens[t] = "setting"
FileKeepsIt(t) == opens[t] # "owned"

Held(setup) == {setup[i] : i \in 1..Len(setup)}

Replayed(setup) == {m \in Held(setup) : leaves[m.text] # "nothing"}

\* Mutant: a setting is not put in the history as well.
RememberEither(t) ==
  /\ settings' = IF IsASetting(t) THEN Append(settings, Here(t)) ELSE settings
  /\ history' = IF IsASetting(t) THEN history ELSE Append(history, Here(t))

Remember(t) ==
  /\ settings' = IF IsASetting(t) THEN Append(settings, Here(t)) ELSE settings
  /\ history' = Append(history, Here(t))

-----------------------------------------------------------------------------
(***************************************************************************)
(* The directory.                                                          *)
(***************************************************************************)
\* A directory that will not go away is let lie.
RemoveHome ==
  /\ home' = 0
  /\ file' = {}
  /\ \/ dirs' = dirs \ {home} /\ UNCHANGED stuck
     \/ home \in dirs /\ stuck' = stuck \cup {home} /\ UNCHANGED dirs
  /\ UNCHANGED sessions

\* Mutant: the directory is let go of and not removed.
LeaveTheFileThere ==
  /\ on_file' = FALSE
  /\ home' = 0
  /\ file' = {}
  /\ UNCHANGED <<dirs, stuck, sessions>>

LeaveTheFile ==
  /\ on_file' = FALSE
  /\ RemoveHome

\* The session's directory, made when it is first needed.
Home ==
  IF home # 0 THEN UNCHANGED <<home, sessions, dirs, stuck>>
  ELSE /\ sessions < MaxHomes
       /\ sessions' = sessions + 1
       /\ home' = sessions'
       /\ dirs' = dirs \cup {home'}
       /\ UNCHANGED stuck

-----------------------------------------------------------------------------
(***************************************************************************)
(* One statement: a process of its own, with the session in front of it.   *)
(* A statement that fails leaves nothing, unless it is several and the     *)
(* first of them went through; an answer that cannot be read is an error   *)
(* of the harness, on a statement that ran.                                *)
(***************************************************************************)
Ready == ~over /\ turn < MaxTurns

Answers == {"ok", "refused", "broken"}

CanAnswer(t, answer) == answer = "broken" => t \in Garbled

\* Whether what it leaves got to be left.
Landed(t, answer) ==
  IF answer = "refused" THEN {FALSE} \cup {TRUE : u \in Torn \cap {t}} ELSE {TRUE}

Note(t, answer) ==
  /\ IF answer = "ok" /\ ~prints[t] THEN Remember(t) ELSE UNCHANGED books
  /\ said' = answer
  /\ turn' = turn + 1
  /\ UNCHANGED <<wanted, over>>

RunOnFile(t, answer) ==
  /\ Ready
  /\ on_file
  /\ FileKeepsIt(t)
  /\ CanAnswer(t, answer)
  /\ Home
  /\ ran' = file \cup Replayed(settings)
  /\ \E landed \in Landed(t, answer) :
       file' = IF landed /\ leaves[t] = "data" THEN file \cup {Here(t)} ELSE file
  /\ Note(t, answer)
  /\ UNCHANGED on_file

\* Nothing is kept of the process but what is remembered.
RunOnReplay(t, answer) ==
  /\ Ready
  /\ ~on_file
  /\ CanAnswer(t, answer)
  /\ ran' = Replayed(history)
  /\ Note(t, answer)
  /\ UNCHANGED <<on_file, disk>>

FallBack(t, answer) ==
  /\ Ready
  /\ on_file
  /\ ~FileKeepsIt(t)
  /\ CanAnswer(t, answer)
  /\ LeaveTheFile
  /\ ran' = Replayed(history)
  /\ Note(t, answer)

\* The directory cannot be made, and the statement is not run.
NoHome ==
  /\ Ready
  /\ on_file
  /\ home = 0
  /\ sessions < MaxHomes
  /\ sessions' = sessions + 1
  /\ said' = "broken"
  /\ UNCHANGED <<wanted, on_file, home, file, books, over, dirs, stuck, turn, ran>>

\* `accepts` on a shell runs the statement, and nothing is remembered of it.
Accept(t) ==
  /\ ~over
  /\ IF on_file
     THEN /\ Home
          /\ file' \in {file} \cup
               (IF leaves[t] = "data" THEN {file \cup {Here(t)}} ELSE {})
     ELSE UNCHANGED disk
  /\ UNCHANGED <<wanted, on_file, books, over, turn, ran, said>>

\* Mutant: the file outlives the reset.
ResetKeepingFile ==
  /\ ~over
  /\ history' = <<>>
  /\ settings' = <<>>
  /\ on_file' = wanted
  /\ ran' = {}
  /\ said' = "nothing"
  /\ UNCHANGED <<wanted, disk, over, turn>>

Reset ==
  /\ ~over
  /\ history' = <<>>
  /\ settings' = <<>>
  /\ on_file' = wanted
  /\ RemoveHome
  /\ ran' = {}
  /\ said' = "nothing"
  /\ UNCHANGED <<wanted, over, turn>>

Drop ==
  /\ ~over
  /\ over' = TRUE
  /\ RemoveHome
  /\ UNCHANGED <<wanted, on_file, books, turn, ran, said>>

Next ==
  \/ \E t \in Texts, answer \in Answers :
       RunOnFile(t, answer) \/ RunOnReplay(t, answer) \/ FallBack(t, answer)
  \/ NoHome
  \/ \E t \in Asked : Accept(t)
  \/ Reset
  \/ Drop

Spec == Init /\ [][Next]_vars

-----------------------------------------------------------------------------
(***************************************************************************)
(* Properties.                                                             *)
(***************************************************************************)

\* Every variable has the type its field has in the code, and only settings are
\* among the settings.
TypeOK ==
  /\ wanted \in BOOLEAN
  /\ on_file \in BOOLEAN
  /\ sessions \in 0..MaxHomes
  /\ home \in 0..sessions
  /\ file \subseteq Marks
  /\ history \in Seq(Marks)
  /\ settings \in Seq({m \in Marks : IsASetting(m.text)})
  /\ over \in BOOLEAN
  /\ dirs \subseteq 1..sessions
  /\ stuck \subseteq dirs
  /\ turn \in 0..MaxTurns
  /\ ran \subseteq Marks
  /\ said \in Answers \cup {"nothing"}

\* While the file carries the session the history holds all the file holds, so
\* that leaving the file and replaying the history loses nothing.
HistoryHoldsTheFile ==
  on_file /\ ~over => file = {m \in Replayed(history) : leaves[m.text] = "data"}

\* What a statement that leaves the file runs on is what the file was holding and
\* the settings in front of it.
FallBackRebuilds ==
  [][on_file /\ ~on_file' => ran' = file \cup Replayed(settings)]_vars

\* A replay is in the order the statements ran, the settings' as well as the
\* history's, and a setting that is replayed on a file would be off it.
Rising(s) == \A i, j \in 1..Len(s) : i < j => s[i].at < s[j].at

ReplaysInOrder ==
  /\ Rising(history) /\ Rising(settings)
  /\ Held(settings) = {m \in Held(history) : IsASetting(m.text)}

\* The only directory a session has on disk is the one its file is in, and one
\* that is off its file or dropped has none, unless one would not go away.
NothingLeftOnDisk ==
  /\ dirs \subseteq stuck \cup {home}
  /\ over \/ ~on_file => home = 0

(***************************************************************************)
(* A session is one engine that stays up, for statements whose words say   *)
(* what they leave: one that leaves something prints nothing and fails     *)
(* whole, and what a process alone would keep is a setting or is owned.    *)
(***************************************************************************)
Plain ==
  /\ \A t \in Texts :
       leaves[t] # "nothing" => ~prints[t]
  /\ \A t \in Texts : leaves[t] = "process" => opens[t] # "other"
  /\ \A t \in Texts : opens[t] = "setting" => leaves[t] # "data"
  /\ \A t \in Asked \cup Torn : leaves[t] = "nothing"

\* What the next statement would run on.
Left ==
  IF over THEN {}
  ELSE IF on_file THEN file \cup Replayed(settings) ELSE Replayed(history)

Live ==
  INSTANCE LiveSession WITH
    Leaving <- {t \in Texts : leaves[t] # "nothing"}, left <- Left

StaysUp == Live!Spec
=============================================================================
