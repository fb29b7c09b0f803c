------------------------- MODULE ShellSession_proofs -------------------------
(***************************************************************************)
(* Proofs about ShellSession, for any statements and any bounds.  Types,   *)
(* order and the disk hold whatever the statements are; that the history   *)
(* holds the file, and so that a session is one engine that stays up, is   *)
(* proved of plain statements, and SessionPrinting.cfg shows why of those. *)
(***************************************************************************)
EXTENDS ShellSession, TLAPS

(***************************************************************************)
(* Replaying a sequence with one more statement at its end.                *)
(***************************************************************************)
\* What a longer sequence holds.
LEMMA HeldAppend ==
  ASSUME NEW s \in Seq(Marks), NEW m \in Marks
  PROVE  Held(Append(s, m)) = Held(s) \cup {m}
<1> DEFINE t == Append(s, m)
<1>1. /\ Len(t) = Len(s) + 1 /\ Len(s) \in Nat
      /\ t[Len(s) + 1] = m
      /\ \A i \in 1..Len(s) : t[i] = s[i]
  OBVIOUS
<1>2. 1..Len(t) = (1..Len(s)) \cup {Len(s) + 1}
  BY <1>1
<1> HIDE DEF t
<1>3. Held(t) = Held(s) \cup {m}
  BY <1>1, <1>2 DEF Held
<1> QED BY <1>3 DEF t

\* A sequence of marks holds marks, and replays some of them.
LEMMA HeldMarks ==
  ASSUME NEW s \in Seq(Marks)
  PROVE  Held(s) \subseteq Marks /\ Replayed(s) \subseteq Marks
  BY DEF Held, Replayed

LEMMA ReplayedAppend ==
  ASSUME NEW s \in Seq(Marks), NEW m \in Marks
  PROVE  Replayed(Append(s, m)) =
           Replayed(s) \cup (IF leaves[m.text] # "nothing" THEN {m} ELSE {})
  BY HeldAppend DEF Replayed

LEMMA ReplayedEmpty == Held(<<>>) = {} /\ Replayed(<<>>) = {}
  BY DEF Held, Replayed

-----------------------------------------------------------------------------
(***************************************************************************)
(* Types.                                                                  *)
(***************************************************************************)
LEMMA InitTypes == Init => TypeOK
<1> DEFINE S == {m \in Marks : IsASetting(m.text)}
<1> SUFFICES ASSUME Init PROVE TypeOK
  OBVIOUS
<1>0. wanted \in BOOLEAN /\ on_file \in BOOLEAN /\ over \in BOOLEAN
  BY DEF Init
<1>1. /\ sessions \in 0..MaxHomes /\ home \in 0..sessions
      /\ turn \in 0..MaxTurns
      /\ said \in Answers \cup {"nothing"}
  BY SessionAssumption DEF Init, SessionAssumption
<1>2. file \subseteq Marks /\ dirs \subseteq 1..sessions /\ stuck \subseteq dirs
      /\ ran \subseteq Marks
  BY DEF Init
<1>3. history = <<>> /\ settings = <<>>
  BY DEF Init
<1>4. <<>> \in Seq(Marks) /\ <<>> \in Seq(S)
  <2> HIDE DEF S
  <2> QED OBVIOUS
<1>5. history \in Seq(Marks) /\ settings \in Seq({m \in Marks : IsASetting(m.text)})
  BY <1>3, <1>4
<1> QED BY <1>0, <1>1, <1>2, <1>5 DEF TypeOK

\* A mark made now is a mark.
LEMMA HereMark ==
  ASSUME TypeOK, NEW t \in Texts
  PROVE  /\ Here(t) \in Marks
         /\ Here(t).text = t
         /\ Here(t).at = turn + 1
  BY SessionAssumption DEF TypeOK, Here, Marks, SessionAssumption

\* What a note of a statement does to the books and the turn.
LEMMA NoteTypes ==
  ASSUME TypeOK, NEW t \in Texts, NEW answer \in Answers, Note(t, answer), Ready
  PROVE  /\ history' \in Seq(Marks)
         /\ settings' \in Seq({m \in Marks : IsASetting(m.text)})
         /\ turn' \in 0..MaxTurns
         /\ said' \in Answers \cup {"nothing"}
         /\ wanted' \in BOOLEAN /\ over' \in BOOLEAN
<1> DEFINE S == {m \in Marks : IsASetting(m.text)}
<1>1. Here(t) \in Marks /\ Here(t).text = t
  BY HereMark
<1>2. history \in Seq(Marks) /\ settings \in Seq(S)
  BY DEF TypeOK
<1>3. Append(history, Here(t)) \in Seq(Marks)
  BY <1>1, <1>2
<1>4. IsASetting(t) => Append(settings, Here(t)) \in Seq(S)
  <2> HAVE IsASetting(t)
  <2>1. Here(t) \in S
    BY <1>1
  <2> HIDE DEF S
  <2> QED BY <1>2, <2>1
<1>5. history' \in Seq(Marks) /\ settings' \in Seq(S)
  BY <1>2, <1>3, <1>4 DEF Note, Remember, books
<1>6. turn' \in 0..MaxTurns
  BY SessionAssumption DEF TypeOK, Note, Ready, SessionAssumption
<1> QED BY <1>5, <1>6 DEF Note, TypeOK

\* Removing the directory and making it keep the types of the disk's variables.
DiskTypes ==
  /\ sessions \in 0..MaxHomes
  /\ home \in 0..sessions
  /\ file \subseteq Marks
  /\ dirs \subseteq 1..sessions
  /\ stuck \subseteq dirs

\* The directory in use is not one that would not go away.
DiskInv ==
  /\ NothingLeftOnDisk
  /\ home \notin stuck

LEMMA RemoveTypes ==
  ASSUME TypeOK, DiskInv, RemoveHome
  PROVE  /\ DiskTypes'
         /\ dirs' \subseteq stuck' \cup {home'}
         /\ home' = 0 /\ home' \notin stuck'
<1>1. /\ sessions \in 0..MaxHomes /\ sessions \in Nat
      /\ home \in 0..sessions
      /\ dirs \subseteq 1..sessions /\ stuck \subseteq dirs
      /\ dirs \subseteq stuck \cup {home} /\ home \notin stuck
  BY SessionAssumption DEF TypeOK, DiskInv, NothingLeftOnDisk, SessionAssumption
<1>2. home' = 0 /\ file' = {} /\ sessions' = sessions
  BY DEF RemoveHome
<1>3. CASE dirs' = dirs \ {home} /\ stuck' = stuck
  <2>1. 0 \notin stuck
    BY <1>1
  <2>2. stuck' \subseteq dirs' /\ dirs' \subseteq 1..sessions
    BY <1>1, <1>3
  <2>3. dirs' \subseteq stuck' \cup {home'}
    BY <1>1, <1>3
  <2> QED BY <1>1, <1>2, <1>3, <2>1, <2>2, <2>3 DEF DiskTypes
<1>4. CASE stuck' = stuck \cup {home} /\ dirs' = dirs /\ home \in dirs
  <2>1. 0 \notin stuck'
    BY <1>1, <1>4
  <2>2. stuck' \subseteq dirs' /\ dirs' \subseteq 1..sessions
    BY <1>1, <1>4
  <2>3. dirs' \subseteq stuck' \cup {home'}
    BY <1>1, <1>4
  <2> QED BY <1>1, <1>2, <1>4, <2>1, <2>2, <2>3 DEF DiskTypes
<1> QED BY <1>3, <1>4 DEF RemoveHome

LEMMA HomeTypes ==
  ASSUME TypeOK, DiskInv, Home
  PROVE  /\ sessions' \in 0..MaxHomes
         /\ home' \in 0..sessions'
         /\ dirs' \subseteq 1..sessions'
         /\ stuck' \subseteq dirs'
         /\ dirs' \subseteq stuck' \cup {home'}
         /\ home' \notin stuck'
<1>1. /\ sessions \in 0..MaxHomes /\ MaxHomes \in Nat /\ sessions \in Nat
      /\ home \in 0..sessions
      /\ dirs \subseteq 1..sessions /\ stuck \subseteq dirs
      /\ dirs \subseteq stuck \cup {home} /\ home \notin stuck
  BY SessionAssumption DEF TypeOK, DiskInv, NothingLeftOnDisk, SessionAssumption
<1>2. CASE home # 0
  <2>1. home' = home /\ sessions' = sessions /\ dirs' = dirs /\ stuck' = stuck
    BY <1>2 DEF Home
  <2> QED BY <1>1, <2>1
<1>3. CASE home = 0
  <2>1. /\ sessions < MaxHomes /\ sessions' = sessions + 1 /\ home' = sessions + 1
        /\ dirs' = dirs \cup {sessions + 1} /\ stuck' = stuck
    BY <1>3 DEF Home
  <2>2. sessions + 1 \in 0..MaxHomes /\ 1..sessions \subseteq 1..(sessions + 1)
    BY <1>1, <2>1
  <2>3. sessions + 1 \notin dirs /\ 0 \notin dirs
    BY <1>1
  <2>4. dirs \subseteq stuck
    BY <1>1, <1>3, <2>3
  <2> QED BY <1>1, <2>1, <2>2, <2>3, <2>4
<1> QED BY <1>2, <1>3

-----------------------------------------------------------------------------
(***************************************************************************)
(* The order of the replay: the marks of both sequences rise, and none is  *)
(* later than the last turn, which is what the next one is put behind.     *)
(***************************************************************************)
UpTo(s, n) == \A i \in 1..Len(s) : s[i].at <= n

Ordered ==
  /\ ReplaysInOrder
  /\ UpTo(history, turn) /\ UpTo(settings, turn)

\* Rising survives an append of something later than all there is.
LEMMA RisingAppend ==
  ASSUME NEW s \in Seq(Marks), NEW m \in Marks, NEW n \in Nat,
         Rising(s), UpTo(s, n), m.at = n + 1
  PROVE  Rising(Append(s, m)) /\ UpTo(Append(s, m), n + 1)
<1> DEFINE t == Append(s, m)
<1>1. /\ Len(t) = Len(s) + 1 /\ Len(s) \in Nat
      /\ t[Len(s) + 1] = m
      /\ \A i \in 1..Len(s) : t[i] = s[i] /\ s[i] \in Marks
  OBVIOUS
<1>2. \A i \in 1..Len(s) : s[i].at \in Nat
  BY <1>1 DEF Marks
<1>3. UpTo(t, n + 1)
  BY <1>1, <1>2 DEF UpTo
<1>4. ASSUME NEW i \in 1..Len(t), NEW j \in 1..Len(t), i < j
      PROVE  t[i].at < t[j].at
  <2>1. i \in 1..Len(s)
    BY <1>1, <1>4
  <2>2. CASE j \in 1..Len(s)
    BY <1>1, <1>4, <2>1, <2>2 DEF Rising
  <2>3. CASE j = Len(s) + 1
    BY <1>1, <1>2, <2>1, <2>3 DEF UpTo
  <2> QED BY <1>1, <2>2, <2>3
<1> QED BY <1>3, <1>4 DEF Rising

LEMMA NoteOrder ==
  ASSUME TypeOK, Ordered, NEW t \in Texts, NEW answer \in Answers, Note(t, answer)
  PROVE  Ordered'
<1> DEFINE S == {m \in Marks : IsASetting(m.text)}
<1>1. /\ Here(t) \in Marks /\ Here(t).text = t /\ Here(t).at = turn + 1
      /\ turn \in Nat /\ turn' = turn + 1
  BY HereMark, SessionAssumption DEF TypeOK, Note, SessionAssumption
<1>2. history \in Seq(Marks) /\ settings \in Seq(Marks)
  <2>1. settings \in Seq(S) /\ S \subseteq Marks
    BY DEF TypeOK
  <2> HIDE DEF S
  <2> QED BY <2>1 DEF TypeOK
<1>3. /\ Rising(history) /\ Rising(settings)
      /\ UpTo(history, turn) /\ UpTo(settings, turn)
  BY DEF Ordered, ReplaysInOrder
<1>4. /\ Rising(Append(history, Here(t))) /\ UpTo(Append(history, Here(t)), turn + 1)
      /\ Rising(Append(settings, Here(t))) /\ UpTo(Append(settings, Here(t)), turn + 1)
  BY <1>1, <1>2, <1>3, RisingAppend
<1>5. UpTo(history, turn + 1) /\ UpTo(settings, turn + 1)
  <2>1. ASSUME NEW s \in Seq(Marks), UpTo(s, turn)
        PROVE  UpTo(s, turn + 1)
    <3>0. \A i \in 1..Len(s) : s[i] \in Marks
      BY <2>1
    <3>1. \A i \in 1..Len(s) : s[i].at \in Nat /\ s[i].at <= turn
      <4>1. \A i \in 1..Len(s) : s[i].at \in Nat
        BY ONLY <3>0 DEF Marks
      <4>2. \A i \in 1..Len(s) : s[i].at <= turn
        BY ONLY <2>1 DEF UpTo
      <4> QED BY ONLY <4>1, <4>2
    <3>2. \A x \in Nat : x <= turn => x <= turn + 1
      BY <1>1
    <3> QED BY <3>1, <3>2, Zenon DEF UpTo
  <2> QED BY <1>2, <1>3, <2>1
<1>6. \/ UNCHANGED <<history, settings>>
      \/ /\ history' = Append(history, Here(t))
         /\ settings' = IF IsASetting(t) THEN Append(settings, Here(t)) ELSE settings
  BY DEF Note, Remember, books
<1>7. /\ Rising(history') /\ Rising(settings')
      /\ UpTo(history', turn + 1) /\ UpTo(settings', turn + 1)
  BY <1>3, <1>4, <1>5, <1>6
<1>8. Held(settings') = {m \in Held(history') : IsASetting(m.text)}
  <2>1. Held(settings) = {m \in Held(history) : IsASetting(m.text)}
    BY DEF Ordered, ReplaysInOrder
  <2>2. CASE UNCHANGED <<history, settings>>
    BY <2>1, <2>2
  <2>3. CASE /\ history' = Append(history, Here(t))
             /\ settings' = IF IsASetting(t) THEN Append(settings, Here(t)) ELSE settings
    <3>1. Held(history') = Held(history) \cup {Here(t)}
      BY <1>1, <1>2, <2>3, HeldAppend
    <3>2. Held(settings') = Held(settings) \cup (IF IsASetting(t) THEN {Here(t)} ELSE {})
      BY <1>1, <1>2, <2>3, HeldAppend
    <3> QED BY <1>1, <2>1, <3>1, <3>2
  <2> QED BY <1>6, <2>2, <2>3
<1>9. Rising(history)' /\ Rising(settings)' /\ UpTo(history, turn)' /\ UpTo(settings, turn)'
  BY <1>1, <1>7 DEF Rising, UpTo
<1> QED BY <1>8, <1>9 DEF Ordered, ReplaysInOrder, Held, IsASetting

-----------------------------------------------------------------------------
(***************************************************************************)
(* The inductive invariant that holds of any statements.                   *)
(***************************************************************************)
IInv == TypeOK /\ DiskInv /\ Ordered

LEMMA InitIInv == Init => IInv
<1> SUFFICES ASSUME Init PROVE IInv
  OBVIOUS
<1>1. TypeOK
  BY InitTypes
<1>2. DiskInv
  BY DEF Init, DiskInv, NothingLeftOnDisk
<1>3. history = <<>> /\ settings = <<>>
  BY DEF Init
<1>4. Len(<<>>) = 0 /\ 1..0 = {}
  OBVIOUS
<1>5. Ordered
  BY <1>3, <1>4, ReplayedEmpty DEF Ordered, ReplaysInOrder, Rising, UpTo
<1> QED BY <1>1, <1>2, <1>5 DEF IInv

\* What is replayed is marks.
LEMMA ReplaysMarks ==
  ASSUME TypeOK
  PROVE  /\ settings \in Seq(Marks)
         /\ Replayed(history) \subseteq Marks
         /\ Replayed(settings) \subseteq Marks
<1> DEFINE S == {m \in Marks : IsASetting(m.text)}
<1>1. settings \in Seq(S) /\ S \subseteq Marks /\ history \in Seq(Marks)
  BY DEF TypeOK
<1> HIDE DEF S
<1>2. settings \in Seq(Marks)
  BY <1>1
<1> QED BY <1>1, <1>2, HeldMarks

\* One statement, whichever of the three ways it is run.
LEMMA RunStep ==
  ASSUME IInv, NEW t \in Texts, NEW answer \in Answers,
         RunOnFile(t, answer) \/ RunOnReplay(t, answer) \/ FallBack(t, answer)
  PROVE  IInv'
<1>1. TypeOK /\ DiskInv /\ Ordered
  BY DEF IInv
<1>2. Note(t, answer) /\ Ready
  BY DEF RunOnFile, RunOnReplay, FallBack
<1>3. Ordered'
  BY <1>1, <1>2, NoteOrder
<1>4. /\ history' \in Seq(Marks)
      /\ settings' \in Seq({m \in Marks : IsASetting(m.text)})
      /\ turn' \in 0..MaxTurns
      /\ said' \in Answers \cup {"nothing"}
      /\ wanted' \in BOOLEAN /\ over' \in BOOLEAN
  BY <1>1, <1>2, NoteTypes
<1>5. over' = FALSE
  BY <1>1, <1>2 DEF Note, Ready, TypeOK
<1>6. Here(t) \in Marks /\ Replayed(history) \subseteq Marks /\ Replayed(settings) \subseteq Marks
  BY <1>1, HereMark, ReplaysMarks
<1>7. CASE RunOnFile(t, answer)
  <2>1. /\ sessions' \in 0..MaxHomes /\ home' \in 0..sessions'
        /\ dirs' \subseteq 1..sessions' /\ stuck' \subseteq dirs'
        /\ dirs' \subseteq stuck' \cup {home'} /\ home' \notin stuck'
    BY <1>1, <1>7, HomeTypes DEF RunOnFile
  <2>2. file' \subseteq Marks /\ ran' \subseteq Marks
    BY <1>1, <1>6, <1>7 DEF RunOnFile, TypeOK
  <2>3. on_file' = TRUE
    BY <1>1, <1>7 DEF RunOnFile, TypeOK
  <2>4. TypeOK'
    BY <1>4, <2>1, <2>2, <2>3 DEF TypeOK, IsASetting
  <2>5. DiskInv'
    BY <1>5, <2>1, <2>3 DEF DiskInv, NothingLeftOnDisk
  <2> QED BY <1>3, <2>4, <2>5 DEF IInv
<1>8. CASE RunOnReplay(t, answer)
  <2>1. UNCHANGED <<on_file, home, file, sessions, dirs, stuck, over>> /\ ran' \subseteq Marks
    BY <1>1, <1>5, <1>2, <1>6, <1>8 DEF RunOnReplay, disk, Note
  <2>2. TypeOK'
    BY <1>1, <1>4, <2>1 DEF TypeOK, IsASetting
  <2>3. DiskInv'
    BY <1>1, <2>1 DEF DiskInv, NothingLeftOnDisk
  <2> QED BY <1>3, <2>2, <2>3 DEF IInv
<1>9. CASE FallBack(t, answer)
  <2>1. /\ DiskTypes'
        /\ dirs' \subseteq stuck' \cup {home'} /\ home' = 0 /\ home' \notin stuck'
        /\ on_file' = FALSE
    BY <1>1, <1>9, RemoveTypes DEF FallBack, LeaveTheFile
  <2>2. ran' \subseteq Marks
    BY <1>6, <1>9 DEF FallBack
  <2>3. TypeOK'
    BY <1>4, <2>1, <2>2 DEF TypeOK, DiskTypes, IsASetting
  <2>4. DiskInv'
    BY <2>1 DEF DiskInv, NothingLeftOnDisk
  <2> QED BY <1>3, <2>3, <2>4 DEF IInv
<1> QED BY <1>7, <1>8, <1>9

\* The steps that run no statement of the file.
LEMMA OtherSteps ==
  ASSUME IInv, NoHome \/ (\E t \in Asked : Accept(t)) \/ Reset \/ Drop
  PROVE  IInv'
<1>1. TypeOK /\ DiskInv /\ Ordered
  BY DEF IInv
<1>2. CASE NoHome
  <2>1. UNCHANGED <<wanted, on_file, home, file, history, settings, over, dirs, stuck, turn, ran>>
    BY <1>2 DEF NoHome, books
  <2>2. sessions' \in 0..MaxHomes /\ home \in 0..sessions' /\ dirs \subseteq 1..sessions'
    BY <1>1, <1>2, SessionAssumption DEF NoHome, TypeOK, SessionAssumption
  <2>3. TypeOK'
    BY <1>1, <1>2, <2>1, <2>2 DEF TypeOK, NoHome, Answers, IsASetting
  <2>4. DiskInv' /\ Ordered'
    BY <1>1, <2>1 DEF DiskInv, NothingLeftOnDisk, Ordered, ReplaysInOrder, Rising, UpTo, Held
  <2> QED BY <2>3, <2>4 DEF IInv
<1>3. ASSUME NEW t \in Asked, Accept(t) PROVE IInv'
  <2>0. t \in Texts
    BY SessionAssumption DEF SessionAssumption
  <2>1. UNCHANGED <<wanted, on_file, history, settings, over, turn, ran, said>>
    BY <1>3 DEF Accept, books
  <2>2. Here(t) \in Marks
    BY <1>1, <2>0, HereMark
  <2>3. Ordered'
    BY <1>1, <2>1, SMTT(30) DEF Ordered, ReplaysInOrder, Rising, UpTo, Held
  <2>4. CASE on_file
    <3>1. /\ sessions' \in 0..MaxHomes /\ home' \in 0..sessions'
          /\ dirs' \subseteq 1..sessions' /\ stuck' \subseteq dirs'
          /\ dirs' \subseteq stuck' \cup {home'} /\ home' \notin stuck'
      BY <1>1, <1>3, <2>4, HomeTypes DEF Accept
    <3>2. file' \subseteq Marks
      BY <1>1, <1>3, <2>2, <2>4 DEF Accept, TypeOK
    <3>3. TypeOK'
      BY <1>1, <2>1, <3>1, <3>2 DEF TypeOK, IsASetting
    <3>4. over' = FALSE
      BY <1>1, <1>3, <2>1 DEF Accept, TypeOK
    <3>5. DiskInv'
      BY <2>1, <2>4, <3>1, <3>4 DEF DiskInv, NothingLeftOnDisk
    <3> QED BY <2>3, <3>3, <3>5 DEF IInv
  <2>5. CASE ~on_file
    <3>1. UNCHANGED <<home, file, sessions, dirs, stuck>>
      BY <1>3, <2>5 DEF Accept, disk
    <3> QED BY <1>1, <2>1, <2>3, <3>1 DEF IInv, TypeOK, DiskInv, NothingLeftOnDisk, IsASetting
  <2> QED BY <2>4, <2>5
<1>4. CASE Reset \/ Drop
  <2>1. RemoveHome /\ UNCHANGED <<wanted, turn>> /\ ran' \subseteq Marks
    BY <1>1, <1>4 DEF Reset, Drop, TypeOK
  <2>2. /\ DiskTypes'
        /\ dirs' \subseteq stuck' \cup {home'} /\ home' = 0 /\ home' \notin stuck'
    BY <1>1, <2>1, RemoveTypes
  <2>3. on_file' \in BOOLEAN /\ over' \in BOOLEAN /\ said' \in Answers \cup {"nothing"}
    BY <1>1, <1>4 DEF Reset, Drop, TypeOK
  <2>4. DiskInv'
    BY <2>2 DEF DiskInv, NothingLeftOnDisk
  <2>5. CASE UNCHANGED <<history, settings>>
    <3>1. TypeOK'
      BY <1>1, <2>1, <2>2, <2>3, <2>5 DEF TypeOK, DiskTypes, IsASetting
    <3>2. Ordered'
      BY <1>1, <2>1, <2>5 DEF Ordered, ReplaysInOrder, Rising, UpTo, Held
    <3> QED BY <2>4, <3>1, <3>2 DEF IInv
  <2>6. CASE history' = <<>> /\ settings' = <<>>
    <3>1. <<>> \in Seq(Marks) /\ settings' \in Seq({m \in Marks : IsASetting(m.text)})
      <4> DEFINE S == {m \in Marks : IsASetting(m.text)}
      <4> HIDE DEF S
      <4>1. <<>> \in Seq(Marks) /\ <<>> \in Seq(S)
        OBVIOUS
      <4> QED BY <2>6, <4>1 DEF S
    <3>2. TypeOK'
      BY <1>1, <2>1, <2>2, <2>3, <2>6, <3>1 DEF TypeOK, DiskTypes, IsASetting
    <3>3. Len(<<>>) = 0 /\ 1..0 = {}
      OBVIOUS
    <3>4. Held(history') = {} /\ Held(settings') = {}
      BY <2>6, ReplayedEmpty
    <3>5. Rising(history') /\ Rising(settings') /\ UpTo(history', turn') /\ UpTo(settings', turn')
      BY <2>6, <3>3 DEF Rising, UpTo
    <3>6. Ordered'
      BY <3>4, <3>5 DEF Ordered, ReplaysInOrder, Rising, UpTo, Held
    <3> QED BY <2>4, <3>2, <3>6 DEF IInv
  <2> QED BY <1>4, <2>5, <2>6 DEF Reset, Drop, books
<1> QED BY <1>2, <1>3, <1>4

LEMMA StepIInv == IInv /\ [Next]_vars => IInv'
<1> SUFFICES ASSUME IInv, [Next]_vars PROVE IInv'
  OBVIOUS
<1>1. CASE \E t \in Texts, answer \in Answers :
             RunOnFile(t, answer) \/ RunOnReplay(t, answer) \/ FallBack(t, answer)
  BY <1>1, RunStep
<1>2. CASE NoHome \/ (\E t \in Asked : Accept(t)) \/ Reset \/ Drop
  BY <1>2, OtherSteps
<1>3. CASE UNCHANGED vars
  <2>1. UNCHANGED <<wanted, on_file, home, file, history, settings, over, sessions,
                    dirs, stuck, turn, ran, said>>
    BY <1>3 DEF vars
  <2>2. TypeOK'
    BY <2>1 DEF IInv, TypeOK, IsASetting
  <2>3. DiskInv'
    BY <2>1 DEF IInv, DiskInv, NothingLeftOnDisk
  <2>4. Ordered'
    BY <2>1 DEF IInv, Ordered, ReplaysInOrder, Rising, UpTo, Held
  <2> QED BY <2>2, <2>3, <2>4 DEF IInv
<1> QED BY <1>1, <1>2, <1>3 DEF Next

\* The invariant holds of every session, whatever statements it is given.
THEOREM Inductive == Spec => []IInv
<1>1. Init => IInv
  BY InitIInv
<1>2. IInv /\ [Next]_vars => IInv'
  BY StepIInv
<1> QED BY <1>1, <1>2, PTL DEF Spec

\* Every variable of a session keeps its type, and only settings are replayed in
\* front of a file: the fields of Session and what remember pushes on them.
THEOREM SessionTypes == Spec => []TypeOK
<1>1. IInv => TypeOK
  BY DEF IInv
<1> QED BY <1>1, Inductive, PTL

\* What is replayed is replayed in the order it ran, and the settings in front of
\* a file are exactly the history's: the two pushes of remember, and reset.
THEOREM ReplaysKeepOrder == Spec => []ReplaysInOrder
<1>1. IInv => ReplaysInOrder
  BY DEF IInv, Ordered
<1> QED BY <1>1, Inductive, PTL

\* Leaving the file, resetting and dropping leave no directory on disk that could
\* be removed: leave_the_file, reset and the destructor.
THEOREM SessionsCleanUp == Spec => []NothingLeftOnDisk
<1>1. IInv => NothingLeftOnDisk
  BY DEF IInv, DiskInv
<1> QED BY <1>1, Inductive, PTL

-----------------------------------------------------------------------------
(***************************************************************************)
(* Plain statements.  While a file carries the session it holds what the   *)
(* history left as data, and the history has nothing a file cannot keep,   *)
(* so what is left over is what the settings left.                         *)
(***************************************************************************)
Carried ==
  on_file /\ ~over =>
    /\ file = {m \in Replayed(history) : leaves[m.text] = "data"}
    /\ \A m \in Held(history) : FileKeepsIt(m.text)

\* Whatever is replayed, the next statement runs on what the history left.
LEMMA LeftIsHistory ==
  ASSUME Plain, IInv, Carried, ~over
  PROVE  Left = Replayed(history)
<1>1. history \in Seq(Marks) /\ Held(history) \subseteq Marks
  BY HeldMarks DEF IInv, TypeOK
<1>2. CASE ~on_file
  BY <1>2 DEF Left
<1>3. CASE on_file
  <2>1. Held(settings) = {m \in Held(history) : IsASetting(m.text)}
    BY DEF IInv, Ordered, ReplaysInOrder
  <2>2. \A m \in Held(history) : m.text \in Texts /\ FileKeepsIt(m.text)
    BY <1>1, <1>3 DEF Carried, Marks
  <2>3. \A t \in Texts :
          /\ leaves[t] = "process" /\ FileKeepsIt(t) => IsASetting(t)
          /\ IsASetting(t) => leaves[t] # "data"
          /\ leaves[t] \in {"nothing", "data", "process"}
    BY SessionAssumption DEF Plain, SessionAssumption, FileKeepsIt, IsASetting
  <2>4. \A m \in Held(history) :
          /\ leaves[m.text] = "process" => IsASetting(m.text)
          /\ IsASetting(m.text) => leaves[m.text] # "data"
          /\ leaves[m.text] \in {"nothing", "data", "process"}
    <3> SUFFICES ASSUME NEW m \in Held(history)
        PROVE  /\ leaves[m.text] = "process" => IsASetting(m.text)
               /\ IsASetting(m.text) => leaves[m.text] # "data"
               /\ leaves[m.text] \in {"nothing", "data", "process"}
      OBVIOUS
    <3>1. m.text \in Texts /\ FileKeepsIt(m.text)
      BY <2>2
    <3> QED BY <3>1, <2>3
  <2>5. file = {m \in Replayed(history) : leaves[m.text] = "data"}
    BY <1>3 DEF Carried
  <2>6. \A m : m \in Replayed(settings) <=>
               m \in Held(history) /\ IsASetting(m.text) /\ leaves[m.text] # "nothing"
    BY <2>1 DEF Replayed
  <2>8. \A m : m \in Replayed(history) <=>
               m \in Held(history) /\ leaves[m.text] # "nothing"
    BY DEF Replayed
  <2>7. Left = file \cup Replayed(settings)
    BY <1>3 DEF Left
  <2>9. \A m : m \in Left <=> m \in Replayed(history)
    <3> SUFFICES ASSUME NEW m PROVE m \in Left <=> m \in Replayed(history)
      OBVIOUS
    <3>1. m \in Left <=> m \in file \/ m \in Replayed(settings)
      BY <2>7
    <3>2. m \in file <=> m \in Held(history) /\ leaves[m.text] = "data"
      BY <2>5, <2>8
    <3> QED BY <3>1, <3>2, <2>4, <2>6, <2>8
  <2> QED BY <2>7, <2>9
<1> QED BY <1>2, <1>3

\* What a note of a plain statement adds to the replay is what the statement left.
LEMMA NoteReplay ==
  ASSUME Plain, TypeOK, NEW t \in Texts, NEW answer \in Answers,
         Note(t, answer), CanAnswer(t, answer)
  PROVE  /\ Replayed(history') = Replayed(history) \cup
              (IF answer # "refused" /\ leaves[t] # "nothing" THEN {Here(t)} ELSE {})
         /\ Held(history') \subseteq Held(history) \cup {Here(t)}
<1>1. Here(t) \in Marks /\ Here(t).text = t /\ history \in Seq(Marks)
  BY HereMark DEF TypeOK
<1>2. CASE answer = "ok" /\ ~prints[t]
  <2>1. history' = Append(history, Here(t))
    BY <1>2 DEF Note, Remember
  <2> QED BY <1>1, <1>2, <2>1, HeldAppend, ReplayedAppend
<1>3. CASE ~(answer = "ok" /\ ~prints[t])
  <2>1. history' = history
    BY <1>3 DEF Note, books
  <2>2. answer = "refused" \/ leaves[t] = "nothing"
    BY <1>3, SessionAssumption DEF Answers, CanAnswer, Plain, SessionAssumption
  <2> QED BY <2>1, <2>2
<1> QED BY <1>2, <1>3

LEMMA CarriedStep ==
  ASSUME Plain, IInv, Carried, [Next]_vars
  PROVE  Carried'
<1>1. TypeOK
  BY DEF IInv
<1>2. ASSUME NEW t \in Texts, NEW answer \in Answers, RunOnFile(t, answer)
      PROVE  Carried'
  <2>1. /\ on_file /\ ~over /\ FileKeepsIt(t)
        /\ Note(t, answer) /\ CanAnswer(t, answer)
    BY <1>2 DEF RunOnFile, Ready
  <2>2. Here(t).text = t
    BY <1>1, HereMark
  <2>3. /\ Replayed(history') = Replayed(history) \cup
              (IF answer # "refused" /\ leaves[t] # "nothing" THEN {Here(t)} ELSE {})
        /\ Held(history') \subseteq Held(history) \cup {Here(t)}
    BY <1>1, <2>1, NoteReplay
  <2>4. file' = IF answer # "refused" /\ leaves[t] = "data"
                THEN file \cup {Here(t)} ELSE file
    <3>1. t \in Torn => leaves[t] = "nothing"
      BY DEF Plain
    <3> QED BY <1>2, <3>1 DEF RunOnFile, Landed
  <2>5. file' = {m \in Replayed(history') : leaves[m.text] = "data"}
    BY <2>1, <2>2, <2>3, <2>4 DEF Carried
  <2>6. \A m \in Held(history') : FileKeepsIt(m.text)
    BY <2>1, <2>2, <2>3 DEF Carried
  <2> QED BY <2>5, <2>6 DEF Carried, Replayed, Held, FileKeepsIt
<1>3. ASSUME NEW t \in Texts, NEW answer \in Answers,
             RunOnReplay(t, answer) \/ FallBack(t, answer)
      PROVE  Carried'
  BY <1>1, <1>3 DEF RunOnReplay, FallBack, LeaveTheFile, Carried
<1>4. ASSUME NEW t \in Asked, Accept(t)
      PROVE  Carried'
  <2>1. leaves[t] = "nothing"
    BY DEF Plain
  <2>2. UNCHANGED <<file, history, on_file, over>>
    BY <1>4, <2>1 DEF Accept, books, disk
  <2> QED BY <2>2 DEF Carried, Replayed, Held, FileKeepsIt
<1>5. CASE NoHome
  BY <1>5 DEF NoHome, books, Carried, Replayed, Held, FileKeepsIt
<1>6. CASE Reset
  <2>1. file' = {} /\ Replayed(history') = {} /\ Held(history') = {}
    BY <1>6, ReplayedEmpty DEF Reset, RemoveHome
  <2> QED BY <2>1 DEF Carried, Replayed, Held, FileKeepsIt
<1>7. CASE Drop
  BY <1>7 DEF Drop, Carried
<1>8. CASE UNCHANGED vars
  BY <1>8 DEF vars, Carried, Replayed, Held, FileKeepsIt
<1> QED BY <1>2, <1>3, <1>4, <1>5, <1>6, <1>7, <1>8 DEF Next

LEMMA InitCarried == Init => Carried
<1> SUFFICES ASSUME Init PROVE Carried
  OBVIOUS
<1>1. file = {} /\ history = <<>>
  BY DEF Init
<1> QED BY <1>1, ReplayedEmpty DEF Carried

\* For plain statements all that the file holds is in the history, whenever the
\* session falls back: the comment on leave_the_file.
THEOREM NothingIsLostToTheFile ==
  ASSUME Plain
  PROVE  Spec => []HistoryHoldsTheFile
<1>1. Init => IInv /\ Carried
  BY InitIInv, InitCarried
<1>2. IInv /\ Carried /\ [Next]_vars => (IInv /\ Carried)'
  BY StepIInv, CarriedStep
<1>3. Carried => HistoryHoldsTheFile
  BY DEF Carried, HistoryHoldsTheFile
<1> QED BY <1>1, <1>2, <1>3, PTL DEF Spec

-----------------------------------------------------------------------------
(***************************************************************************)
(* A session of plain statements is one engine that stays up: the next     *)
(* statement runs on what the history left, whichever way it is replayed,  *)
(* and so every step of a session is a step of LiveSession or none at all. *)
(***************************************************************************)
Whole == ~over => Left = Replayed(history)

\* A statement that is run, on a file, on a replay or in falling back, runs on all
\* that was left and adds what it leaves.
LEMMA RunIsLive ==
  ASSUME Plain, IInv, Whole, Whole',
         NEW t \in Texts, NEW answer \in Answers,
         RunOnFile(t, answer) \/ RunOnReplay(t, answer) \/ FallBack(t, answer)
  PROVE  Live!Run(t, answer)
<1>1. TypeOK /\ Note(t, answer) /\ CanAnswer(t, answer) /\ ~over /\ ~over'
  BY DEF IInv, RunOnFile, RunOnReplay, FallBack, Ready, Note
<1>2. ran' = Left
  <2>1. CASE RunOnFile(t, answer)
    BY <1>1, <2>1 DEF RunOnFile, Left
  <2>2. CASE RunOnReplay(t, answer)
    BY <1>1, <2>2 DEF RunOnReplay, Left
  <2>3. CASE FallBack(t, answer)
    BY <1>1, <2>3 DEF FallBack, Whole
  <2> QED BY <2>1, <2>2, <2>3
<1>3. Left' = Left \cup
               (IF answer # "refused" /\ leaves[t] # "nothing" THEN {Here(t)} ELSE {})
  BY <1>1, NoteReplay DEF Whole
<1>4. Live!Mark(t) = IF leaves[t] # "nothing" THEN {Here(t)} ELSE {}
  BY DEF Live!Mark, Here
<1>5. Left' = IF answer = "refused" THEN Left ELSE Left \cup Live!Mark(t)
  BY <1>3, <1>4
<1>6. said' = answer /\ turn' = turn + 1
  BY <1>1 DEF Note
<1> QED BY <1>2, <1>5, <1>6 DEF Live!Run

LEMMA StepIsLive ==
  ASSUME Plain, IInv, Whole, Whole', [Next]_vars
  PROVE  [Live!Next]_(Live!vars)
<1>1. ASSUME NEW t \in Texts, NEW answer \in Answers,
             RunOnFile(t, answer) \/ RunOnReplay(t, answer) \/ FallBack(t, answer)
      PROVE  Live!Next
  <2>1. Live!Run(t, answer)
    BY <1>1, RunIsLive
  <2> QED BY <2>1 DEF Live!Next, Answers
<1>2. CASE NoHome
  <2>1. UNCHANGED <<wanted, on_file, file, history, settings, over, turn, ran>>
    BY <1>2 DEF NoHome, books
  <2>2. UNCHANGED Left
    BY <2>1 DEF Left, Replayed, Held
  <2>3. Live!Break
    BY <1>2, <2>1, <2>2 DEF NoHome, Live!Break
  <2> QED BY <2>3 DEF Live!Next
<1>3. ASSUME NEW t \in Asked, Accept(t)
      PROVE  UNCHANGED Live!vars
  <2>1. leaves[t] = "nothing"
    BY DEF Plain
  <2>2. UNCHANGED <<file, history, settings, on_file, over, turn, ran, said>>
    BY <1>3, <2>1 DEF Accept, books, disk
  <2>3. UNCHANGED Left
    BY <2>2 DEF Left, Replayed, Held
  <2> QED BY <2>2, <2>3 DEF Live!vars
<1>4. CASE Reset
  <2>1. file' = {} /\ history' = <<>> /\ settings' = <<>> /\ ran' = {}
        /\ said' = "nothing" /\ UNCHANGED turn
    BY <1>4 DEF Reset, RemoveHome
  <2>2. Replayed(history') = {} /\ Replayed(settings') = {}
    BY <2>1, ReplayedEmpty
  <2>3. Left' = {}
    BY <2>1, <2>2 DEF Left
  <2>4. Live!Reset
    BY <2>1, <2>3 DEF Live!Reset
  <2> QED BY <2>4 DEF Live!Next
<1>5. CASE Drop
  <2>1. Left' = {} /\ UNCHANGED <<ran, said, turn>>
    BY <1>5 DEF Drop, Left
  <2>2. Live!Close
    BY <2>1 DEF Live!Close
  <2> QED BY <2>2 DEF Live!Next
<1>6. CASE UNCHANGED vars
  <2>1. UNCHANGED <<file, history, settings, on_file, over, turn, ran, said>>
    BY <1>6 DEF vars
  <2>2. UNCHANGED Left
    BY <2>1 DEF Left, Replayed, Held
  <2> QED BY <2>1, <2>2 DEF Live!vars
<1> QED BY <1>1, <1>2, <1>3, <1>4, <1>5, <1>6 DEF Next

\* Over any plain statements, in any order, with any failures, fallbacks and
\* resets, a process per statement cannot be told from one engine kept up: run,
\* primed, leave_the_file, remember, reset and accepts together.
THEOREM SessionStaysUp ==
  ASSUME Plain
  PROVE  Spec => StaysUp
<1>1. Init => IInv /\ Carried
  BY InitIInv, InitCarried
<1>2. IInv /\ Carried /\ [Next]_vars => (IInv /\ Carried)'
  BY StepIInv, CarriedStep
<1>3. IInv /\ Carried => Whole
  BY LeftIsHistory DEF Whole
<1>4. Init => Live!Init
  BY ReplayedEmpty DEF Init, Left, Live!Init
<1>5. IInv /\ Whole /\ Whole' /\ [Next]_vars => [Live!Next]_(Live!vars)
  BY StepIsLive
<1> QED BY <1>1, <1>2, <1>3, <1>4, <1>5, PTL DEF Spec, StaysUp, Live!Spec

\* A session is on a file only if one was asked for.
AskedFor == on_file => wanted

LEMMA StepAskedFor == TypeOK /\ AskedFor /\ [Next]_vars => AskedFor'
<1> SUFFICES ASSUME TypeOK, AskedFor, [Next]_vars PROVE AskedFor'
  OBVIOUS
<1>1. ASSUME NEW t \in Texts, NEW answer \in Answers,
             RunOnFile(t, answer) \/ RunOnReplay(t, answer) \/ FallBack(t, answer)
      PROVE  AskedFor'
  BY <1>1 DEF RunOnFile, RunOnReplay, FallBack, LeaveTheFile, Note, AskedFor
<1>2. ASSUME NEW t \in Asked, Accept(t) PROVE AskedFor'
  BY <1>2 DEF Accept, AskedFor
<1>3. CASE NoHome \/ Reset \/ Drop \/ UNCHANGED vars
  BY <1>3 DEF NoHome, Reset, Drop, vars, AskedFor
<1> QED BY <1>1, <1>2, <1>3 DEF Next

\* For plain statements the one that makes the session leave its file runs on
\* what the file was holding and the settings in front of it: leave_the_file.
THEOREM FallingBackRebuilds ==
  ASSUME Plain
  PROVE  Spec => FallBackRebuilds
<1>1. Init => IInv /\ Carried /\ AskedFor
  BY InitIInv, InitCarried DEF Init, AskedFor
<1>2. IInv /\ Carried /\ AskedFor /\ [Next]_vars => (IInv /\ Carried /\ AskedFor)'
  BY StepIInv, CarriedStep, StepAskedFor DEF IInv
<1>3. IInv /\ Carried /\ AskedFor /\ [Next]_vars =>
        [on_file /\ ~on_file' => ran' = file \cup Replayed(settings)]_vars
  <2> SUFFICES ASSUME IInv, Carried, AskedFor, Next, on_file, ~on_file'
      PROVE  ran' = file \cup Replayed(settings)
    BY DEF vars
  <2>1. PICK t \in Texts, answer \in Answers : FallBack(t, answer)
    BY DEF Next, RunOnFile, RunOnReplay, NoHome, Accept, Reset, Drop, IInv, TypeOK, AskedFor
  <2>2. ~over /\ ran' = Replayed(history)
    BY <2>1 DEF FallBack, Ready
  <2>3. Left = Replayed(history)
    BY <2>2, LeftIsHistory
  <2> QED BY <2>2, <2>3 DEF Left
<1> QED BY <1>1, <1>2, <1>3, PTL DEF Spec, FallBackRebuilds
=============================================================================
