--------------------------------- MODULE Cuts ---------------------------------
(***************************************************************************)
(* What the reducer tries to take out of a statement: `cuts` of reduce.rs. *)
(*                                                                         *)
(* A statement is the sequence of its words.  Spaces are left out; a       *)
(* comment is a word that is no token, so nothing is cut out at one and    *)
(* whatever is cut around it takes it along.                               *)
(***************************************************************************)
EXTENDS Naturals, Sequences, SequencesExt, FiniteSetsExt, Sublists

CONSTANTS
  Clauses,     (* CLAUSES: the words a clause may start with.              *)
  Introduces,  (* INTRODUCES: the words an item never begins with.         *)
  Conjunctions,(* The two words that join conditions.                      *)
  Numbers,     (* The words that are numbers.                              *)
  Texts,       (* The words that are strings with something in them.       *)
  Comments     (* The words that are comments.                             *)

\* Some places of a statement, in order.
InOrder(places) == [k \in 1..Cardinality(places) |-> Nth(places, k)]

\* The places of the tokens of a statement.
Meant(s)  == {i \in DOMAIN s : s[i] \notin Comments}
Tokens(s) == InOrder(Meant(s))

\* How many brackets each place is inside of; a bracket is outside its own.
Depth(s) ==
  LET After[i \in 0..Len(s)] ==
        CASE i = 0                    -> 0
          [] i > 0 /\ s[i] = "("      -> After[i - 1] + 1
          [] i > 0 /\ s[i] = ")"      -> IF After[i - 1] = 0 THEN 0 ELSE After[i - 1] - 1
          [] OTHER                    -> After[i - 1]
  IN  [i \in DOMAIN s |-> IF s[i] = "(" THEN After[i] - 1 ELSE After[i]]

\* A statement with a cut in it.
With(s, first, last, word) == SubSeq(s, 1, first - 1) \o word \o SubSeq(s, last + 1, Len(s))
Without(s, first, last)    == With(s, first, last, <<>>)

-----------------------------------------------------------------------------
\* A clause and the ones after it, then the clause alone.
DropClauses(s) ==
  LET depth == Depth(s)
      starts == InOrder({i \in Meant(s) : depth[i] = 0 /\ s[i] \in Clauses})
      End(k) == IF k < Len(starts) THEN starts[k + 1] - 1 ELSE Len(s)
      Both(k) == (IF k < Len(starts) THEN <<Without(s, starts[k], Len(s))>> ELSE <<>>)
                   \o <<Without(s, starts[k], End(k))>>
  IN  FlattenSeq([k \in DOMAIN starts |-> Both(k)])

\* A bracketed group as a constant, then each of its brackets off.
DropGroups(s) ==
  LET depth == Depth(s)
      Closes(i) == {j \in i + 1 .. Len(s) : s[j] = ")" /\ depth[j] = depth[i]}
      Group(i) ==
        IF s[i] # "(" \/ Closes(i) = {} THEN <<>>
        ELSE LET j == Min(Closes(i)) IN
             <<With(s, i, j, <<"1">>), Without(s, j, j), Without(s, i, i)>>
  IN  FlattenSeq([i \in DOMAIN s |-> Group(i)])

\* Mutant: stops one halving early, at runs of two.
WidthsOverOne(n) ==
  LET Halves[w \in 0..n] == IF w <= 1 THEN <<>> ELSE <<w>> \o Halves[w \div 2]
  IN  Halves[n \div 2]

\* The lengths a run of tokens is taken out in: half of them, and halves of that.
Widths(n) ==
  LET Halves[w \in 0..n] == IF w = 0 THEN <<>> ELSE <<w>> \o Halves[w \div 2]
  IN  Halves[n \div 2]

DropRuns(s) ==
  LET toks == Tokens(s)
      widths == Widths(Len(toks))
      OfWidth(w) == [start \in 1 .. Len(toks) - w + 1 |->
                       Without(s, toks[start], toks[start + w - 1])]
  IN  FlattenSeq([k \in DOMAIN widths |-> OfWidth(widths[k])])

\* An item of a list or one side of an `and`, with its separator.
DropItems(s) ==
  LET toks == Tokens(s)
      depth == Depth(s)
      Word(n) == s[toks[n]]
      Level(n) == depth[toks[n]]
      Boundary(n) == Word(n) \in Clauses \cup Introduces
      Joins(n) == Word(n) = "," \/ Word(n) \in Conjunctions
      Stops(k, n) == Level(k) < Level(n) \/ (Level(k) = Level(n) /\ (Boundary(k) \/ Joins(k)))
      Left(n)  == Min({l \in 1..n : \A k \in l .. n - 1 : ~Stops(k, n)})
      Right(n) == Max({r \in n..Len(toks) : \A k \in n + 1 .. r : ~Stops(k, n)})
      Sides(n) ==
        IF ~Joins(n) THEN <<>>
        ELSE (IF Left(n) < n THEN <<Without(s, toks[Left(n)], toks[n])>> ELSE <<>>)
               \o (IF Right(n) > n THEN <<Without(s, toks[n], toks[Right(n)])>> ELSE <<>>)
  IN  FlattenSeq([n \in DOMAIN toks |-> Sides(n)])

\* A string emptied, a number made zero.
ShrinkLiterals(s) ==
  LET Shrunk(i) ==
        CASE s[i] \in Texts               -> <<With(s, i, i, <<"''">>)>>
          [] s[i] \in Numbers \ {"0"}     -> <<With(s, i, i, <<"0">>)>>
          [] OTHER                        -> <<>>
  IN  FlattenSeq([i \in DOMAIN s |-> Shrunk(i)])

-----------------------------------------------------------------------------
\* `cuts`, in the order they are tried.
CutsOf(s) ==
  DropClauses(s) \o DropGroups(s) \o DropRuns(s) \o DropItems(s) \o ShrinkLiterals(s)

\* `tidy`: the comments go.
Tidied(s) == Sublist(s, Meant(s))
=============================================================================
