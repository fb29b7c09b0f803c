----------------------------- MODULE Books_proofs -----------------------------
(***************************************************************************)
(* What is counted is right, for every function table, corpus, list of     *)
(* statements, benchmark and book, and whatever the engines answer and     *)
(* cost.  The invariant behind each of the properties is what the program  *)
(* has between two of its steps, and a lemma from it to the property does  *)
(* the counting.  Nothing is folded or recursive: the place of a value in  *)
(* order is how many are ahead of it, a depth of brackets is a difference  *)
(* of two cardinalities, what holds up to a first word is had from the     *)
(* least one where it does not, and the rows of a run stand in a stretch.  *)
(***************************************************************************)
EXTENDS Books, Sublists, FiniteSetTheorems, SequenceTheorems, WellFoundedInduction, TLAPS

-----------------------------------------------------------------------------
(***************************************************************************)
(* Facts about numbers and lists.                                          *)
(***************************************************************************)
\* An induction over numbers is an argument about the least counterexample.
LEMMA LeastNat ==
  ASSUME NEW T, T \subseteq Nat, T # {}
  PROVE  \E x \in T : \A y \in T : x <= y
<1>1. IsWellFoundedOn(OpToRel(<, Nat), Nat)
  BY NatLessThanWellFounded
<1>2. PICK x \in T : \A y \in T : ~(<<y, x>> \in OpToRel(<, Nat))
  BY <1>1, WFMin
<1>3. \A y \in T : ~(y < x)
  BY <1>2 DEF OpToRel
<1> QED BY <1>3

LEMMA Listed ==
  ASSUME NEW s, IsList(s)
  PROVE  /\ Len(s) \in Nat /\ DOMAIN s = 1..Len(s)
         /\ s = [i \in 1..Len(s) |-> s[i]]
BY DEF IsList

LEMMA IsListOf ==
  ASSUME NEW S, NEW s \in Seq(S)
  PROVE  IsList(s)
<1>1. \A i \in 1..Len(s) : s[i] \in Range(s)
  BY DEF Range
<1> QED BY <1>1 DEF IsList

LEMMA NothingListed == IsList(<<>>) /\ DOMAIN <<>> = {} /\ Len(<<>>) = 0
<1>1. <<>> \in Seq({})
  OBVIOUS
<1>2. IsList(<<>>)
  BY <1>1, IsListOf
<1>3. DOMAIN <<>> = {} /\ Len(<<>>) = 0
  OBVIOUS
<1> QED BY <1>2, <1>3

LEMMA Appended ==
  ASSUME NEW s, IsList(s), NEW x
  PROVE  /\ IsList(Append(s, x)) /\ Len(Append(s, x)) = Len(s) + 1
         /\ DOMAIN Append(s, x) = 1..(Len(s) + 1)
         /\ \A i \in 1..(Len(s) + 1) : Append(s, x)[i] = IF i <= Len(s) THEN s[i] ELSE x
<1> DEFINE E == Range(s) \cup {x}
<1>1. s \in Seq(E) /\ x \in E
  <2>1. s \in Seq(Range(s)) /\ Range(s) \subseteq E
    BY DEF IsList
  <2> HIDE DEF E
  <2>2. s \in Seq(E)
    BY <2>1
  <2> QED BY <2>2 DEF E
<1> HIDE DEF E
<1>2. Append(s, x) \in Seq(E)
  BY <1>1
<1>3. IsList(Append(s, x))
  BY <1>2, IsListOf
<1>4. /\ Len(Append(s, x)) = Len(s) + 1 /\ DOMAIN Append(s, x) = 1..(Len(s) + 1)
      /\ \A i \in 1..(Len(s) + 1) : Append(s, x)[i] = IF i <= Len(s) THEN s[i] ELSE x
  BY <1>1
<1> QED BY <1>3, <1>4

\* The modules of the instances have definitions of their own for the same things.
LEMMA SameCardinality ==
  ASSUME NEW S
  PROVE  /\ TheCoverage!Cardinality(S) = Cardinality(S)
         /\ ThePages!Cardinality(S) = Cardinality(S)
         /\ TheSuite!Cardinality(S) = Cardinality(S)
         /\ TheSpend!Cardinality(S) = Cardinality(S)
         /\ TheBenchmarks!Cardinality(S) = Cardinality(S)
BY DEF TheCoverage!Cardinality, ThePages!Cardinality, TheSuite!Cardinality,
       TheSpend!Cardinality, TheBenchmarks!Cardinality, Cardinality

\* Whether something is in a list, which it stays when the list goes on.
In(x, s) == \E p \in 1..Len(s) : s[p] = x

LEMMA InTheWhole ==
  ASSUME NEW E, NEW s \in Seq(E), NEW t \in Seq(E)
  PROVE  s \o t \in Seq(E) /\ \A x : In(x, s) \/ In(x, t) => In(x, s \o t)
<1>1. /\ s \o t \in Seq(E) /\ Len(s \o t) = Len(s) + Len(t)
      /\ \A p \in 1..Len(s) : (s \o t)[p] = s[p]
      /\ \A k \in 1..Len(t) : (s \o t)[Len(s) + k] = t[k]
      /\ Len(s) \in Nat /\ Len(t) \in Nat
  OBVIOUS
<1>2. ASSUME NEW x, In(x, s) PROVE In(x, s \o t)
  <2>1. PICK p \in 1..Len(s) : s[p] = x
    BY <1>2 DEF In
  <2>2. p \in 1..Len(s \o t) /\ (s \o t)[p] = x
    BY <1>1, <2>1
  <2> QED BY <2>2 DEF In
<1>3. ASSUME NEW x, In(x, t) PROVE In(x, s \o t)
  <2>1. PICK p \in 1..Len(t) : t[p] = x
    BY <1>3 DEF In
  <2>2. Len(s) + p \in 1..Len(s \o t) /\ (s \o t)[Len(s) + p] = x
    BY <1>1, <2>1
  <2> QED BY <2>2 DEF In
<1> QED BY <1>1, <1>2, <1>3

\* The places that are kept, in their order: every one of them has a number, and the
\* numbers go up with the places.
Before(I, i) == {j \in I : j < i}

LEMMA BeforeGrows ==
  ASSUME NEW I, IsFiniteSet(I), I \subseteq Nat, NEW i \in I
  PROVE  /\ IsFiniteSet(Before(I, i)) /\ Cardinality(Before(I, i)) + 1 \in 1..Cardinality(I)
         /\ \A j \in I : i < j => Cardinality(Before(I, i)) < Cardinality(Before(I, j))
<1>1. \A j \in I : /\ IsFiniteSet(Before(I, j)) /\ Cardinality(Before(I, j)) \in Nat
                   /\ j \notin Before(I, j) /\ Before(I, j) \subseteq I
  <2> SUFFICES ASSUME NEW j \in I
               PROVE  /\ IsFiniteSet(Before(I, j)) /\ Cardinality(Before(I, j)) \in Nat
                      /\ j \notin Before(I, j) /\ Before(I, j) \subseteq I
    OBVIOUS
  <2>1. Before(I, j) \in SUBSET I /\ j \notin Before(I, j)
    BY DEF Before
  <2> QED BY <2>1, FS_Subset, FS_CardinalityType
<1>2. /\ IsFiniteSet(Before(I, i) \cup {i})
      /\ Cardinality(Before(I, i) \cup {i}) = Cardinality(Before(I, i)) + 1
  BY <1>1, FS_AddElement
<1>3. Before(I, i) \cup {i} \in SUBSET I
  BY <1>1
<1>4. Cardinality(Before(I, i)) + 1 <= Cardinality(I) /\ Cardinality(I) \in Nat
  BY <1>2, <1>3, FS_Subset, FS_CardinalityType
<1>5. ASSUME NEW j \in I, i < j
      PROVE  Cardinality(Before(I, i)) < Cardinality(Before(I, j))
  <2>1. Before(I, i) \cup {i} \in SUBSET Before(I, j)
    <3>1. \A x \in Before(I, i) : x \in I /\ x < i
      BY DEF Before
    <3>a. i \in Nat /\ j \in Nat /\ \A x \in Before(I, i) : x \in Nat
      BY <3>1
    <3>2. \A x \in Before(I, i) \cup {i} : x \in I /\ x < j
      BY <1>5, <3>1, <3>a
    <3> QED BY <3>2 DEF Before
  <2>2. Cardinality(Before(I, i) \cup {i}) <= Cardinality(Before(I, j))
    BY <1>1, <2>1, FS_Subset
  <2> QED BY <1>1, <1>2, <2>2
<1> QED BY <1>1, <1>4, <1>5

LEMMA NthIs ==
  ASSUME NEW I, IsFiniteSet(I), I \subseteq Nat
  PROVE  /\ Cardinality(I) \in Nat
         /\ \A k \in 1..Cardinality(I) :
              Nth(I, k) \in I /\ Cardinality(Before(I, Nth(I, k))) = k - 1
         /\ \A i \in I : \E k \in 1..Cardinality(I) : Nth(I, k) = i
         /\ \A k, m \in 1..Cardinality(I) : k < m <=> Nth(I, k) < Nth(I, m)
<1> DEFINE n == Cardinality(I)
           rank == [i \in I |-> Cardinality(Before(I, i)) + 1]
<1>1. n \in Nat
  BY FS_CardinalityType
<1>2. \A i \in I : /\ rank[i] \in 1..n /\ Cardinality(Before(I, i)) = rank[i] - 1
                   /\ \A j \in I : i < j => rank[i] < rank[j]
  <2>1. \A i \in I : Cardinality(Before(I, i)) \in Nat
    BY BeforeGrows, FS_CardinalityType
  <2>2. \A i \in I : Cardinality(Before(I, i)) + 1 \in 1..n
    BY BeforeGrows
  <2>3. \A i, j \in I : i < j => Cardinality(Before(I, i)) < Cardinality(Before(I, j))
    BY BeforeGrows
  <2> HIDE DEF n
  <2> QED BY <2>1, <2>2, <2>3
<1>3. rank \in [I -> 1..n]
  BY <1>2
<1> HIDE DEF rank
<1>4. \A i, j \in I : rank[i] = rank[j] => i = j
  <2>1. \A i \in I : rank[i] \in Nat
    BY <1>1, <1>2
  <2>2. \A i, j \in I : i < j \/ j < i \/ i = j
    OBVIOUS
  <2>3. \A i, j \in I : i < j => rank[i] < rank[j]
    BY <1>2
  <2> QED BY <2>1, <2>2, <2>3
<1>5. rank \in Injection(I, 1..n)
  BY <1>3, <1>4 DEF Injection, IsInjective
<1>6. IsFiniteSet(1..n) /\ Cardinality(1..n) = n
  BY <1>1, FS_Interval
<1>7. rank \in Surjection(I, 1..n)
  BY <1>5, <1>6, FS_Injection
<1>8. \A k \in 1..n : \E i \in I : rank[i] = k
  BY <1>7 DEF Surjection
<1>9. \A k \in 1..n : Nth(I, k) \in I /\ Cardinality(Before(I, Nth(I, k))) = k - 1
  <2> SUFFICES ASSUME NEW k \in 1..n
               PROVE  Nth(I, k) \in I /\ Cardinality(Before(I, Nth(I, k))) = k - 1
    OBVIOUS
  <2>1. \E i \in I : Cardinality(Before(I, i)) = k - 1
    BY <1>2, <1>8
  <2>2. Nth(I, k) = CHOOSE i \in I : Cardinality(Before(I, i)) = k - 1
    BY DEF Nth, Before
  <2> QED BY <2>1, <2>2
<1>10. \A k \in 1..n : Nth(I, k) \in I /\ rank[Nth(I, k)] = k
  <2>1. \A k \in 1..n : rank[Nth(I, k)] \in 1..n /\ rank[Nth(I, k)] - 1 = k - 1
    BY <1>2, <1>9
  <2> QED BY <1>1, <1>9, <2>1
<1>11. \A i \in I : rank[i] \in 1..n /\ Nth(I, rank[i]) = i
  BY <1>2, <1>4, <1>10
<1>12. \A k, m \in 1..n : k < m <=> Nth(I, k) < Nth(I, m)
  <2> SUFFICES ASSUME NEW k \in 1..n, NEW m \in 1..n
               PROVE  k < m <=> Nth(I, k) < Nth(I, m)
    OBVIOUS
  <2> DEFINE x == Nth(I, k)
             y == Nth(I, m)
  <2>1. x \in I /\ y \in I /\ rank[x] = k /\ rank[y] = m
    BY <1>10
  <2>a. k \in Nat /\ m \in Nat
    BY <1>1
  <2>2. x \in Nat /\ y \in Nat /\ k \in Nat /\ m \in Nat
    BY <2>1, <2>a
  <2>3. (x < y => k < m) /\ (y < x => m < k) /\ (x = y => k = m)
    BY <1>2, <2>1
  <2> HIDE DEF x, y
  <2> QED BY <2>2, <2>3 DEF x, y
<1> QED BY <1>1, <1>9, <1>11, <1>12

LEMMA SublistIs ==
  ASSUME NEW s, IsList(s), NEW I, I \subseteq DOMAIN s
  PROVE  /\ IsList(Sublist(s, I))
         /\ Len(Sublist(s, I)) = Cardinality(I) /\ Cardinality(I) \in Nat /\ IsFiniteSet(I)
         /\ \A k \in 1..Cardinality(I) : Nth(I, k) \in I /\ Sublist(s, I)[k] = s[Nth(I, k)]
<1>1. Len(s) \in Nat /\ DOMAIN s = 1..Len(s)
  BY Listed
<1>2. IsFiniteSet(I) /\ I \subseteq Nat
  <2>1. IsFiniteSet(1..Len(s))
    BY <1>1, FS_Interval
  <2> QED BY <1>1, <2>1, FS_Subset
<1>3. Cardinality(I) \in Nat /\ \A k \in 1..Cardinality(I) : Nth(I, k) \in I
  BY <1>2, NthIs
<1> DEFINE n == Cardinality(I)
<1> HIDE DEF n
<1>4. Sublist(s, I) = [k \in 1..n |-> s[Nth(I, k)]]
  BY DEF Sublist, n
<1>5. n \in Nat /\ \A k \in 1..n : Nth(I, k) \in I /\ s[Nth(I, k)] \in Range(s)
  BY <1>3 DEF n, Range
<1>6. Sublist(s, I) \in Seq(Range(s)) /\ Len(Sublist(s, I)) = n
  BY <1>4, <1>5
<1>7. \A k \in 1..n : Sublist(s, I)[k] = s[Nth(I, k)]
  BY <1>4
<1> QED BY <1>2, <1>5, <1>6, <1>7, IsListOf DEF n

LEMMA SublistOf ==
  ASSUME NEW s, IsList(s), NEW I, I \subseteq DOMAIN s
  PROVE  /\ IsList(Sublist(s, I))
         /\ \A k \in DOMAIN Sublist(s, I) : \E i \in I : Sublist(s, I)[k] = s[i]
<1>1. DOMAIN Sublist(s, I) = 1..Cardinality(I)
  BY DEF Sublist
<1> QED BY <1>1, SublistIs

\* The places of a list, in the order of a stable sort.
LEMMA PlacedIs ==
  ASSUME NEW keys, IsList(keys), \A i \in DOMAIN keys : keys[i] \in Int
  PROVE  /\ \A k \in 1..Len(keys) :
              Placed(keys, k) \in DOMAIN keys
              /\ IsFiniteSet(Ahead(keys, Placed(keys, k)))
              /\ Cardinality(Ahead(keys, Placed(keys, k))) = k - 1
         /\ \A k, m \in 1..Len(keys) : k <= m => keys[Placed(keys, k)] <= keys[Placed(keys, m)]
<1> DEFINE n == Len(keys)
           rank == [i \in DOMAIN keys |-> Cardinality(Ahead(keys, i)) + 1]
           First(i, j) == keys[i] < keys[j] \/ (keys[i] = keys[j] /\ i < j)
<1>1. n \in Nat /\ DOMAIN keys = 1..n
  BY Listed
<1>2. IsFiniteSet(1..n) /\ Cardinality(1..n) = n
  BY <1>1, FS_Interval, SMTT(30)
<1>3. \A i \in 1..n : /\ IsFiniteSet(Ahead(keys, i)) /\ Cardinality(Ahead(keys, i)) \in Nat
                      /\ i \notin Ahead(keys, i)
                      /\ Ahead(keys, i) \cup {i} \in SUBSET (1..n)
                      /\ \A j \in 1..n : j \in Ahead(keys, i) <=> First(j, i)
  <2> SUFFICES ASSUME NEW i \in 1..n
               PROVE  /\ IsFiniteSet(Ahead(keys, i)) /\ Cardinality(Ahead(keys, i)) \in Nat
                      /\ i \notin Ahead(keys, i)
                      /\ Ahead(keys, i) \cup {i} \in SUBSET (1..n)
                      /\ \A j \in 1..n : j \in Ahead(keys, i) <=> First(j, i)
    OBVIOUS
  <2>1. Ahead(keys, i) \in SUBSET (1..n) /\ i \notin Ahead(keys, i)
    BY <1>1 DEF Ahead
  <2>2. \A j \in 1..n : j \in Ahead(keys, i) <=> First(j, i)
    BY <1>1 DEF Ahead
  <2> QED BY <1>2, <2>1, <2>2, FS_Subset, FS_CardinalityType
<1>4. \A i \in 1..n : /\ IsFiniteSet(Ahead(keys, i) \cup {i})
                      /\ Cardinality(Ahead(keys, i) \cup {i}) = Cardinality(Ahead(keys, i)) + 1
  BY <1>3, FS_AddElement
<1>5. \A i \in 1..n : rank[i] \in 1..n /\ Cardinality(Ahead(keys, i)) = rank[i] - 1
  <2> SUFFICES ASSUME NEW i \in 1..n
               PROVE  rank[i] \in 1..n /\ Cardinality(Ahead(keys, i)) = rank[i] - 1
    OBVIOUS
  <2>1. Cardinality(Ahead(keys, i) \cup {i}) <= n
    BY <1>2, <1>3, FS_Subset
  <2>2. rank[i] = Cardinality(Ahead(keys, i)) + 1
    BY <1>1
  <2>3. Cardinality(Ahead(keys, i)) \in Nat /\ Cardinality(Ahead(keys, i)) + 1 <= n
    BY <1>3, <1>4, <2>1
  <2> HIDE DEF rank, n
  <2> QED BY <1>1, <2>2, <2>3
<1>6. \A i, j \in 1..n : First(i, j) => rank[i] < rank[j]
  <2> SUFFICES ASSUME NEW i \in 1..n, NEW j \in 1..n, First(i, j) PROVE rank[i] < rank[j]
    OBVIOUS
  <2>1. \A x \in 1..n : First(x, i) => First(x, j)
    BY <1>1
  <2>2. Ahead(keys, i) \cup {i} \in SUBSET Ahead(keys, j)
    BY <1>3, <2>1
  <2>3. Cardinality(Ahead(keys, i)) + 1 <= Cardinality(Ahead(keys, j))
    BY <1>3, <1>4, <2>2, FS_Subset
  <2> QED BY <1>1, <1>3, <2>3
<1>7. \A i, j \in 1..n : i = j \/ First(i, j) \/ First(j, i)
  BY <1>1
<1>8. rank \in [1..n -> 1..n]
  BY <1>1, <1>5
<1> HIDE DEF rank, First
<1>9. \A i, j \in 1..n : rank[i] = rank[j] => i = j
  <2>1. \A i \in 1..n : rank[i] \in Nat
    BY <1>1, <1>5
  <2> QED BY <1>6, <1>7, <2>1
<1>10. rank \in Injection(1..n, 1..n)
  BY <1>8, <1>9 DEF Injection, IsInjective
<1>11. rank \in Surjection(1..n, 1..n)
  BY <1>2, <1>10, FS_Injection
<1>12. \A k \in 1..n : \E i \in 1..n : rank[i] = k
  BY <1>11 DEF Surjection
<1>13. \A k \in 1..n : /\ Placed(keys, k) \in 1..n /\ rank[Placed(keys, k)] = k
                       /\ Cardinality(Ahead(keys, Placed(keys, k))) = k - 1
  <2> SUFFICES ASSUME NEW k \in 1..n
               PROVE  /\ Placed(keys, k) \in 1..n /\ rank[Placed(keys, k)] = k
                      /\ Cardinality(Ahead(keys, Placed(keys, k))) = k - 1
    OBVIOUS
  <2>1. \E i \in DOMAIN keys : Cardinality(Ahead(keys, i)) = k - 1
    BY <1>1, <1>5, <1>12
  <2>2. Placed(keys, k) \in 1..n /\ Cardinality(Ahead(keys, Placed(keys, k))) = k - 1
    BY <1>1, <2>1 DEF Placed
  <2>3. rank[Placed(keys, k)] \in 1..n /\ rank[Placed(keys, k)] - 1 = k - 1
    BY <1>5, <2>2
  <2> QED BY <1>1, <2>2, <2>3
<1>14. ASSUME NEW k \in 1..n, NEW m \in 1..n, k <= m
       PROVE  keys[Placed(keys, k)] <= keys[Placed(keys, m)]
  <2> DEFINE x == Placed(keys, k)
             y == Placed(keys, m)
  <2>1. x \in 1..n /\ y \in 1..n /\ rank[x] = k /\ rank[y] = m /\ k \in Nat /\ m \in Nat
    BY <1>1, <1>13
  <2>2. ~First(y, x)
    BY <1>6, <1>14, <2>1
  <2> HIDE DEF x, y
  <2>3. keys[x] \in Int /\ keys[y] \in Int
    BY <1>1, <2>1
  <2>4. x = y \/ First(x, y)
    BY <1>7, <2>1, <2>2
  <2>5. keys[x] <= keys[y]
    BY <2>3, <2>4 DEF First
  <2> QED BY <2>5 DEF x, y
<1> QED BY <1>1, <1>3, <1>13, <1>14

\* What is in the middle of some runs has no more than half of them on either side.
LEMMA MiddleIs ==
  ASSUME NEW runs, IsList(runs), runs # <<>>, \A i \in DOMAIN runs : runs[i].wall \in Int
  PROVE  IsTheMiddle(Middle(runs), runs) /\ Middle(runs) \in Range(runs)
<1> DEFINE n == Len(runs)
           keys == [i \in DOMAIN runs |-> runs[i].wall]
           mid == n \div 2
           at == Placed(keys, mid + 1)
           less == {i \in DOMAIN runs : runs[i].wall < Middle(runs).wall}
           more == {i \in DOMAIN runs : runs[i].wall > Middle(runs).wall}
<1>1. n \in Nat /\ DOMAIN runs = 1..n /\ n # 0
  BY Listed
<1>2. keys \in Seq(Int) /\ Len(keys) = n /\ DOMAIN keys = 1..n
      /\ \A i \in 1..n : keys[i] = runs[i].wall /\ keys[i] \in Int
  BY <1>1
<1>3. IsList(keys)
  BY <1>2, IsListOf
<1>4. mid \in Nat /\ mid + 1 \in 1..n /\ 2 * mid <= n /\ n <= 2 * mid + 1
  BY <1>1
<1>a. mid + 1 \in 1..Len(keys) /\ DOMAIN keys = 1..n /\ \A i \in DOMAIN keys : keys[i] \in Int
  BY <1>2, <1>4
<1>b. Middle(runs) = runs[at]
  BY DEF Middle
<1> HIDE DEF keys, mid
<1>5. at \in 1..n /\ IsFiniteSet(Ahead(keys, at)) /\ Cardinality(Ahead(keys, at)) = mid
  <2>1. at \in DOMAIN keys /\ IsFiniteSet(Ahead(keys, at))
        /\ Cardinality(Ahead(keys, at)) = (mid + 1) - 1
    BY <1>3, <1>a, PlacedIs
  <2> QED BY <1>4, <1>a, <2>1
<1> HIDE DEF at
<1>6. Middle(runs).wall = keys[at] /\ keys[at] \in Int
  BY <1>2, <1>5, <1>b
<1>7. /\ less \in SUBSET Ahead(keys, at)
      /\ more \in SUBSET ((1..n) \ (Ahead(keys, at) \cup {at}))
      /\ Ahead(keys, at) \cup {at} \in SUBSET (1..n) /\ at \notin Ahead(keys, at)
  BY <1>1, <1>2, <1>5, <1>6 DEF Ahead
<1> HIDE DEF less, more
<1>8. Cardinality(less) <= mid /\ Cardinality(less) \in Nat
  BY <1>5, <1>7, FS_Subset, FS_CardinalityType
<1>9. Cardinality(more) <= n - (mid + 1) /\ Cardinality(more) \in Nat
  <2> DEFINE front == Ahead(keys, at) \cup {at}
             back == (1..n) \ front
  <2>1. IsFiniteSet(1..n) /\ Cardinality(1..n) = n
    BY <1>1, FS_Interval
  <2>2. IsFiniteSet(front) /\ Cardinality(front) = mid + 1
    BY <1>5, <1>7, FS_AddElement
  <2> HIDE DEF front
  <2>3. Cardinality(back) = Cardinality(1..n) - Cardinality((1..n) \cap front) /\ IsFiniteSet(back)
    BY <2>1, <2>2, FS_Difference
  <2>4. (1..n) \cap front = front
    BY <1>7 DEF front
  <2>5. more \in SUBSET back
    BY <1>7 DEF front
  <2> HIDE DEF back
  <2>6. IsFiniteSet(more) /\ Cardinality(more) <= Cardinality(back)
    BY <2>3, <2>5, FS_Subset
  <2> QED BY <2>1, <2>2, <2>3, <2>4, <2>6, FS_CardinalityType
<1>10. 2 * Cardinality(less) <= n /\ 2 * Cardinality(more) <= n
  BY <1>1, <1>4, <1>8, <1>9
<1>11. \E i \in DOMAIN runs : runs[i] = Middle(runs)
  BY <1>1, <1>5, <1>b
<1> QED BY <1>10, <1>11 DEF IsTheMiddle, less, more, Range

LEMMA SameSublist ==
  ASSUME NEW s, NEW I
  PROVE  /\ TheCoverage!Sublist(s, I) = Sublist(s, I)
         /\ ThePages!Sublist(s, I) = Sublist(s, I)
         /\ TheSuite!Sublist(s, I) = Sublist(s, I)
         /\ TheSpend!Sublist(s, I) = Sublist(s, I)
         /\ \A k : ThePages!Nth(I, k) = Nth(I, k)
<1>1. \A k : /\ TheCoverage!Nth(I, k) = Nth(I, k) /\ ThePages!Nth(I, k) = Nth(I, k)
            /\ TheSuite!Nth(I, k) = Nth(I, k) /\ TheSpend!Nth(I, k) = Nth(I, k)
  BY SameCardinality DEF TheCoverage!Nth, ThePages!Nth, TheSuite!Nth, TheSpend!Nth, Nth
<1> QED
  BY <1>1, SameCardinality
     DEF TheCoverage!Sublist, ThePages!Sublist, TheSuite!Sublist, TheSpend!Sublist, Sublist

LEMMA SameMiddle ==
  ASSUME NEW runs, NEW usage
  PROVE  /\ TheSuite!Middle(runs) = Middle(runs)
         /\ TheSpend!Middle(runs) = Middle(runs)
         /\ TheBenchmarks!Middle(runs) = Middle(runs)
         /\ TheSuite!IsTheMiddle(usage, runs) = IsTheMiddle(usage, runs)
         /\ TheSpend!IsTheMiddle(usage, runs) = IsTheMiddle(usage, runs)
<1>1. \A keys, i : /\ TheSuite!Ahead(keys, i) = Ahead(keys, i)
                  /\ TheSpend!Ahead(keys, i) = Ahead(keys, i)
                  /\ TheBenchmarks!Ahead(keys, i) = Ahead(keys, i)
  BY DEF TheSuite!Ahead, TheSpend!Ahead, TheBenchmarks!Ahead, Ahead
<1>2. \A keys, k : /\ TheSuite!Placed(keys, k) = Placed(keys, k)
                  /\ TheSpend!Placed(keys, k) = Placed(keys, k)
                  /\ TheBenchmarks!Placed(keys, k) = Placed(keys, k)
  BY <1>1, SameCardinality DEF TheSuite!Placed, TheSpend!Placed, TheBenchmarks!Placed, Placed
<1>3. /\ TheSuite!Middle(runs) = Middle(runs)
      /\ TheSpend!Middle(runs) = Middle(runs)
      /\ TheBenchmarks!Middle(runs) = Middle(runs)
  BY <1>2 DEF TheSuite!Middle, TheSpend!Middle, TheBenchmarks!Middle, Middle,
              TheSuite!Nothing, TheSpend!Nothing, TheBenchmarks!Nothing, Nothing
<1>4. /\ TheSuite!IsTheMiddle(usage, runs) = IsTheMiddle(usage, runs)
      /\ TheSpend!IsTheMiddle(usage, runs) = IsTheMiddle(usage, runs)
  BY SameCardinality DEF TheSuite!IsTheMiddle, TheSpend!IsTheMiddle, IsTheMiddle
<1> QED BY <1>3, <1>4

\* A finite set, listed.
LEMMA SetInAList ==
  ASSUME NEW S, IsFiniteSet(S)
  PROVE  LET s == TheCoverage!SetToSeq(S) IN
         /\ s \in Seq(S) /\ Len(s) = Cardinality(S)
         /\ \A x \in S : In(x, s)
         /\ \A j, k \in 1..Len(s) : s[j] = s[k] => j = k
<1> DEFINE n == Cardinality(S)
           Good == {f \in [1..n -> S] : TheCoverage!IsInjective(f)}
           s == TheCoverage!SetToSeq(S)
<1>1. n \in Nat /\ ExistsBijection(1..n, S)
  BY FS_CardinalityType
<1>2. PICK b \in Bijection(1..n, S) : TRUE
  BY <1>1 DEF ExistsBijection
<1>3. b \in Good
  BY <1>2 DEF Bijection, Injection, IsInjective, TheCoverage!IsInjective
<1>4. s = CHOOSE f \in [1..n -> S] : TheCoverage!IsInjective(f)
  BY SameCardinality DEF TheCoverage!SetToSeq
<1>5. s \in [1..n -> S] /\ TheCoverage!IsInjective(s)
  BY <1>3, <1>4
<1>6. s \in Injection(1..n, S)
  BY <1>5 DEF Injection, IsInjective, TheCoverage!IsInjective
<1>7. IsFiniteSet(1..n) /\ Cardinality(1..n) = n
  BY <1>1, FS_Interval
<1>8. s \in Surjection(1..n, S)
  BY <1>6, <1>7, FS_Injection
<1>9. s \in Seq(S) /\ Len(s) = n
  BY <1>1, <1>5
<1>10. \A x \in S : \E k \in 1..Len(s) : s[k] = x
  BY <1>8, <1>9 DEF Surjection
<1>11. \A j, k \in 1..Len(s) : s[j] = s[k] => j = k
  BY <1>6, <1>9 DEF Injection, IsInjective
<1> HIDE DEF s
<1> QED BY <1>9, <1>10, <1>11 DEF s, In

\* A list of lists, one behind the other: what it is up to each of them.
Flattens(f, s) ==
  f = [i \in 1..Len(s) |-> IF i = 1 THEN s[i] ELSE f[i - 1] \o s[i]]

FlattensUpto(n, f, s, E) ==
  /\ f \in [1..n -> Seq(E)]
  /\ \A i \in 1..n : f[i] = IF i = 1 THEN s[i] ELSE f[i - 1] \o s[i]

LEMMA FlatteningExists ==
  ASSUME NEW E, NEW s \in Seq(Seq(E))
  PROVE  \E f : Flattens(f, s)
<1> DEFINE Bad == {n \in 1..Len(s) : ~\E f : FlattensUpto(n, f, s, E)}
<1>0. Len(s) \in Nat /\ \A i \in 1..Len(s) : s[i] \in Seq(E)
  OBVIOUS
<1>1. Bad = {}
  <2> SUFFICES ASSUME Bad # {} PROVE FALSE
    OBVIOUS
  <2>1. Bad \subseteq Nat
    OBVIOUS
  <2>0. \A n : n \in Bad <=> n \in 1..Len(s) /\ ~\E f : FlattensUpto(n, f, s, E)
    OBVIOUS
  <2> HIDE DEF Bad
  <2>2. PICK n \in Bad : \A m \in Bad : n <= m
    BY <2>1, LeastNat
  <2>3. n \in 1..Len(s) /\ n \in Nat /\ ~\E f : FlattensUpto(n, f, s, E)
    BY <2>0, <2>1, <2>2
  <2>4. CASE n = 1
    <3> DEFINE f == [i \in 1..1 |-> s[1]]
    <3>1. s[1] \in Seq(E)
      BY <1>0, <2>3
    <3>2. FlattensUpto(1, f, s, E)
      BY <3>1 DEF FlattensUpto
    <3> HIDE DEF f
    <3> QED BY <2>3, <2>4, <3>2
  <2>5. CASE n # 1
    <3>1. n - 1 \in 1..Len(s) /\ n - 1 \notin Bad
      BY <1>0, <2>1, <2>2, <2>3, <2>5
    <3>2. PICK g : FlattensUpto(n - 1, g, s, E)
      BY <2>0, <3>1
    <3> DEFINE f == [i \in 1..n |-> IF i = n THEN g[n - 1] \o s[n] ELSE g[i]]
    <3>3. g[n - 1] \in Seq(E) /\ s[n] \in Seq(E) /\ g[n - 1] \o s[n] \in Seq(E)
      BY <1>0, <2>3, <2>5, <3>1, <3>2 DEF FlattensUpto
    <3>a. \A i \in 1..(n - 1) : i \in 1..n /\ i # n /\ (i # 1 => i - 1 \in 1..(n - 1))
      BY <2>3
    <3>b. \A i \in 1..(n - 1) :
            g[i] \in Seq(E) /\ g[i] = IF i = 1 THEN s[i] ELSE g[i - 1] \o s[i]
      BY <3>2 DEF FlattensUpto
    <3>4. \A i \in 1..(n - 1) :
            /\ g[i] \in Seq(E) /\ i \in 1..n /\ i # n /\ (i # 1 => i - 1 \in 1..(n - 1))
            /\ g[i] = IF i = 1 THEN s[i] ELSE g[i - 1] \o s[i]
      BY <3>a, <3>b
    <3>5. \A i \in 1..n : i # n => i \in 1..(n - 1)
      BY <2>3
    <3>6. f \in [1..n -> Seq(E)]
      BY <3>3, <3>4, <3>5
    <3>7. \A i \in 1..(n - 1) : f[i] = g[i]
      BY <3>4
    <3>c. n \in 1..n /\ n - 1 \in 1..(n - 1)
      BY <2>3, <2>5
    <3>d. f[n] = g[n - 1] \o s[n]
      BY <3>c
    <3>8. f[n] = f[n - 1] \o s[n]
      BY <3>c, <3>d, <3>7
    <3> HIDE DEF f
    <3>9. \A i \in 1..n : f[i] = IF i = 1 THEN s[i] ELSE f[i - 1] \o s[i]
      BY <2>5, <3>4, <3>5, <3>7, <3>8
    <3>10. FlattensUpto(n, f, s, E)
      BY <3>6, <3>9 DEF FlattensUpto
    <3> QED BY <2>3, <3>10
  <2> QED BY <2>4, <2>5
<1>2. CASE Len(s) = 0
  <2> DEFINE f == [i \in 1..Len(s) |-> s]
  <2>1. f = [i \in 1..Len(s) |-> IF i = 1 THEN s[i] ELSE f[i - 1] \o s[i]]
    BY <1>2
  <2> HIDE DEF f
  <2> QED BY <2>1 DEF Flattens
<1>3. CASE Len(s) # 0
  <2>1. Len(s) \in 1..Len(s)
    BY <1>0, <1>3
  <2>2. PICK f : FlattensUpto(Len(s), f, s, E)
    BY <1>1, <2>1
  <2>3. f = [i \in 1..Len(s) |-> f[i]]
    BY <2>2 DEF FlattensUpto
  <2>4. f = [i \in 1..Len(s) |-> IF i = 1 THEN s[i] ELSE f[i - 1] \o s[i]]
    BY <2>2, <2>3 DEF FlattensUpto
  <2> QED BY <2>4 DEF Flattens
<1> QED BY <1>2, <1>3

\* Whatever was in one of them is still there.
HasUpto(i, t, s) ==
  \A j \in 1..i : \A k \in 1..Len(s[j]) : In(s[j][k], t)

LEMMA FlatteningKeeps ==
  ASSUME NEW E, NEW s \in Seq(Seq(E)), NEW f, Flattens(f, s)
  PROVE  \A i \in 1..Len(s) : f[i] \in Seq(E) /\ HasUpto(i, f[i], s)
<1> DEFINE Bad == {i \in 1..Len(s) : ~(f[i] \in Seq(E) /\ HasUpto(i, f[i], s))}
<1>a. f = [i \in 1..Len(s) |-> IF i = 1 THEN s[i] ELSE f[i - 1] \o s[i]]
  BY DEF Flattens
<1>b. \A i \in 1..Len(s) : f[i] = IF i = 1 THEN s[i] ELSE f[i - 1] \o s[i]
  BY <1>a
<1>0. /\ \A i \in 1..Len(s) : f[i] = IF i = 1 THEN s[i] ELSE f[i - 1] \o s[i]
      /\ Len(s) \in Nat /\ \A i \in 1..Len(s) : s[i] \in Seq(E)
  BY <1>b
<1>1. Bad = {}
  <2> SUFFICES ASSUME Bad # {} PROVE FALSE
    OBVIOUS
  <2>1. Bad \subseteq Nat
    BY <1>0
  <2>0. \A n : n \in Bad <=> n \in 1..Len(s) /\ ~(f[n] \in Seq(E) /\ HasUpto(n, f[n], s))
    OBVIOUS
  <2> HIDE DEF Bad
  <2>2. PICK n \in Bad : \A m \in Bad : n <= m
    BY <2>1, LeastNat
  <2>3. n \in 1..Len(s) /\ n \in Nat /\ ~(f[n] \in Seq(E) /\ HasUpto(n, f[n], s))
    BY <2>0, <2>1, <2>2
  <2>4. CASE n = 1
    <3>1. f[1] = s[1] /\ s[1] \in Seq(E)
      BY <1>0, <2>3, <2>4
    <3>2. HasUpto(1, f[1], s)
      BY <3>1 DEF HasUpto, In
    <3> QED BY <2>3, <2>4, <3>1, <3>2
  <2>5. CASE n # 1
    <3>1. n - 1 \in 1..Len(s) /\ n - 1 \notin Bad
      BY <1>0, <2>1, <2>2, <2>3, <2>5
    <3> DEFINE g == f[n - 1]
    <3>2. g \in Seq(E) /\ HasUpto(n - 1, g, s)
      BY <2>0, <3>1
    <3>3. f[n] = g \o s[n] /\ s[n] \in Seq(E)
      BY <1>0, <2>3, <2>5
    <3> HIDE DEF g
    <3>5. f[n] \in Seq(E) /\ \A x : In(x, g) \/ In(x, s[n]) => In(x, f[n])
      BY <3>2, <3>3, InTheWhole
    <3>6. ASSUME NEW j \in 1..n, NEW k \in 1..Len(s[j])
          PROVE  In(s[j][k], f[n])
      <4>1. CASE j = n
        <5>1. In(s[n][k], s[n])
          BY <3>6, <4>1 DEF In
        <5> QED BY <3>5, <4>1, <5>1
      <4>2. CASE j # n
        <5>1. j \in 1..(n - 1)
          BY <2>3, <4>2
        <5>2. In(s[j][k], g)
          BY <3>2, <5>1 DEF HasUpto
        <5> QED BY <3>5, <5>2
      <4> QED BY <4>1, <4>2
    <3>7. HasUpto(n, f[n], s)
      BY <3>6 DEF HasUpto
    <3> QED BY <2>3, <3>5, <3>7
  <2> QED BY <2>4, <2>5
<1> QED BY <1>1

LEMMA FlattenedLists ==
  ASSUME NEW E, NEW s \in Seq(Seq(E))
  PROVE  LET t == TheCoverage!FlattenSeq(s) IN
         /\ t \in Seq(E)
         /\ HasUpto(Len(s), t, s)
<1> DEFINE t == TheCoverage!FlattenSeq(s)
           f == CHOOSE g : g = [i \in 1..Len(s) |-> IF i = 1 THEN s[i] ELSE g[i - 1] \o s[i]]
<1>1. CASE Len(s) = 0
  <2>1. t = s /\ s = <<>>
    BY <1>1 DEF TheCoverage!FlattenSeq
  <2>2. 1..Len(s) = {}
    BY <1>1
  <2>3. HasUpto(Len(s), t, s)
    BY <2>2 DEF HasUpto
  <2> QED BY <2>1, <2>3
<1>2. CASE Len(s) # 0
  <2>1. t = f[Len(s)]
    BY <1>2 DEF TheCoverage!FlattenSeq
  <2>2. Flattens(f, s)
    BY FlatteningExists DEF Flattens
  <2> HIDE DEF f
  <2>3. Len(s) \in 1..Len(s)
    BY <1>2
  <2>4. f[Len(s)] \in Seq(E) /\ HasUpto(Len(s), f[Len(s)], s)
    BY <2>2, <2>3, FlatteningKeeps
  <2> QED BY <2>1, <2>4
<1> QED BY <1>1, <1>2

-----------------------------------------------------------------------------
(***************************************************************************)
(* functions.rs: what is called for a row.  A row that can be called is    *)
(* called for every edge, NULL and wrong type of every argument, and a     *)
(* scalar that cannot has a type with no edges in the way.                 *)
(***************************************************************************)
\* Everything that may be said of an argument.
Values == (UNION {Edges[type] : type \in DOMAIN Edges})
            \cup {"NULL", "wrong", "no arguments", "three trailing"}

Arguments == [at : Nat, value : Values]

LEMMA EdgesListed ==
  ASSUME NEW type \in DOMAIN Edges, NEW at \in Nat
  PROVE  LET S == {TheCoverage!Argument(at, v) : v \in Edges[type]} IN
         /\ TheCoverage!SetToSeq(S) \in Seq(Arguments)
         /\ \A v \in Edges[type] : In(TheCoverage!Argument(at, v), TheCoverage!SetToSeq(S))
<1> DEFINE S == {TheCoverage!Argument(at, v) : v \in Edges[type]}
           f == [v \in Edges[type] |-> TheCoverage!Argument(at, v)]
<1>1. IsFiniteSet(Edges[type])
  BY BooksAssumption
<1>2. f \in Surjection(Edges[type], S)
  BY DEF Surjection
<1>3. IsFiniteSet(S)
  BY <1>1, <1>2, FS_Surjection
<1>4. S \subseteq Arguments
  <2>1. \A v \in Edges[type] : v \in Values
    BY DEF Values
  <2>2. \A v \in Values : TheCoverage!Argument(at, v) \in Arguments
    BY DEF TheCoverage!Argument, Arguments
  <2> QED BY <2>1, <2>2
<1>5. \A v \in Edges[type] : TheCoverage!Argument(at, v) \in S
  OBVIOUS
<1> HIDE DEF S, f
<1>6. TheCoverage!SetToSeq(S) \in Seq(S) /\ \A x \in S : In(x, TheCoverage!SetToSeq(S))
  BY <1>3, SetInAList
<1>7. TheCoverage!SetToSeq(S) \in Seq(Arguments)
  BY <1>4, <1>6, SeqMonotonic
<1> QED BY <1>5, <1>6, <1>7 DEF S

HasParameters(row) == IsList(row.parameters)

Known(row) == \A at \in DOMAIN row.parameters : TheCoverage!HasBoundaries(row.parameters[at])

\* The calls of one row, as `calls` puts them together.
LEMMA CallsOfKnown ==
  ASSUME NEW row, HasParameters(row), row.kind = "scalar", Known(row)
  PROVE  LET c == TheCoverage!Calls(row) IN
         /\ c \in Seq(Arguments) /\ c # <<>>
         /\ \A at \in DOMAIN row.parameters :
              \A v \in Edges[row.parameters[at]] \cup {"NULL", "wrong"} :
                In(TheCoverage!Argument(at, v), c)
<1> DEFINE each == DOMAIN row.parameters
           Edge(at) == TheCoverage!SetToSeq(
                         {TheCoverage!Argument(at, v) : v \in Edges[row.parameters[at]]})
           Every(value) == [at \in each |-> TheCoverage!Argument(at, value)]
           edges == [at \in each |-> Edge(at)]
           flat == TheCoverage!FlattenSeq(edges)
           none == IF each = {} THEN <<TheCoverage!Argument(0, "no arguments")>> ELSE <<>>
           more == IF TheCoverage!HasBoundaries(row.varargs)
                     THEN <<TheCoverage!Argument(0, "three trailing")>> ELSE <<>>
           c == TheCoverage!Calls(row)
<1>1. Len(row.parameters) \in Nat /\ each = 1..Len(row.parameters)
  BY Listed DEF HasParameters
<1>2. c = flat \o Every("NULL") \o Every("wrong") \o none \o more
  BY DEF TheCoverage!Calls, Known
<1>3. \A at \in each : /\ Edge(at) \in Seq(Arguments)
                       /\ \A v \in Edges[row.parameters[at]] : In(TheCoverage!Argument(at, v), Edge(at))
  <2> SUFFICES ASSUME NEW at \in each
               PROVE  /\ Edge(at) \in Seq(Arguments)
                      /\ \A v \in Edges[row.parameters[at]] : In(TheCoverage!Argument(at, v), Edge(at))
    OBVIOUS
  <2>1. at \in Nat /\ row.parameters[at] \in DOMAIN Edges
    BY <1>1 DEF Known, TheCoverage!HasBoundaries
  <2> QED BY <2>1, EdgesListed
<1>4. /\ {"NULL", "wrong", "no arguments", "three trailing"} \subseteq Values
      /\ \A at \in Nat : \A v \in Values : TheCoverage!Argument(at, v) \in Arguments
  <2>1. {"NULL", "wrong", "no arguments", "three trailing"} \subseteq Values
    BY DEF Values
  <2>2. \A at \in Nat : \A v \in Values : TheCoverage!Argument(at, v) \in Arguments
    BY DEF TheCoverage!Argument, Arguments
  <2> QED BY <2>1, <2>2
<1>5. edges \in Seq(Seq(Arguments)) /\ Len(edges) = Len(row.parameters)
      /\ \A at \in each : edges[at] = Edge(at)
  <2> HIDE DEF Edge
  <2> QED BY <1>1, <1>3
<1> HIDE DEF edges, Edge
<1>6. flat \in Seq(Arguments) /\ HasUpto(Len(edges), flat, edges)
  BY <1>5, FlattenedLists
<1>7. \A at \in each : \A v \in Edges[row.parameters[at]] : In(TheCoverage!Argument(at, v), flat)
  <2> SUFFICES ASSUME NEW at \in each, NEW v \in Edges[row.parameters[at]]
               PROVE  In(TheCoverage!Argument(at, v), flat)
    OBVIOUS
  <2>1. PICK k \in 1..Len(edges[at]) : edges[at][k] = TheCoverage!Argument(at, v)
    BY <1>3, <1>5 DEF In
  <2>2. at \in 1..Len(edges)
    BY <1>1, <1>5
  <2>3. In(edges[at][k], flat)
    BY <1>6, <2>2 DEF HasUpto
  <2> QED BY <2>1, <2>3
<1>8. \A w \in {"NULL", "wrong"} :
        /\ Every(w) \in Seq(Arguments) /\ Len(Every(w)) = Len(row.parameters)
        /\ \A at \in each : In(TheCoverage!Argument(at, w), Every(w))
  <2> SUFFICES ASSUME NEW w \in {"NULL", "wrong"}
               PROVE  /\ Every(w) \in Seq(Arguments) /\ Len(Every(w)) = Len(row.parameters)
                      /\ \A at \in each : In(TheCoverage!Argument(at, w), Every(w))
    OBVIOUS
  <2>a. w \in Values
    BY <1>4
  <2>0. \A at \in each : at \in Nat
    BY <1>1
  <2>1. \A at \in each : TheCoverage!Argument(at, w) \in Arguments
    BY <1>4, <2>0, <2>a
  <2>2. Every(w) \in Seq(Arguments) /\ Len(Every(w)) = Len(row.parameters)
    BY <1>1, <2>1
  <2>3. \A at \in each : at \in 1..Len(Every(w)) /\ Every(w)[at] = TheCoverage!Argument(at, w)
    BY <1>1, <2>2
  <2> HIDE DEF Every
  <2> QED BY <2>2, <2>3 DEF In
<1>9. none \in Seq(Arguments) /\ more \in Seq(Arguments) /\ (each = {} => Len(none) = 1)
  <2>1. /\ TheCoverage!Argument(0, "no arguments") \in Arguments
        /\ TheCoverage!Argument(0, "three trailing") \in Arguments
    BY <1>4
  <2>2. <<>> \in Seq(Arguments) /\ \A a \in Arguments : <<a>> \in Seq(Arguments) /\ Len(<<a>>) = 1
    OBVIOUS
  <2>3. none \in Seq(Arguments) /\ (each = {} => Len(none) = 1)
    BY <2>1, <2>2
  <2>4. more \in Seq(Arguments)
    BY <2>1, <2>2
  <2> QED BY <2>3, <2>4
<1> DEFINE c1 == flat \o Every("NULL")
           c2 == c1 \o Every("wrong")
           c3 == c2 \o none
<1> HIDE DEF flat, Every, none, more
<1>10. c1 \in Seq(Arguments) /\ \A x : In(x, flat) \/ In(x, Every("NULL")) => In(x, c1)
  BY <1>6, <1>8, InTheWhole
<1> HIDE DEF c1
<1>11. c2 \in Seq(Arguments) /\ \A x : In(x, c1) \/ In(x, Every("wrong")) => In(x, c2)
  BY <1>8, <1>10, InTheWhole
<1> HIDE DEF c2
<1>12. c3 \in Seq(Arguments) /\ \A x : In(x, c2) \/ In(x, none) => In(x, c3)
  BY <1>9, <1>11, InTheWhole
<1> HIDE DEF c3
<1>13. c = c3 \o more
  BY <1>2 DEF c1, c2, c3
<1>14. c \in Seq(Arguments) /\ \A x : In(x, c3) => In(x, c)
  BY <1>9, <1>12, <1>13, InTheWhole
<1> HIDE DEF c
<1>15. \A at \in each : \A v \in Edges[row.parameters[at]] \cup {"NULL", "wrong"} :
         In(TheCoverage!Argument(at, v), c)
  BY <1>7, <1>8, <1>10, <1>11, <1>12, <1>14
<1>16. c # <<>>
  <2>1. \E x : In(x, c)
    <3>1. CASE each = {}
      <4>a. Len(none) = 1
        BY <1>9, <3>1
      <4>0. 1 \in 1..Len(none)
        BY <4>a
      <4>1. In(none[1], none)
        BY <4>0 DEF In
      <4> QED BY <1>12, <1>14, <4>1
    <3>2. CASE each # {}
      BY <1>15, <3>2
    <3> QED BY <3>1, <3>2
  <2> QED BY <2>1 DEF In
<1> QED BY <1>14, <1>15, <1>16 DEF c

LEMMA CallsOfARow ==
  ASSUME NEW row, HasParameters(row)
  PROVE  /\ Len(TheCoverage!Calls(row)) \in Nat
         /\ DOMAIN TheCoverage!Calls(row) = 1..Len(TheCoverage!Calls(row))
         /\ TheCoverage!Calls(row) # <<>> => TheCoverage!Examined(row)
         /\ row.kind = "scalar" /\ TheCoverage!Calls(row) = <<>> => ~Known(row)
<1>1. CASE row.kind = "scalar" /\ Known(row)
  <2> DEFINE c == TheCoverage!Calls(row)
  <2>1. /\ c \in Seq(Arguments) /\ c # <<>>
        /\ \A at \in DOMAIN row.parameters :
             \A v \in Edges[row.parameters[at]] \cup {"NULL", "wrong"} :
               In(TheCoverage!Argument(at, v), c)
    BY <1>1, CallsOfKnown
  <2> HIDE DEF c
  <2>2. Len(c) \in Nat /\ DOMAIN c = 1..Len(c)
    BY <2>1
  <2>3. \A at \in DOMAIN row.parameters :
          \A v \in Edges[row.parameters[at]] \cup {"NULL", "wrong"} :
            \E k \in DOMAIN c : c[k] = TheCoverage!Argument(at, v)
    BY <2>1, <2>2 DEF In
  <2>4. TheCoverage!Examined(row)
    BY <2>3 DEF TheCoverage!Examined, c
  <2> QED BY <1>1, <2>1, <2>2, <2>4 DEF c
<1>2. CASE ~(row.kind = "scalar" /\ Known(row))
  <2>1. TheCoverage!Calls(row) = <<>>
    BY <1>2 DEF TheCoverage!Calls, Known
  <2> QED BY <1>2, <2>1
<1> QED BY <1>1, <1>2

LEMMA UntestedOrCalled ==
  ASSUME NEW row
  PROVE  /\ TheCoverage!Untested(row) = "no"
              <=> ~TheCoverage!Volatile(row) /\ TheCoverage!Calls(row) # <<>>
         /\ TheCoverage!Untested(row) \in {"volatile", "no boundary set", "kind not called", "no"}
BY DEF TheCoverage!Untested

-----------------------------------------------------------------------------
(***************************************************************************)
(* coverage.rs.  What was said of a row is what was wrong with its own     *)
(* calls: no engine is half done when it is asked.                         *)
(***************************************************************************)
Calls(i) == TheCoverage!Calls(rows[i])
Untested(i) == TheCoverage!Untested(rows[i])

\* The calls of a row, of the first so many, that something is wrong with.
Crashes(i, c) ==
  \E what \in {"left panics", "right panics"} : [row |-> i, call |-> c, what |-> what] \in trouble

Troubled(i, upto) == {c \in 1..upto : \E t \in trouble : t.row = i /\ t.call = c}

Differing(i, upto) == {[call |-> c, crash |-> Crashes(i, c)] : c \in Troubled(i, upto)}

\* What a row is scored as.
IsScored(i, s) ==
  /\ s.name = rows[i].name
  /\ IF Untested(i) # "no" THEN s.verdict = Untested(i) /\ s.failures = {}
     ELSE /\ s.failures = Differing(i, Len(Calls(i)))
          /\ s.verdict = IF s.failures = {} THEN "passed" ELSE "failed"

TroubleInv ==
  /\ IsFiniteSet(trouble)
  /\ \A t \in trouble :
       /\ t.row \in DOMAIN rows /\ t.call \in 1..Len(Calls(t.row))
       /\ t = [row |-> t.row, call |-> t.call, what |-> t.what]
       /\ t.what \in {"differs", "left panics", "right panics"}

RowsInv == IsList(rows) /\ \A i \in DOMAIN rows : HasParameters(rows[i])

SweepAt ==
  /\ overload \in 1..(Len(rows) + 1)
  /\ call \in Nat \ {0}
  /\ half = {}
  /\ IsList(scored)
  /\ cover_at = "catalog" =>
       trouble = {} /\ overload = 1 /\ call = 1 /\ differing = {} /\ scored = <<>>
  /\ cover_at \in {"next", "narrowed"} =>
       /\ Len(scored) = overload - 1
       /\ overload <= Len(rows) =>
            call <= Len(Calls(overload)) + 1 /\ differing = Differing(overload, call - 1)
  /\ cover_at \in {"stopped", "done"} => scored = <<>> \/ Len(scored) = Len(rows)

ScoredInv ==
  /\ Len(scored) <= Len(rows)
  /\ \A i \in DOMAIN scored : IsScored(i, scored[i])

RecordedInv ==
  recorded # TheCoverage!NotRecorded =>
    cover_at = "done" /\ Len(scored) = Len(rows) /\ recorded = TheCoverage!Coverage

CoverInv ==
  /\ cover_at \in {"catalog", "next", "narrowed", "stopped", "done"}
  /\ RowsInv /\ TroubleInv /\ SweepAt /\ ScoredInv /\ RecordedInv

\* What an invariant of the sweep is about, when it is as it was.
SameTable == rows' = rows /\ trouble' = trouble

LEMMA TableStays ==
  ASSUME SameTable, RowsInv, TroubleInv
  PROVE  /\ RowsInv' /\ TroubleInv'
         /\ \A i : /\ TheCoverage!Calls(rows'[i]) = Calls(i)
                   /\ TheCoverage!Untested(rows'[i]) = Untested(i)
         /\ \A i, c : Differing(i, c)' = Differing(i, c)
         /\ \A i, s : IsScored(i, s)' <=> IsScored(i, s)
<1>1. RowsInv' /\ TroubleInv'
  BY DEF SameTable, RowsInv, TroubleInv, HasParameters, Calls
<1>2. \A i : /\ TheCoverage!Calls(rows'[i]) = Calls(i)
             /\ TheCoverage!Untested(rows'[i]) = Untested(i)
  BY DEF SameTable, Calls, Untested
<1>3. \A i, c : Differing(i, c)' = Differing(i, c)
  BY DEF SameTable, Differing, Troubled, Crashes
<1>4. \A i, s : IsScored(i, s)' <=> IsScored(i, s)
  BY <1>3 DEF SameTable, IsScored, Calls, Untested
<1> QED BY <1>1, <1>2, <1>3, <1>4

\* One more call of a row.
LEMMA OneMoreCall ==
  ASSUME NEW i, NEW c \in Nat \ {0}
  PROVE  /\ Differing(i, 0) = {}
         /\ Differing(i, c) =
              IF \E t \in trouble : t.row = i /\ t.call = c
                THEN Differing(i, c - 1) \cup {[call |-> c, crash |-> Crashes(i, c)]}
                ELSE Differing(i, c - 1)
<1>1. 1..0 = {} /\ 1..c = (1..(c - 1)) \cup {c}
  OBVIOUS
<1>2. Troubled(i, c) = IF \E t \in trouble : t.row = i /\ t.call = c
                         THEN Troubled(i, c - 1) \cup {c} ELSE Troubled(i, c - 1)
  BY <1>1 DEF Troubled
<1>3. Troubled(i, 0) = {}
  BY <1>1 DEF Troubled
<1> QED BY <1>2, <1>3 DEF Differing

LEMMA CoverBegins == ASSUME TheCoverage!Init PROVE CoverInv
<1>1. rows \in Catalogs /\ trouble = {} /\ cover_at = "catalog" /\ overload = 1 /\ call = 1
      /\ half = {} /\ differing = {} /\ scored = <<>> /\ recorded = TheCoverage!NotRecorded
  BY DEF TheCoverage!Init
<1>2. RowsInv
  BY <1>1, BooksAssumption DEF RowsInv, HasParameters
<1>3. TroubleInv
  BY <1>1, FS_EmptySet DEF TroubleInv
<1>4. Len(rows) \in Nat
  BY <1>2, Listed DEF RowsInv
<1>5. IsList(scored) /\ Len(scored) = 0 /\ DOMAIN scored = {}
  BY <1>1 DEF IsList
<1>6. SweepAt
  BY <1>1, <1>4, <1>5 DEF SweepAt
<1>7. ScoredInv /\ RecordedInv
  BY <1>1, <1>4, <1>5 DEF ScoredInv, RecordedInv
<1> QED BY <1>1, <1>2, <1>3, <1>6, <1>7 DEF CoverInv

LEMMA CoverStays ==
  ASSUME CoverInv, UNCHANGED coverVars
  PROVE  CoverInv'
<1>1. SameTable /\ UNCHANGED <<cover_at, overload, call, half, differing, scored, recorded>>
  BY DEF coverVars, SameTable
<1>2. RowsInv' /\ TroubleInv'
  BY <1>1, TableStays DEF CoverInv
<1>3. SweepAt'
  BY <1>1, TableStays DEF CoverInv, SweepAt, Calls, SameTable
<1>4. ScoredInv'
  BY <1>1, TableStays DEF CoverInv, ScoredInv, SameTable
<1>5. RecordedInv'
  BY <1>1 DEF CoverInv, RecordedInv, SameTable, TheCoverage!Coverage, TheCoverage!NotRecorded,
              TheCoverage!Names, TheCoverage!NameVerdict, TheCoverage!Verdicts, TheCoverage!RowVerdict,
              TheCoverage!TallyOf
<1> QED BY <1>1, <1>2, <1>3, <1>4, <1>5 DEF CoverInv

LEMMA ReadCatalogKeeps == ASSUME CoverInv, TheCoverage!ReadCatalog PROVE CoverInv'
<1>1. PICK name : rows' = TheCoverage!Sublist(rows, TheCoverage!Named(name))
  BY DEF TheCoverage!ReadCatalog
<1>b. cover_at' \in {"stopped", "next", "narrowed"}
  BY DEF TheCoverage!ReadCatalog
<1> DEFINE I == TheCoverage!Named(name)
<1>a. I \subseteq DOMAIN rows
  BY DEF TheCoverage!Named
<1>2. /\ cover_at = "catalog" /\ rows' = Sublist(rows, I)
      /\ cover_at' \in {"stopped", "next", "narrowed"}
      /\ trouble' \in {{}} \cup {{t, u} : t, u \in TheCoverage!Troubles(rows')}
      /\ UNCHANGED <<pinned, overload, call, half, differing, scored, recorded>>
  <2>1. rows' = Sublist(rows, I)
    BY <1>1, SameSublist
  <2> QED BY <1>b, <2>1 DEF TheCoverage!ReadCatalog
<1>3. /\ IsList(rows) /\ \A i \in DOMAIN rows : HasParameters(rows[i])
      /\ trouble = {} /\ overload = 1 /\ call = 1 /\ differing = {} /\ scored = <<>> /\ half = {}
  BY <1>2 DEF CoverInv, RowsInv, SweepAt
<1>4. /\ IsList(rows') /\ Len(rows') = Cardinality(I)
      /\ \A k \in 1..Cardinality(I) : rows'[k] = rows[Nth(I, k)] /\ Nth(I, k) \in DOMAIN rows
  BY <1>2, <1>3, <1>a, SublistIs
<1> HIDE DEF I
<1>5. Len(rows') \in Nat /\ DOMAIN rows' = 1..Len(rows')
  BY <1>4, Listed
<1>6. RowsInv'
  BY <1>3, <1>4, <1>5 DEF RowsInv, HasParameters
<1>7. \A t \in TheCoverage!Troubles(rows') :
        /\ t.row \in DOMAIN rows' /\ t.call \in DOMAIN TheCoverage!Calls(rows'[t.row])
        /\ t = [row |-> t.row, call |-> t.call, what |-> t.what]
        /\ t.what \in {"differs", "left panics", "right panics"}
  <2> TAKE t \in TheCoverage!Troubles(rows')
  <2>1. PICK i \in DOMAIN rows' :
          t \in [row : {i}, call : DOMAIN TheCoverage!Calls(rows'[i]),
                what : {"differs", "left panics", "right panics"}]
    BY DEF TheCoverage!Troubles
  <2> QED BY <2>1
<1>8. \A i \in DOMAIN rows' :
        /\ Len(TheCoverage!Calls(rows'[i])) \in Nat
        /\ DOMAIN TheCoverage!Calls(rows'[i]) = 1..Len(TheCoverage!Calls(rows'[i]))
  BY <1>6, CallsOfARow DEF RowsInv, HasParameters
<1>9. TroubleInv'
  <2>1. trouble' \subseteq TheCoverage!Troubles(rows')
    BY <1>2
  <2>2. IsFiniteSet(trouble')
    <3>1. CASE trouble' = {}
      BY <3>1, FS_EmptySet
    <3>2. CASE trouble' # {}
      <4>1. PICK t, u : trouble' = {t} \cup {u}
        BY <1>2, <3>2
      <4> QED BY <4>1, FS_Singleton, FS_AddElement
    <3> QED BY <3>1, <3>2
  <2> QED BY <1>7, <1>8, <2>1, <2>2 DEF TroubleInv, Calls
<1>10. \A i : Differing(i, 0)' = {}
  BY DEF Differing, Troubled
<1>11. IsList(scored) /\ Len(scored) = 0 /\ DOMAIN scored = {}
  BY <1>3 DEF IsList
<1>12. SweepAt'
  <2>1. overload' = 1 /\ call' = 1 /\ half' = {} /\ differing' = {} /\ scored' = scored /\ 1 - 1 = 0
    BY <1>2, <1>3
  <2>2. 1 <= Len(rows') => Len(Calls(1)') \in Nat
    BY <1>5, <1>8 DEF Calls
  <2>3. 1 \in 1..(Len(rows') + 1) /\ 1 \in Nat \ {0}
    BY <1>5
  <2>4. cover_at' # "catalog" /\ cover_at' # "done" /\ (cover_at' = "stopped" => scored' = <<>>)
    BY <1>2, <1>3, <2>1
  <2>5. 1 <= Len(rows') => 1 <= Len(Calls(1)') + 1 /\ differing' = Differing(1, 0)'
    BY <1>10, <2>1, <2>2
  <2> QED BY <1>11, <2>1, <2>3, <2>4, <2>5 DEF SweepAt, Calls, Differing, Troubled
<1>13. ScoredInv'
  BY <1>2, <1>5, <1>11 DEF ScoredInv
<1>14. RecordedInv'
  BY <1>2 DEF CoverInv, RecordedInv, TheCoverage!NotRecorded
<1> QED BY <1>2, <1>6, <1>9, <1>12, <1>13, <1>14 DEF CoverInv

\* What every step of a sweep that goes on has in common.
LEMMA AtWork ==
  ASSUME CoverInv, TheCoverage!Working
  PROVE  /\ IsList(rows) /\ IsList(scored) /\ Len(rows) \in Nat /\ DOMAIN rows = 1..Len(rows)
         /\ cover_at \in {"next", "narrowed"} /\ recorded = TheCoverage!NotRecorded
         /\ overload \in 1..Len(rows) /\ Len(scored) = overload - 1
         /\ DOMAIN scored = 1..Len(scored) /\ Len(scored) \in Nat
         /\ call \in 1..(Len(Calls(overload)) + 1) /\ Len(Calls(overload)) \in Nat
         /\ half = {} /\ differing = Differing(overload, call - 1)
<1>1. IsList(rows) /\ IsList(scored) /\ cover_at \in {"next", "narrowed"} /\ overload <= Len(rows)
      /\ overload \in 1..(Len(rows) + 1)
  BY DEF CoverInv, RowsInv, SweepAt, TheCoverage!Working
<1>2. /\ Len(rows) \in Nat /\ DOMAIN rows = 1..Len(rows)
      /\ DOMAIN scored = 1..Len(scored) /\ Len(scored) \in Nat
  BY <1>1, Listed
<1>3. overload \in 1..Len(rows)
  BY <1>1, <1>2
<1>4. Len(Calls(overload)) \in Nat
  BY <1>2, <1>3, CallsOfARow DEF CoverInv, RowsInv, Calls
<1>5. /\ Len(scored) = overload - 1 /\ call <= Len(Calls(overload)) + 1 /\ call \in Nat \ {0}
      /\ half = {} /\ differing = Differing(overload, call - 1)
  BY <1>1 DEF CoverInv, SweepAt
<1>6. recorded = TheCoverage!NotRecorded
  BY <1>1 DEF CoverInv, RecordedInv
<1> QED BY <1>1, <1>2, <1>3, <1>4, <1>5, <1>6

\* A row is scored, and the next one begins.
LEMMA ScoringKeeps ==
  ASSUME CoverInv, TheCoverage!Working, NEW verdict, NEW fails, TheCoverage!Scored(verdict, fails),
         IsScored(overload, [name |-> rows[overload].name, verdict |-> verdict, failures |-> fails]),
         UNCHANGED <<rows, trouble, pinned, cover_at, half, recorded>>
  PROVE  CoverInv'
<1> DEFINE s == [name |-> rows[overload].name, verdict |-> verdict, failures |-> fails]
<1>1. /\ SameTable /\ UNCHANGED <<cover_at, half, recorded>>
      /\ scored' = Append(scored, s) /\ overload' = overload + 1 /\ call' = 1 /\ differing' = {}
  BY DEF SameTable, TheCoverage!Scored
<1>2. RowsInv' /\ TroubleInv'
  BY <1>1, TableStays DEF CoverInv
<1> HIDE DEF s
<1>3. /\ IsList(scored') /\ Len(scored') = Len(scored) + 1 /\ DOMAIN scored' = 1..(Len(scored) + 1)
      /\ \A i \in 1..Len(scored) : scored'[i] = scored[i]
      /\ scored'[Len(scored) + 1] = s
  <2> DEFINE E == Range(scored) \cup {s}
  <2>1. scored \in Seq(Range(scored))
    BY AtWork DEF IsList
  <2>2. scored \in Seq(E) /\ s \in E
    BY <2>1, SeqMonotonic
  <2> HIDE DEF E
  <2>3. /\ scored' \in Seq(E) /\ Len(scored') = Len(scored) + 1 /\ DOMAIN scored' = 1..(Len(scored) + 1)
        /\ \A i \in 1..Len(scored) : scored'[i] = scored[i]
        /\ scored'[Len(scored) + 1] = s
    BY <1>1, <2>2
  <2> QED BY <2>3, IsListOf
<1>4. /\ overload \in 1..Len(rows) /\ Len(scored) = overload - 1 /\ Len(rows) \in Nat
      /\ cover_at \in {"next", "narrowed"} /\ half = {} /\ recorded = TheCoverage!NotRecorded
      /\ DOMAIN rows = 1..Len(rows) /\ Len(scored) \in Nat /\ DOMAIN scored = 1..Len(scored)
  BY AtWork
<1>5. overload + 1 <= Len(rows) =>
        /\ Len(Calls(overload + 1)) \in Nat /\ 1 <= Len(Calls(overload + 1)) + 1
  BY <1>4, CallsOfARow DEF CoverInv, RowsInv, Calls
<1>7. SweepAt'
  <2>1. overload' \in 1..(Len(rows') + 1) /\ Len(scored') = overload' - 1 /\ cover_at' \in {"next", "narrowed"}
    BY <1>1, <1>3, <1>4 DEF SameTable
  <2>2. call' \in Nat \ {0} /\ half' = {}
    BY <1>1, <1>4
  <2>3. differing' = Differing(overload, call - 1)'
    <3>1. 1..(call' - 1) = {}
      BY <1>1
    <3>2. Troubled(overload, call - 1)' = {}
      BY <3>1 DEF Troubled
    <3>3. Differing(overload, call - 1)' = {}
      BY <3>2 DEF Differing
    <3> QED BY <1>1, <3>3
  <2>4. overload' <= Len(rows') => call' <= Len(Calls(overload)') + 1
    <3>1. Calls(overload)' = Calls(overload + 1) /\ Len(rows') = Len(rows)
      BY <1>1 DEF SameTable, Calls
    <3> QED BY <1>1, <1>5, <3>1
  <2> QED BY <1>3, <2>1, <2>2, <2>3, <2>4 DEF SweepAt
<1>8. ScoredInv'
  <2>1. IsScored(overload, s)
    BY DEF s
  <2>2. \A i \in 1..(Len(scored) + 1) : IsScored(i, scored'[i])
    <3>1. \A i \in 1..Len(scored) : IsScored(i, scored[i])
      BY <1>4 DEF CoverInv, ScoredInv
    <3>2. \A i \in 1..(Len(scored) + 1) : i \in 1..Len(scored) \/ i = Len(scored) + 1
      BY <1>4
    <3> QED BY <1>3, <1>4, <2>1, <3>1, <3>2
  <2>3. \A i, t : IsScored(i, t)' <=> IsScored(i, t)
    BY <1>1, TableStays DEF CoverInv
  <2>4. Len(scored') <= Len(rows')
    BY <1>1, <1>3, <1>4 DEF SameTable
  <2> QED BY <1>3, <2>2, <2>3, <2>4 DEF ScoredInv
<1>9. RecordedInv'
  BY <1>1, <1>4 DEF RecordedInv, TheCoverage!NotRecorded
<1> QED BY <1>1, <1>2, <1>4, <1>7, <1>8, <1>9 DEF CoverInv

LEMMA SkipRowKeeps == ASSUME CoverInv, TheCoverage!SkipRow PROVE CoverInv'
<1> DEFINE u == TheCoverage!Untested(rows[overload])
<1>1. /\ TheCoverage!Working /\ u # "no" /\ TheCoverage!Scored(u, {})
      /\ UNCHANGED <<rows, trouble, pinned, cover_at, half, recorded>>
  BY DEF TheCoverage!SkipRow
<1>2. IsScored(overload, [name |-> rows[overload].name, verdict |-> u, failures |-> {}])
  BY <1>1 DEF IsScored, Untested
<1> HIDE DEF u
<1> QED BY <1>1, <1>2, ScoringKeeps

LEMMA ScoreRowKeeps == ASSUME CoverInv, TheCoverage!ScoreRow PROVE CoverInv'
<1> DEFINE v == IF differing = {} THEN "passed" ELSE "failed"
<1>1. /\ TheCoverage!Working /\ Untested(overload) = "no" /\ TheCoverage!Scored(v, differing)
      /\ call = Len(Calls(overload)) + 1
      /\ UNCHANGED <<rows, trouble, pinned, cover_at, half, recorded>>
  BY DEF TheCoverage!ScoreRow, Untested, Calls
<1>2. differing = Differing(overload, Len(Calls(overload)))
  <2>1. differing = Differing(overload, call - 1) /\ Len(Calls(overload)) \in Nat
    BY <1>1, AtWork
  <2>2. call - 1 = Len(Calls(overload))
    BY <1>1, <2>1
  <2> QED BY <2>1, <2>2
<1>3. IsScored(overload, [name |-> rows[overload].name, verdict |-> v, failures |-> differing])
  BY <1>1, <1>2 DEF IsScored
<1> HIDE DEF v
<1> QED BY <1>1, <1>3, ScoringKeeps

LEMMA AskBothKeeps == ASSUME CoverInv, TheCoverage!AskBoth PROVE CoverInv'
<1>1. /\ TheCoverage!Working /\ Untested(overload) = "no" /\ call <= Len(Calls(overload))
      /\ differing' = IF TheCoverage!Answers = {} THEN differing
                      ELSE differing \cup {[call |-> call,
                             crash |-> \E side \in TheCoverage!Sides : TheCoverage!Panics(side)]}
      /\ half' = {} /\ call' = call + 1
      /\ UNCHANGED <<rows, trouble, cover_at, overload, scored, recorded>>
  BY DEF TheCoverage!AskBoth, TheCoverage!Heard, Untested, Calls
<1>2. SameTable
  BY <1>1 DEF SameTable
<1>3. /\ overload \in 1..Len(rows) /\ call \in Nat \ {0} /\ half = {}
      /\ cover_at \in {"next", "narrowed"} /\ recorded = TheCoverage!NotRecorded
      /\ Len(Calls(overload)) \in Nat /\ differing = Differing(overload, call - 1)
  BY <1>1, AtWork
<1>4. Crashes(overload, call) <=> \E side \in TheCoverage!Sides : TheCoverage!Panics(side)
  BY DEF Crashes, TheCoverage!Sides, TheCoverage!Panics, TheCoverage!Here
<1>5. TheCoverage!Answers # {} <=> \E t \in trouble : t.row = overload /\ t.call = call
  <2>1. TheCoverage!Answers # {} <=>
          \E what \in {"differs", "left panics", "right panics"} :
            [row |-> overload, call |-> call, what |-> what] \in trouble
    <3>1. TheCoverage!Answers # {} <=>
            (\E side \in TheCoverage!Sides : TheCoverage!Panics(side)) \/ TheCoverage!Here("differs")
      BY <1>3 DEF TheCoverage!Answers
    <3> QED BY <1>4, <3>1 DEF Crashes, TheCoverage!Here
  <2>2. \A t \in trouble : /\ t = [row |-> t.row, call |-> t.call, what |-> t.what]
                           /\ t.what \in {"differs", "left panics", "right panics"}
    BY DEF CoverInv, TroubleInv
  <2> QED BY <2>1, <2>2
<1>6. differing' = Differing(overload, call)
  <2>1. Differing(overload, call) =
          IF \E t \in trouble : t.row = overload /\ t.call = call
            THEN differing \cup {[call |-> call, crash |-> Crashes(overload, call)]}
            ELSE differing
    BY <1>3, OneMoreCall
  <2>2. [call |-> call, crash |-> Crashes(overload, call)]
          = [call |-> call, crash |-> \E side \in TheCoverage!Sides : TheCoverage!Panics(side)]
    <3> DEFINE a == Crashes(overload, call)
               b == \E side \in TheCoverage!Sides : TheCoverage!Panics(side)
    <3>1. a \in BOOLEAN /\ b \in BOOLEAN /\ (a <=> b)
      BY <1>4 DEF Crashes
    <3> HIDE DEF a, b
    <3>2. a = b
      BY <3>1
    <3>3. [call |-> call, crash |-> a] = [call |-> call, crash |-> b]
      BY <3>2
    <3> QED BY <3>3 DEF a, b
  <2>3. CASE TheCoverage!Answers = {}
    BY <1>1, <1>5, <2>1, <2>3
  <2>4. CASE TheCoverage!Answers # {}
    BY <1>1, <1>5, <2>1, <2>2, <2>4
  <2> QED BY <2>3, <2>4
<1>7. SweepAt'
  <2>1. differing' = Differing(overload, call - 1)'
    <3>1. Differing(overload, call - 1)' = Differing(overload, call)
      <4>1. call' - 1 = call /\ overload' = overload /\ trouble' = trouble
        BY <1>1, <1>3
      <4> QED BY <4>1 DEF Differing, Troubled, Crashes
    <3> QED BY <1>6, <3>1
  <2>2. call' \in Nat \ {0} /\ call' <= Len(Calls(overload)') + 1
    <3>1. Calls(overload)' = Calls(overload)
      BY <1>1 DEF Calls
    <3> QED BY <1>1, <1>3, <3>1
  <2> QED BY <1>1, <1>3, <2>1, <2>2 DEF CoverInv, SweepAt
<1>8. RowsInv' /\ TroubleInv'
  BY <1>2, TableStays DEF CoverInv
<1>9. ScoredInv'
  BY <1>1, <1>2, TableStays DEF CoverInv, ScoredInv
<1>10. RecordedInv'
  BY <1>1, <1>3 DEF RecordedInv, TheCoverage!NotRecorded
<1> QED BY <1>1, <1>3, <1>7, <1>8, <1>9, <1>10 DEF CoverInv

LEMMA StopSweepKeeps == ASSUME CoverInv, TheCoverage!StopSweep PROVE CoverInv'
<1>1. /\ TheCoverage!Working /\ cover_at' = "stopped" /\ scored' = <<>>
      /\ UNCHANGED <<rows, trouble, overload, call, half, differing, recorded>>
  BY DEF TheCoverage!StopSweep
<1>2. SameTable
  BY <1>1 DEF SameTable
<1>3. recorded = TheCoverage!NotRecorded /\ Len(rows) \in Nat
  BY <1>1, AtWork
<1>4. IsList(scored') /\ Len(scored') = 0 /\ DOMAIN scored' = {}
  BY <1>1 DEF IsList
<1>5. SweepAt'
  BY <1>1, <1>4 DEF CoverInv, SweepAt
<1>6. RowsInv' /\ TroubleInv'
  BY <1>2, TableStays DEF CoverInv
<1>7. ScoredInv'
  BY <1>1, <1>3, <1>4 DEF ScoredInv
<1>8. RecordedInv'
  BY <1>1, <1>3 DEF RecordedInv, TheCoverage!NotRecorded
<1> QED BY <1>1, <1>5, <1>6, <1>7, <1>8 DEF CoverInv

LEMMA PublishKeeps == ASSUME CoverInv, TheCoverage!Publish PROVE CoverInv'
<1>1. /\ cover_at \in {"next", "narrowed"} /\ overload = Len(rows) + 1 /\ cover_at' = "done"
      /\ recorded' \in {TheCoverage!Coverage, TheCoverage!NotRecorded}
      /\ UNCHANGED <<rows, trouble, overload, call, half, differing, scored>>
  BY DEF TheCoverage!Publish
<1>2. SameTable
  BY <1>1 DEF SameTable
<1>3. Len(rows) \in Nat /\ Len(scored) = Len(rows)
  BY <1>1, Listed DEF CoverInv, RowsInv, SweepAt
<1>4. SweepAt'
  BY <1>1, <1>3 DEF CoverInv, SweepAt
<1>5. RowsInv' /\ TroubleInv'
  BY <1>2, TableStays DEF CoverInv
<1>6. ScoredInv'
  BY <1>1, <1>2, TableStays DEF CoverInv, ScoredInv
<1>7. TheCoverage!Coverage' = TheCoverage!Coverage
  BY <1>1 DEF TheCoverage!Coverage, TheCoverage!Names, TheCoverage!NameVerdict,
              TheCoverage!Verdicts, TheCoverage!RowVerdict, TheCoverage!TallyOf
<1>8. RecordedInv'
  BY <1>1, <1>3, <1>7 DEF RecordedInv, TheCoverage!NotRecorded
<1> QED BY <1>1, <1>4, <1>5, <1>6, <1>8 DEF CoverInv

LEMMA CoverSteps == ASSUME CoverInv, TheCoverage!Next PROVE CoverInv'
BY ReadCatalogKeeps, SkipRowKeeps, AskBothKeeps, StopSweepKeeps, ScoreRowKeeps, PublishKeeps
   DEF TheCoverage!Next

\* A row that was scored as passed is right, and one that failed is not.
LEMMA VerdictsAreEarned ==
  ASSUME CoverInv, NEW i \in DOMAIN scored
  PROVE  /\ i \in DOMAIN rows
         /\ scored[i].verdict = "passed" <=> TheCoverage!RightAbout(i)
         /\ scored[i].verdict = "failed" => TheCoverage!InTrouble(i)
         /\ scored[i].verdict \in {"passed", "failed"} <=> Untested(i) = "no"
<1>1. /\ IsList(rows) /\ IsList(scored) /\ Len(scored) <= Len(rows) /\ IsScored(i, scored[i])
      /\ HasParameters(rows[i]) \/ i \notin DOMAIN rows
  BY DEF CoverInv, RowsInv, SweepAt, ScoredInv
<1>2. i \in DOMAIN rows /\ HasParameters(rows[i])
  BY <1>1, Listed
<1>3. Len(Calls(i)) \in Nat
  BY <1>2, CallsOfARow DEF Calls
<1>4. Differing(i, Len(Calls(i))) = {} <=> ~TheCoverage!InTrouble(i)
  <2>1. \A t \in trouble : t.row = i => t.call \in 1..Len(Calls(i))
    BY DEF CoverInv, TroubleInv
  <2>2. Troubled(i, Len(Calls(i))) = {} <=> ~\E t \in trouble : t.row = i
    BY <2>1 DEF Troubled
  <2>3. Differing(i, Len(Calls(i))) = {} <=> Troubled(i, Len(Calls(i))) = {}
    BY DEF Differing
  <2> QED BY <2>2, <2>3 DEF TheCoverage!InTrouble
<1>5. Untested(i) = "no" => TheCoverage!Examined(rows[i])
  BY <1>2, UntestedOrCalled, CallsOfARow DEF Untested
<1>6. Untested(i) \in {"volatile", "no boundary set", "kind not called", "no"}
  BY UntestedOrCalled DEF Untested
<1>7. CASE Untested(i) = "no"
  <2>1. /\ scored[i].failures = Differing(i, Len(Calls(i)))
        /\ scored[i].verdict = IF scored[i].failures = {} THEN "passed" ELSE "failed"
    BY <1>1, <1>7 DEF IsScored
  <2> QED BY <1>2, <1>4, <1>5, <1>7, <2>1 DEF TheCoverage!RightAbout, Untested
<1>8. CASE Untested(i) # "no"
  <2>1. scored[i].verdict = Untested(i)
    BY <1>1, <1>8 DEF IsScored
  <2> QED BY <1>2, <1>6, <1>8, <2>1 DEF TheCoverage!RightAbout, Untested
<1> QED BY <1>7, <1>8

\* The whole table was scored.
AllScored == CoverInv /\ Len(scored) = Len(rows)

LEMMA AllScoredIs ==
  ASSUME AllScored
  PROVE  /\ DOMAIN scored = DOMAIN rows /\ DOMAIN rows = 1..Len(rows) /\ Len(rows) \in Nat
         /\ IsFiniteSet(DOMAIN rows) /\ Cardinality(DOMAIN rows) = Len(rows)
         /\ \A i \in DOMAIN rows : scored[i].name = rows[i].name
         /\ TheCoverage!Names = {rows[i].name : i \in DOMAIN rows}
<1>1. /\ DOMAIN scored = DOMAIN rows /\ DOMAIN rows = 1..Len(rows) /\ Len(rows) \in Nat
  BY Listed DEF AllScored, CoverInv, RowsInv, SweepAt
<1>2. IsFiniteSet(1..Len(rows)) /\ Cardinality(1..Len(rows)) = Len(rows)
  <2> DEFINE n == Len(rows)
  <2>1. n \in Nat
    BY <1>1
  <2> HIDE DEF n
  <2>2. IsFiniteSet(1..n) /\ Cardinality(1..n) = IF 1 > n THEN 0 ELSE n - 1 + 1
    BY <2>1, FS_Interval
  <2>3. Cardinality(1..n) = n
    BY <2>1, <2>2
  <2> QED BY <2>2, <2>3 DEF n
<1>3. \A i \in DOMAIN rows : scored[i].name = rows[i].name
  BY <1>1 DEF AllScored, CoverInv, ScoredInv, IsScored
<1>4. TheCoverage!Names = {rows[i].name : i \in DOMAIN rows}
  BY <1>1, <1>3 DEF TheCoverage!Names
<1> QED BY <1>1, <1>2, <1>3, <1>4

LEMMA TallyIs ==
  ASSUME NEW f
  PROVE  /\ TheCoverage!TallyOf(f).total = Cardinality(DOMAIN f)
         /\ TheCoverage!TallyOf(f).passed = Cardinality({x \in DOMAIN f : f[x] \in {"passed"}})
         /\ TheCoverage!TallyOf(f).failed = Cardinality({x \in DOMAIN f : f[x] \in {"failed"}})
<1>1. /\ TheCoverage!TallyOf(f).total = TheCoverage!Cardinality(DOMAIN f)
      /\ TheCoverage!TallyOf(f).passed = TheCoverage!Cardinality({x \in DOMAIN f : f[x] \in {"passed"}})
      /\ TheCoverage!TallyOf(f).failed = TheCoverage!Cardinality({x \in DOMAIN f : f[x] \in {"failed"}})
  BY DEF TheCoverage!TallyOf
<1> QED BY <1>1, SameCardinality

LEMMA NamesAreEarned ==
  ASSUME AllScored
  PROVE  LET Overloads(name) == {i \in DOMAIN rows : rows[i].name = name}
             allNames == {rows[i].name : i \in DOMAIN rows}
         IN  /\ TheCoverage!Coverage.names.passed
                  = Cardinality({n \in allNames : \A i \in Overloads(n) : TheCoverage!RightAbout(i)})
             /\ TheCoverage!Coverage.names.total = Cardinality(allNames)
<1> DEFINE f == [n \in TheCoverage!Names |-> TheCoverage!NameVerdict(n)]
           allNames == {rows[i].name : i \in DOMAIN rows}
           Overloads(name) == {i \in DOMAIN rows : rows[i].name = name}
<1>1. TheCoverage!Coverage.names = TheCoverage!TallyOf(f)
  BY DEF TheCoverage!Coverage
<1>2. DOMAIN f = allNames /\ \A n \in allNames : f[n] = TheCoverage!NameVerdict(n)
  BY AllScoredIs
<1>3. \A n : TheCoverage!NameVerdict(n) = "passed"
               <=> \A i \in Overloads(n) : TheCoverage!RightAbout(i)
  <2> SUFFICES ASSUME NEW n
               PROVE  TheCoverage!NameVerdict(n) = "passed"
                        <=> \A i \in Overloads(n) : TheCoverage!RightAbout(i)
    OBVIOUS
  <2>1. TheCoverage!Verdicts(n) = {scored[i].verdict : i \in Overloads(n)}
    <3>1. {j \in DOMAIN scored : scored[j].name = n} = Overloads(n)
      BY AllScoredIs
    <3> QED BY <3>1 DEF TheCoverage!Verdicts
  <2>2. \A i \in Overloads(n) : scored[i].verdict = "passed" <=> TheCoverage!RightAbout(i)
    BY AllScoredIs, VerdictsAreEarned DEF AllScored
  <2>3. TheCoverage!NameVerdict(n) = "passed"
          <=> \A i \in Overloads(n) : scored[i].verdict = "passed"
    <3> HIDE DEF Overloads
    <3> QED BY <2>1 DEF TheCoverage!NameVerdict
  <2> QED BY <2>2, <2>3
<1> HIDE DEF f
<1>4. {n \in DOMAIN f : f[n] \in {"passed"}}
        = {n \in allNames : \A i \in Overloads(n) : TheCoverage!RightAbout(i)}
  <2> HIDE DEF allNames, Overloads
  <2>1. \A n \in allNames : f[n] \in {"passed"} <=> \A i \in Overloads(n) : TheCoverage!RightAbout(i)
    BY <1>2, <1>3
  <2> QED BY <1>2, <2>1
<1>5. /\ TheCoverage!TallyOf(f).total = Cardinality(DOMAIN f)
      /\ TheCoverage!TallyOf(f).passed = Cardinality({n \in DOMAIN f : f[n] \in {"passed"}})
  BY TallyIs
<1> QED BY <1>1, <1>2, <1>4, <1>5

LEMMA OverloadsAreEarned ==
  ASSUME AllScored
  PROVE  /\ TheCoverage!Coverage.overloads.total = Len(rows)
         /\ TheCoverage!Coverage.overloads.passed + TheCoverage!Coverage.overloads.failed
              = Cardinality({i \in TheCoverage!Callable : ~TheCoverage!Volatile(rows[i])})
<1> DEFINE f == [i \in DOMAIN scored |-> TheCoverage!RowVerdict(i)]
           P == {i \in DOMAIN f : f[i] \in {"passed"}}
           F == {i \in DOMAIN f : f[i] \in {"failed"}}
           C == {i \in TheCoverage!Callable : ~TheCoverage!Volatile(rows[i])}
<1>1. TheCoverage!Coverage.overloads = TheCoverage!TallyOf(f)
  BY DEF TheCoverage!Coverage
<1>2. DOMAIN f = DOMAIN rows /\ \A i \in DOMAIN rows : f[i] = scored[i].verdict
  BY AllScoredIs DEF TheCoverage!RowVerdict
<1> HIDE DEF f
<1>3. P \cap F = {} /\ P \subseteq DOMAIN rows /\ F \subseteq DOMAIN rows
  BY <1>2
<1>4. P \cup F = C
  <2>1. \A i \in DOMAIN rows : i \in P \cup F <=> Untested(i) = "no"
    BY <1>2, AllScoredIs, VerdictsAreEarned DEF AllScored
  <2>2. \A i : i \in C <=> i \in DOMAIN rows /\ Untested(i) = "no"
    BY UntestedOrCalled DEF TheCoverage!Callable, Untested
  <2> HIDE DEF P, F, C
  <2> QED BY <1>3, <2>1, <2>2
<1>5. TheCoverage!TallyOf(f).total = Cardinality(DOMAIN f)
      /\ TheCoverage!TallyOf(f).passed = Cardinality(P)
      /\ TheCoverage!TallyOf(f).failed = Cardinality(F)
  BY TallyIs
<1> HIDE DEF P, F, C
<1>6. IsFiniteSet(P) /\ IsFiniteSet(F)
  BY <1>3, AllScoredIs, FS_Subset
<1>7. Cardinality(P \cup F) = Cardinality(P) + Cardinality(F)
  <2>1. Cardinality(P \cup F) = Cardinality(P) + Cardinality(F) - Cardinality(P \cap F)
    BY <1>6, FS_Union
  <2>2. Cardinality(P) \in Nat /\ Cardinality(F) \in Nat /\ Cardinality(P \cap F) = 0
    BY <1>3, <1>6, FS_CardinalityType, FS_EmptySet
  <2> QED BY <2>1, <2>2
<1> QED BY <1>1, <1>2, <1>4, <1>5, <1>7, AllScoredIs DEF C

\* A scalar nothing could call has a type without edges to show for it.
LEMMA InTheWayIsNamed ==
  ASSUME AllScored, NEW i \in DOMAIN rows \ TheCoverage!Callable, rows[i].kind = "scalar"
  PROVE  \E type \in TheCoverage!Range(rows[i].parameters) : TheCoverage!Unknown(type) > 0
<1>1. HasParameters(rows[i]) /\ TheCoverage!Calls(rows[i]) = <<>>
  BY DEF AllScored, CoverInv, RowsInv, TheCoverage!Callable
<1>2. PICK at \in DOMAIN rows[i].parameters :
        ~TheCoverage!HasBoundaries(rows[i].parameters[at])
  BY <1>1, CallsOfARow DEF Known
<1> DEFINE type == rows[i].parameters[at]
           Pairs(j) == {j} \X DOMAIN rows[j].parameters
           All == UNION {Pairs(j) : j \in DOMAIN rows}
           InTheWay == {x \in All : /\ x[1] \notin TheCoverage!Callable
                                    /\ rows[x[1]].parameters[x[2]] = type
                                    /\ ~TheCoverage!HasBoundaries(type)}
<1>3. type \in TheCoverage!Range(rows[i].parameters)
  BY DEF TheCoverage!Range
<1>4. TheCoverage!Unknown(type) = Cardinality(InTheWay)
  BY SameCardinality DEF TheCoverage!Unknown
<1>5. IsFiniteSet(All)
  <2>1. \A j \in DOMAIN rows : IsFiniteSet(Pairs(j))
    <3> SUFFICES ASSUME NEW j \in DOMAIN rows PROVE IsFiniteSet(Pairs(j))
      OBVIOUS
    <3>1. /\ DOMAIN rows[j].parameters = 1..Len(rows[j].parameters)
          /\ Len(rows[j].parameters) \in Nat
      BY Listed DEF AllScored, CoverInv, RowsInv, HasParameters
    <3>2. IsFiniteSet(DOMAIN rows[j].parameters)
      BY <3>1, FS_Interval
    <3> QED BY <3>2, FS_Singleton, FS_Product
  <2> DEFINE f == [j \in DOMAIN rows |-> Pairs(j)]
             S == {Pairs(j) : j \in DOMAIN rows}
  <2>2. f \in Surjection(DOMAIN rows, S)
    BY DEF Surjection
  <2>3. IsFiniteSet(S)
    BY <2>2, AllScoredIs, FS_Surjection
  <2>4. \A T \in S : IsFiniteSet(T)
    BY <2>1
  <2> HIDE DEF S
  <2>5. IsFiniteSet(UNION S)
    BY <2>3, <2>4, FS_UNION
  <2> QED BY <2>5 DEF S
<1>6. <<i, at>> \in InTheWay
  <2>1. <<i, at>> \in Pairs(i)
    BY <1>2
  <2>2. <<i, at>> \in All
    BY <2>1
  <2> HIDE DEF All
  <2> QED BY <1>2, <2>2
<1>7. IsFiniteSet(InTheWay) /\ InTheWay # {}
  <2> HIDE DEF All
  <2>1. InTheWay \in SUBSET All
    OBVIOUS
  <2> HIDE DEF InTheWay
  <2> QED BY <1>5, <1>6, <2>1, FS_Subset
<1> HIDE DEF InTheWay
<1>8. Cardinality(InTheWay) > 0
  BY <1>7, FS_EmptySet, FS_CardinalityType
<1> QED BY <1>3, <1>4, <1>8

\* A crash is the panic of one call, and two crashes are of two.
LEMMA CrashesAreEarned ==
  ASSUME AllScored
  PROVE  TheCoverage!Coverage.crashes <= Cardinality(trouble)
<1> DEFINE All == UNION {{i} \X scored[i].failures : i \in DOMAIN scored}
           X == {x \in All : x[2].crash}
           Of(x) == CHOOSE t \in trouble : t.row = x[1] /\ t.call = x[2].call
           f == [x \in X |-> Of(x)]
<1>1. TheCoverage!Coverage.crashes = Cardinality(X)
  BY SameCardinality DEF TheCoverage!Coverage
<1>2. \A x \in X : /\ x = <<x[1], x[2]>> /\ x[1] \in DOMAIN scored
                   /\ x[2] \in scored[x[1]].failures /\ x[2].crash
  OBVIOUS
<1>3. \A i \in DOMAIN scored : scored[i].failures \subseteq Differing(i, Len(Calls(i)))
  BY DEF AllScored, CoverInv, ScoredInv, IsScored
<1>4. \A i, n : \A d \in Differing(i, n) :
        /\ d = [call |-> d.call, crash |-> d.crash] /\ d.crash \in BOOLEAN
        /\ \E t \in trouble : t.row = i /\ t.call = d.call
  <2> SUFFICES ASSUME NEW i, NEW n, NEW d \in Differing(i, n)
               PROVE  /\ d = [call |-> d.call, crash |-> d.crash] /\ d.crash \in BOOLEAN
                      /\ \E t \in trouble : t.row = i /\ t.call = d.call
    OBVIOUS
  <2>1. PICK c \in Troubled(i, n) : d = [call |-> c, crash |-> Crashes(i, c)]
    BY DEF Differing
  <2>2. Crashes(i, c) \in BOOLEAN
    BY DEF Crashes
  <2>3. d.call = c /\ d.crash = Crashes(i, c)
    BY <2>1
  <2>4. \E t \in trouble : t.row = i /\ t.call = c
    BY DEF Troubled
  <2> QED BY <2>1, <2>2, <2>3, <2>4
<1> HIDE DEF X
<1>5. \A x \in X : Of(x) \in trouble /\ Of(x).row = x[1] /\ Of(x).call = x[2].call
  BY <1>2, <1>3, <1>4
<1>6. \A x, y \in X : Of(x) = Of(y) => x = y
  <2> SUFFICES ASSUME NEW x \in X, NEW y \in X, Of(x) = Of(y) PROVE x = y
    OBVIOUS
  <2>1. x[1] = y[1] /\ x[2].call = y[2].call
    BY <1>5
  <2>2. x[2] = [call |-> x[2].call, crash |-> TRUE] /\ y[2] = [call |-> y[2].call, crash |-> TRUE]
    <3>1. \A z \in X : z[2] = [call |-> z[2].call, crash |-> z[2].crash]
                       /\ z[2].crash \in BOOLEAN /\ z[2].crash
      BY <1>2, <1>3, <1>4
    <3>2. \A z \in X : z[2].crash = TRUE
      BY <3>1
    <3> QED BY <3>1, <3>2
  <2>3. x[2] = y[2]
    BY <2>1, <2>2
  <2> QED BY <1>2, <2>1, <2>3
<1> HIDE DEF Of
<1>7. f \in Injection(X, trouble)
  BY <1>5, <1>6 DEF Injection, IsInjective
<1>8. IsFiniteSet(trouble)
  BY DEF AllScored, CoverInv, TroubleInv
<1>9. Cardinality(X) <= Cardinality(trouble)
  BY <1>7, <1>8, FS_Injection
<1> QED BY <1>1, <1>9

LEMMA NumbersAreEarned == ASSUME CoverInv PROVE TheCoverage!PassedIsEarned
<1>1. \A i \in DOMAIN scored :
        /\ scored[i].verdict = "passed" => TheCoverage!RightAbout(i)
        /\ scored[i].verdict = "failed" => TheCoverage!InTrouble(i)
  BY VerdictsAreEarned
<1>2. ASSUME recorded # TheCoverage!NotRecorded
      PROVE  AllScored /\ recorded = TheCoverage!Coverage
  BY <1>2 DEF AllScored, CoverInv, RecordedInv
<1> QED
  BY <1>1, <1>2, NamesAreEarned, OverloadsAreEarned, InTheWayIsNamed, CrashesAreEarned,
     SameCardinality DEF TheCoverage!PassedIsEarned

-----------------------------------------------------------------------------
(***************************************************************************)
(* resource.rs: how many ratios there are.                                 *)
(***************************************************************************)
LEMMA RatiosCount ==
  ASSUME NEW pairs, IsList(pairs), Ratios(pairs) # NoRatios
  PROVE  Ratios(pairs).time.count \in 1..Cardinality({i \in DOMAIN pairs : WorthDividing(pairs[i])})
<1> DEFINE Worth == {i \in DOMAIN pairs : WorthDividing(pairs[i])}
           kept == Sublist(pairs, Worth)
           Over == {i \in DOMAIN kept : kept[i][2]["wall"] > 0}
           shares == Shares(kept, "wall")
<1>1. IsList(kept) /\ Len(kept) = Cardinality(Worth) /\ Cardinality(Worth) \in Nat
  BY SublistIs
<1> HIDE DEF Worth, kept
<1>2. /\ Len(kept) \in Nat /\ DOMAIN kept = 1..Len(kept)
      /\ Cardinality(Over) \in Nat /\ IsFiniteSet(Over)
      /\ IsList(Sublist(kept, Over)) /\ Len(Sublist(kept, Over)) = Cardinality(Over)
  BY <1>1, SublistIs, Listed
<1>a. Over \in SUBSET (1..Len(kept))
  BY <1>2
<1> HIDE DEF Over
<1>3. Cardinality(Over) <= Len(kept)
  <2> DEFINE n == Len(kept)
  <2>0. n \in Nat
    BY <1>2
  <2> HIDE DEF n
  <2>1. IsFiniteSet(1..n) /\ Cardinality(1..n) = n
    BY <2>0, FS_Interval
  <2> QED BY <1>a, <2>1, FS_Subset DEF n
<1>4. DOMAIN shares = 1..Cardinality(Over)
  BY <1>2, Listed DEF Shares, Over
<1> HIDE DEF shares
<1>5. Ratios(pairs).time = Spread(shares) /\ Spread(shares) # NoSpread
  BY DEF Ratios, kept, Worth, shares
<1>6. shares # <<>> /\ Spread(shares).count = Len(Sorted(shares))
  BY <1>5 DEF Spread
<1>7. Len(Sorted(shares)) = Cardinality(Over)
  <2>1. Sorted(shares) = [k \in 1..Cardinality(Over) |-> shares[Placed(shares, k)]]
    BY <1>4 DEF Sorted
  <2>2. DOMAIN Sorted(shares) = 1..Cardinality(Over)
    BY <2>1
  <2>3. Sorted(shares) \in [1..Cardinality(Over) -> {shares[Placed(shares, k)] : k \in 1..Cardinality(Over)}]
    BY <2>1
  <2>4. Sorted(shares) \in Seq({shares[Placed(shares, k)] : k \in 1..Cardinality(Over)})
    BY <1>2, <2>3
  <2> QED BY <1>2, <2>2, <2>4
<1>8. Cardinality(Over) # 0
  <2>1. ASSUME Cardinality(Over) = 0 PROVE FALSE
    <3>1. DOMAIN shares = {}
      BY <1>4, <2>1
    <3>2. shares = [i \in DOMAIN Sublist(kept, Over) |-> shares[i]]
      BY DEF shares, Shares, Over
    <3>3. shares = [i \in {} |-> shares[i]]
      BY <3>1, <3>2 DEF shares, Shares, Over
    <3>4. shares \in Seq({}) /\ Len(shares) = 0
      BY <3>3
    <3> QED BY <1>6, <3>4
  <2> QED BY <2>1
<1> QED BY <1>1, <1>2, <1>3, <1>5, <1>6, <1>7, <1>8 DEF Worth

LEMMA SameRatios ==
  ASSUME NEW pairs
  PROVE  /\ TheSpend!Ratios(pairs) = Ratios(pairs) /\ TheSpend!NoRatios = NoRatios
         /\ TheSuite!Ratios(pairs) = Ratios(pairs) /\ TheSuite!NoRatios = NoRatios
         /\ TheSuite!Shares(pairs, "wall") = Shares(pairs, "wall")
         /\ \A values : TheSuite!Sorted(values) = Sorted(values)
<1>a. \A values : TheSpend!Sorted(values) = Sorted(values) /\ TheSuite!Sorted(values) = Sorted(values)
  <2>1. \A keys, i : /\ TheSuite!Ahead(keys, i) = Ahead(keys, i)
                     /\ TheSpend!Ahead(keys, i) = Ahead(keys, i)
    BY DEF TheSuite!Ahead, TheSpend!Ahead, Ahead
  <2>2. \A keys, k : /\ TheSuite!Placed(keys, k) = Placed(keys, k)
                     /\ TheSpend!Placed(keys, k) = Placed(keys, k)
    BY <2>1, SameCardinality DEF TheSuite!Placed, TheSpend!Placed, Placed
  <2> QED BY <2>2 DEF TheSpend!Sorted, TheSuite!Sorted, Sorted
<1>1. \A values : TheSpend!Spread(values) = Spread(values) /\ TheSuite!Spread(values) = Spread(values)
  <2>1. \A s, q : TheSpend!Quantile(s, q) = Quantile(s, q) /\ TheSuite!Quantile(s, q) = Quantile(s, q)
    BY DEF TheSpend!Quantile, TheSuite!Quantile, Quantile
  <2> QED
    BY <1>a, <2>1 DEF TheSpend!Spread, TheSuite!Spread, Spread,
                      TheSpend!NoSpread, TheSuite!NoSpread, NoSpread
<1>2. \A list, field : /\ TheSpend!Shares(list, field) = Shares(list, field)
                       /\ TheSuite!Shares(list, field) = Shares(list, field)
  <2> SUFFICES ASSUME NEW list, NEW field
               PROVE  /\ TheSpend!Shares(list, field) = Shares(list, field)
                      /\ TheSuite!Shares(list, field) = Shares(list, field)
    OBVIOUS
  <2> DEFINE I == {i \in DOMAIN list : list[i][2][field] > 0}
  <2>1. TheSpend!Sublist(list, I) = Sublist(list, I) /\ TheSuite!Sublist(list, I) = Sublist(list, I)
    BY SameSublist
  <2> QED BY <2>1 DEF TheSpend!Shares, TheSuite!Shares, Shares
<1>3. TheSpend!NoRatios = NoRatios /\ TheSuite!NoRatios = NoRatios
  BY DEF TheSpend!NoRatios, TheSuite!NoRatios, NoRatios,
         TheSpend!NoSpread, TheSuite!NoSpread, NoSpread
<1>4. \A pair : /\ TheSpend!WorthDividing(pair) <=> WorthDividing(pair)
                /\ TheSuite!WorthDividing(pair) <=> WorthDividing(pair)
  BY DEF TheSpend!WorthDividing, TheSuite!WorthDividing, WorthDividing
<1> QED
  BY <1>1, <1>2, <1>3, <1>4, <1>a, SameSublist
     DEF TheSpend!Ratios, TheSuite!Ratios, Ratios, TheSpend!NoSpread, TheSuite!NoSpread, NoSpread

-----------------------------------------------------------------------------
(***************************************************************************)
(* resource.rs: how large the ratios are.                                  *)
(***************************************************************************)
\* A sorted list has the same elements, and ends where it is largest.
LEMMA SortedIs ==
  ASSUME NEW values, IsList(values), \A i \in DOMAIN values : values[i] \in Int
  PROVE  /\ IsList(Sorted(values)) /\ Len(Sorted(values)) = Len(values)
         /\ \A k \in 1..Len(values) : \E i \in 1..Len(values) : Sorted(values)[k] = values[i]
         /\ \A k, m \in 1..Len(values) : k <= m => Sorted(values)[k] <= Sorted(values)[m]
<1> DEFINE n == Len(values)
<1>1. n \in Nat /\ DOMAIN values = 1..n
  BY Listed
<1>2. \A k \in 1..n : Placed(values, k) \in 1..n
  BY <1>1, PlacedIs
<1>3. Sorted(values) = [k \in 1..n |-> values[Placed(values, k)]]
  BY <1>1 DEF Sorted
<1>4. Sorted(values) \in Seq(Int) /\ Len(Sorted(values)) = n
  BY <1>1, <1>2, <1>3
<1> QED BY <1>1, <1>2, <1>3, <1>4, IsListOf, PlacedIs

LEMMA Between ==
  ASSUME NEW lo \in Int, NEW hi \in Int, lo <= hi, NEW f \in {0, 1, 2, 3}
  PROVE  /\ lo * (4 - f) + hi * f \in Int
         /\ 4 * lo <= lo * (4 - f) + hi * f /\ lo * (4 - f) + hi * f <= 4 * hi
         /\ \A g \in {0, 1, 2, 3} : f <= g => lo * (4 - f) + hi * f <= lo * (4 - g) + hi * g
<1>1. \A g \in {0, 1, 2, 3} :
        lo * (4 - g) + hi * g =
          (IF g = 0 THEN 4 * lo ELSE IF g = 1 THEN 3 * lo + hi
           ELSE IF g = 2 THEN 2 * lo + 2 * hi ELSE lo + 3 * hi)
  <2> SUFFICES ASSUME NEW g \in {0, 1, 2, 3}
               PROVE  lo * (4 - g) + hi * g =
                        (IF g = 0 THEN 4 * lo ELSE IF g = 1 THEN 3 * lo + hi
                         ELSE IF g = 2 THEN 2 * lo + 2 * hi ELSE lo + 3 * hi)
    OBVIOUS
  <2>1. CASE g = 0
    BY <2>1
  <2>2. CASE g = 1
    BY <2>2
  <2>3. CASE g = 2
    BY <2>3
  <2>4. CASE g = 3
    BY <2>4
  <2> QED BY <2>1, <2>2, <2>3, <2>4
<1> DEFINE v == [g \in {0, 1, 2, 3} |-> lo * (4 - g) + hi * g]
<1>2. /\ v[0] = 4 * lo /\ v[1] = 3 * lo + hi /\ v[2] = 2 * lo + 2 * hi /\ v[3] = lo + 3 * hi
      /\ \A g \in {0, 1, 2, 3} : v[g] = lo * (4 - g) + hi * g
  BY <1>1
<1> HIDE DEF v
<1>3. \A g \in {0, 1, 2, 3} :
        /\ v[g] \in Int /\ 4 * lo <= v[g] /\ v[g] <= 4 * hi
        /\ \A h \in {0, 1, 2, 3} : g <= h => v[g] <= v[h]
  BY <1>2
<1> QED BY <1>2, <1>3

\* The number at so many quarters lies between its neighbours, and does not fall.
LEMMA QuantileIs ==
  ASSUME NEW s, s \in Seq(Int), s # <<>>, NEW c \in Int,
         \A k \in 1..Len(s) : s[k] >= c,
         \A k, m \in 1..Len(s) : k <= m => s[k] <= s[m]
  PROVE  /\ Quantile(s, 2) >= 4 * c
         /\ Quantile(s, 1) <= Quantile(s, 2) /\ Quantile(s, 2) <= Quantile(s, 3)
<1> DEFINE n == Len(s)
           Low(x) == (x \div 4) + 1
           High(x) == IF x \div 4 + 1 < n THEN x \div 4 + 2 ELSE n
           At(x) == s[Low(x)] * (4 - (x % 4)) + s[High(x)] * (x % 4)
<1>1. n \in Nat /\ n >= 1 /\ \A k \in 1..n : s[k] \in Int
  BY EmptySeq
<1>2. \A q \in {1, 2, 3} : Quantile(s, q) = At(q * (n - 1)) /\ q * (n - 1) \in 0..(4 * (n - 1))
  BY <1>1 DEF Quantile
<1>3. \A x \in 0..(4 * (n - 1)) :
        /\ x \in Nat /\ Low(x) \in 1..n /\ High(x) \in 1..n /\ Low(x) <= High(x)
        /\ s[Low(x)] \in Int /\ s[High(x)] \in Int
        /\ x % 4 \in {0, 1, 2, 3} /\ x = 4 * (Low(x) - 1) + (x % 4)
  BY <1>1
<1> HIDE DEF n
<1>4. \A x \in 0..(4 * (n - 1)) :
        /\ 4 * s[Low(x)] <= At(x) /\ At(x) <= 4 * s[High(x)] /\ At(x) \in Int
  <2> SUFFICES ASSUME NEW x \in 0..(4 * (n - 1))
               PROVE  4 * s[Low(x)] <= At(x) /\ At(x) <= 4 * s[High(x)] /\ At(x) \in Int
    OBVIOUS
  <2>1. s[Low(x)] <= s[High(x)] /\ s[Low(x)] \in Int /\ s[High(x)] \in Int
    BY <1>3 DEF n
  <2>2. x % 4 \in {0, 1, 2, 3}
    BY <1>3
  <2> HIDE DEF Low, High
  <2> QED BY <2>1, <2>2, Between
<1>5. ASSUME NEW x \in 0..(4 * (n - 1)), NEW y \in 0..(4 * (n - 1)), x <= y
      PROVE  At(x) <= At(y)
  <2>1. CASE Low(x) = Low(y)
    <3>1. x % 4 <= y % 4 /\ High(x) = High(y)
      BY <1>3, <1>5, <2>1
    <3>2. s[Low(x)] <= s[High(x)] /\ s[Low(x)] \in Int /\ s[High(x)] \in Int
      BY <1>3 DEF n
    <3>3. x % 4 \in {0, 1, 2, 3} /\ y % 4 \in {0, 1, 2, 3}
      BY <1>3
    <3>4. At(y) = s[Low(x)] * (4 - (y % 4)) + s[High(x)] * (y % 4)
      BY <2>1, <3>1
    <3> DEFINE lo == s[Low(x)]
               hi == s[High(x)]
               f == x % 4
               g == y % 4
    <3>5. /\ lo \in Int /\ hi \in Int /\ lo <= hi /\ f <= g
          /\ f \in {0, 1, 2, 3} /\ g \in {0, 1, 2, 3}
          /\ At(x) = lo * (4 - f) + hi * f /\ At(y) = lo * (4 - g) + hi * g
      BY <3>1, <3>2, <3>3, <3>4
    <3> HIDE DEF lo, hi, f, g, At
    <3>6. lo * (4 - f) + hi * f <= lo * (4 - g) + hi * g
      BY <3>5, Between
    <3> QED BY <3>5, <3>6
  <2>2. CASE Low(x) # Low(y)
    <3>1. High(x) <= Low(y)
      BY <1>1, <1>3, <1>5, <2>2
    <3>2. s[High(x)] <= s[Low(y)]
      BY <1>3, <3>1 DEF n
    <3>3. At(x) <= 4 * s[High(x)] /\ 4 * s[Low(y)] <= At(y) /\ At(x) \in Int /\ At(y) \in Int
          /\ s[High(x)] \in Int /\ s[Low(y)] \in Int
      BY <1>3, <1>4
    <3> HIDE DEF Low, High, At
    <3> QED BY <3>2, <3>3
  <2> QED BY <2>1, <2>2
<1>6. 1 * (n - 1) <= 2 * (n - 1) /\ 2 * (n - 1) <= 3 * (n - 1)
  BY <1>1
<1>7. s[Low(2 * (n - 1))] >= c /\ s[Low(2 * (n - 1))] \in Int
  BY <1>2, <1>3 DEF n
<1>8. Quantile(s, 2) >= 4 * c
  <2>1. At(2 * (n - 1)) >= 4 * s[Low(2 * (n - 1))] /\ At(2 * (n - 1)) \in Int
    BY <1>2, <1>4
  <2> HIDE DEF At, Low
  <2> QED BY <1>2, <1>7, <2>1
<1> HIDE DEF At
<1> QED BY <1>2, <1>5, <1>6, <1>8

\* What is larger on the left than on the right is one or more over it.
LEMMA OneOrMore ==
  ASSUME NEW a \in Nat, NEW b \in Nat, b > 0, a > b
  PROVE  (100 * a) \div b \in Int /\ (100 * a) \div b >= 100
<1>1. PICK q : q = (100 * a) \div b
  OBVIOUS
<1>2. q \in Int /\ 100 * a < b * (q + 1)
  BY <1>1
<1>3. ASSUME q < 100 PROVE FALSE
  <2>1. q + 1 \in Int /\ q + 1 <= 100
    BY <1>2, <1>3
  <2>2. \A x, y \in Int : y <= 100 /\ x >= 0 => x * y <= x * 100
    OBVIOUS
  <2>3. b * (q + 1) <= b * 100
    BY <2>1, <2>2
  <2> QED BY <1>2, <2>3
<1> QED BY <1>1, <1>2, <1>3

-----------------------------------------------------------------------------
(***************************************************************************)
(* spend.rs.  Of the runs it is enough to know that they are lists of      *)
(* costs, which is what the pairing at the end is made of.                 *)
(***************************************************************************)
SpendInv ==
  /\ spend_at \in {"ours", "theirs", "paired"}
  /\ place \in Nat \ {0}
  /\ seen \in [{"ours", "theirs"} -> [DOMAIN Places -> Seq(Costs)]]
  /\ spend_at = "paired" => spends = TheSpend!Pair

LEMMA SpendBegins == ASSUME TheSpend!Init PROVE SpendInv
<1>1. [p \in DOMAIN Places |-> <<>>] \in [DOMAIN Places -> Seq(Costs)]
  OBVIOUS
<1> QED BY <1>1 DEF TheSpend!Init, SpendInv, TheSpend!Sorts

LEMMA SpendStays == ASSUME SpendInv, UNCHANGED spendVars PROVE SpendInv'
  BY DEF SpendInv, spendVars, TheSpend!Pair, TheSpend!Middles, TheSpend!Spent

LEMMA SpendingKeeps == ASSUME SpendInv, TheSpend!Next PROVE SpendInv'
<1> USE DEF SpendInv
<1>1. CASE TheSpend!TimeRecord
  <2>1. place \in DOMAIN Places /\ turns[place] \in Nat
    BY <1>1, BooksAssumption, Listed DEF TheSpend!TimeRecord
  <2>2. PICK numbers \in TheSpend!Numbers(place) :
          seen' = [seen EXCEPT ![spend_at][place] = @ \o numbers]
    BY <1>1 DEF TheSpend!TimeRecord
  <2>3. PICK n \in 0..turns[place] : numbers \in [1..n -> Costs]
    BY <2>2 DEF TheSpend!Numbers
  <2>4. n \in Nat
    BY <2>1, <2>3
  <2>5. numbers \in Seq(Costs)
    BY <2>3, <2>4
  <2>6. spend_at \in {"ours", "theirs"} /\ place' = place + 1 /\ UNCHANGED <<spend_at, spends>>
    BY <1>1 DEF TheSpend!TimeRecord, TheSpend!Sorts
  <2>7. seen[spend_at][place] \o numbers \in Seq(Costs)
    BY <2>1, <2>5, <2>6
  <2>8. [seen[spend_at] EXCEPT ![place] = @ \o numbers] \in [DOMAIN Places -> Seq(Costs)]
    BY <2>6, <2>7
  <2>9. seen' \in [{"ours", "theirs"} -> [DOMAIN Places -> Seq(Costs)]]
    BY <2>2, <2>6, <2>8
  <2> QED BY <2>6, <2>9
<1>2. CASE TheSpend!EndPass
  <2>1. UNCHANGED seen /\ place' = 1 /\ spend_at \in {"ours", "theirs"}
    BY <1>2 DEF TheSpend!EndPass, TheSpend!Sorts
  <2>2. spend_at' \in {"ours", "theirs", "paired"}
        /\ (spend_at' = "paired" => spends' = TheSpend!Pair)
    BY <1>2, <2>1 DEF TheSpend!EndPass
  <2>3. TheSpend!Pair' = TheSpend!Pair
    BY <2>1 DEF TheSpend!Pair, TheSpend!Middles, TheSpend!Spent
  <2> QED BY <2>1, <2>2, <2>3
<1> QED BY <1>1, <1>2 DEF TheSpend!Next

Timed(e) == {p \in DOMAIN Places : seen[e][p] # <<>>}

\* The records that both engines were timed at are as many as there are places for them.
LEMMA RecordsOf ==
  ASSUME SpendInv, spend_at = "paired"
  PROVE  LET O == Timed("ours")
             T == Timed("theirs")
         IN  /\ spends = TheSpend!Pair
             /\ spends.records = {TheSpend!Spent(p) : p \in O \cap T}
             /\ spends.ours_only = Cardinality(O \ T) /\ spends.theirs_only = Cardinality(T \ O)
             /\ IsFiniteSet(spends.records) /\ Cardinality(spends.records) = Cardinality(O \cap T)
             /\ IsFiniteSet(O) /\ IsFiniteSet(T)
<1> DEFINE O == Timed("ours")
           T == Timed("theirs")
           Both == O \cap T
           R == {TheSpend!Spent(p) : p \in Both}
           f == [p \in Both |-> TheSpend!Spent(p)]
<1>1. DOMAIN TheSpend!Middles("ours") = O /\ DOMAIN TheSpend!Middles("theirs") = T
  BY DEF TheSpend!Middles, Timed
<1>2. spends = [records |-> R, ours_only |-> Cardinality(O \ T), theirs_only |-> Cardinality(T \ O)]
  BY <1>1, SameCardinality DEF SpendInv, TheSpend!Pair
<1>3. IsFiniteSet(O) /\ IsFiniteSet(T) /\ IsFiniteSet(Both)
  <2>1. Len(Places) \in Nat /\ DOMAIN Places = 1..Len(Places)
    BY BooksAssumption, Listed
  <2>2. IsFiniteSet(DOMAIN Places)
    BY <2>1, FS_Interval
  <2>3. O \in SUBSET DOMAIN Places /\ T \in SUBSET DOMAIN Places /\ Both \in SUBSET DOMAIN Places
    BY DEF Timed
  <2> QED BY <2>2, <2>3, FS_Subset
<1>4. \A p, q \in Both : f[p] = f[q] => p = q
  <2> SUFFICES ASSUME NEW p \in Both, NEW q \in Both, f[p] = f[q] PROVE p = q
    OBVIOUS
  <2>1. Places[p][1] = Places[q][1] /\ Places[p][2] = Places[q][2]
    BY DEF TheSpend!Spent
  <2>2. p \in DOMAIN Places /\ q \in DOMAIN Places
    BY DEF Timed
  <2>3. Places[p] = Places[q]
    BY <2>1, <2>2, BooksAssumption
  <2> QED BY <2>2, <2>3, BooksAssumption
<1>5. f \in Surjection(Both, R) /\ f \in Injection(Both, R)
  BY <1>4 DEF Surjection, Injection, IsInjective
<1> HIDE DEF f, R
<1>6. IsFiniteSet(R) /\ Cardinality(R) = Cardinality(Both)
  BY <1>3, <1>5, FS_Surjection
<1> QED BY <1>2, <1>3, <1>6 DEF SpendInv, R

\* A row of a file is about records of that file.
LEMMA FilesAreMeasured ==
  ASSUME SpendInv, spend_at = "paired", NEW file \in DOMAIN TheSpend!PerFile
  PROVE  TheSpend!PerFile[file].time.count \in
           1..Cardinality({one \in spends.records :
                             one.group = file /\ TheSpend!WorthDividing(one.pair)})
<1> DEFINE Pairs == {one \in spends.records : one.group = file}
           s == CHOOSE f \in TheSpend!Bijection(1..TheSpend!Cardinality(Pairs), Pairs) : TRUE
           listed == [i \in 1..Cardinality(Pairs) |-> s[i].pair]
           Worth == {i \in DOMAIN listed : WorthDividing(listed[i])}
           Theirs == {one \in spends.records : one.group = file /\ TheSpend!WorthDividing(one.pair)}
           f == [i \in Worth |-> s[i]]
<1>1. TheSpend!PerFile[file] = Ratios(listed) /\ Ratios(listed) # NoRatios
  BY SameRatios, SameCardinality DEF TheSpend!PerFile, TheSpend!PerGroup
<1>2. IsFiniteSet(spends.records)
  BY RecordsOf
<1>3. IsFiniteSet(Pairs) /\ IsFiniteSet(Theirs) /\ Cardinality(Pairs) \in Nat
  <2>1. Pairs \in SUBSET spends.records /\ Theirs \in SUBSET spends.records
    OBVIOUS
  <2> QED BY <1>2, <2>1, FS_Subset, FS_CardinalityType
<1>4. /\ s \in Seq(Pairs) /\ Len(s) = Cardinality(Pairs)
      /\ \A j, k \in 1..Len(s) : s[j] = s[k] => j = k
  <2> HIDE DEF Pairs
  <2> DEFINE n == Cardinality(Pairs)
  <2>1. n \in Nat /\ ExistsBijection(1..n, Pairs)
    BY <1>3, FS_CardinalityType
  <2>2. TheSpend!Bijection(1..TheSpend!Cardinality(Pairs), Pairs) = Bijection(1..n, Pairs)
    BY SameCardinality DEF TheSpend!Bijection, TheSpend!Injection, TheSpend!Surjection, TheSpend!IsInjective,
           Bijection, Injection, Surjection, IsInjective
  <2>3. s \in Bijection(1..n, Pairs)
    BY <2>1, <2>2 DEF ExistsBijection
  <2> HIDE DEF s
  <2>4. s \in [1..n -> Pairs] /\ \A j, k \in 1..n : s[j] = s[k] => j = k
    BY <2>3 DEF Bijection, Injection, IsInjective
  <2> HIDE DEF n
  <2> QED BY <2>1, <2>4 DEF n
<1> HIDE DEF s
<1>5. \A i \in 1..Cardinality(Pairs) : s[i] \in Pairs
  BY <1>4
<1>6. IsList(listed) /\ DOMAIN listed = 1..Cardinality(Pairs)
  <2>1. listed \in Seq({one.pair : one \in Pairs})
    BY <1>3, <1>5
  <2> HIDE DEF listed
  <2>2. IsList(listed)
    BY <2>1, IsListOf
  <2> QED BY <2>2 DEF listed
<1>7. Ratios(listed).time.count \in 1..Cardinality(Worth)
  <2> HIDE DEF listed
  <2> QED BY <1>1, <1>6, RatiosCount
<1>8. \A i \in Worth : i \in 1..Len(s) /\ s[i] \in Theirs
  <2>1. \A pair : TheSpend!WorthDividing(pair) <=> WorthDividing(pair)
    BY DEF TheSpend!WorthDividing, WorthDividing
  <2> QED BY <1>4, <1>5, <1>6, <2>1
<1> HIDE DEF Worth, Theirs
<1>9. f \in Injection(Worth, Theirs)
  BY <1>4, <1>8 DEF Injection, IsInjective
<1>10. Cardinality(Worth) <= Cardinality(Theirs) /\ Cardinality(Worth) \in Nat
       /\ Cardinality(Theirs) \in Nat
  BY <1>3, <1>9, FS_Injection, FS_CardinalityType
<1> QED BY <1>1, <1>7, <1>10 DEF Theirs

LEMMA RecordsArePaired == ASSUME SpendInv PROVE TheSpend!SpendsPair
<1> SUFFICES ASSUME spend_at = "paired" PROVE TheSpend!SpendsPair
  BY DEF TheSpend!SpendsPair
<1> DEFINE O == Timed("ours")
           T == Timed("theirs")
<1>1. /\ spends.records = {TheSpend!Spent(p) : p \in O \cap T}
      /\ spends.ours_only = Cardinality(O \ T) /\ spends.theirs_only = Cardinality(T \ O)
      /\ Cardinality(spends.records) = Cardinality(O \cap T)
      /\ IsFiniteSet(O) /\ IsFiniteSet(T)
  BY RecordsOf
<1>2. {p \in DOMAIN Places : \E e \in TheSpend!Sorts : seen[e][p] # <<>>} = O \cup T
  BY DEF Timed, TheSpend!Sorts
<1>3. Cardinality(spends.records) + spends.ours_only + spends.theirs_only = Cardinality(O \cup T)
  <2> HIDE DEF O, T
  <2>1. /\ Cardinality(O \ T) = Cardinality(O) - Cardinality(O \cap T)
        /\ Cardinality(T \ O) = Cardinality(T) - Cardinality(T \cap O)
        /\ Cardinality(O \cup T) = Cardinality(O) + Cardinality(T) - Cardinality(O \cap T)
    BY <1>1, FS_Difference, FS_Union
  <2>2. T \cap O = O \cap T
    OBVIOUS
  <2>3. Cardinality(O) \in Nat /\ Cardinality(T) \in Nat /\ IsFiniteSet(O \cap T)
    BY <1>1, FS_CardinalityType, FS_Intersection
  <2>4. Cardinality(O \cap T) \in Nat
    BY <2>3, FS_CardinalityType
  <2>5. /\ Cardinality(spends.records) = Cardinality(O \cap T)
        /\ spends.ours_only = Cardinality(O) - Cardinality(O \cap T)
        /\ spends.theirs_only = Cardinality(T) - Cardinality(O \cap T)
    <3>1. Cardinality(T \cap O) = Cardinality(O \cap T)
      BY <2>2
    <3> QED BY <1>1, <2>1, <3>1
  <2>6. \A a, b, c, x, y, z \in Int : x = c /\ y = a - c /\ z = b - c => x + y + z = a + b - c
    OBVIOUS
  <2>7. /\ Cardinality(spends.records) \in Int /\ spends.ours_only \in Int
        /\ spends.theirs_only \in Int
    BY <2>3, <2>4, <2>5
  <2> QED BY <2>1, <2>3, <2>4, <2>5, <2>6, <2>7
<1>4. ASSUME NEW one \in spends.records
      PROVE  \E p \in DOMAIN Places :
               /\ Places[p] = <<one.group, one.line>>
               /\ TheSpend!IsTheMiddle(one.pair[1], seen["ours"][p])
               /\ TheSpend!IsTheMiddle(one.pair[2], seen["theirs"][p])
  <2>1. PICK p \in O \cap T : one = TheSpend!Spent(p)
    BY <1>1
  <2>2. p \in DOMAIN Places /\ seen["ours"][p] # <<>> /\ seen["theirs"][p] # <<>>
    BY DEF Timed
  <2>3. seen["ours"][p] \in Seq(Costs) /\ seen["theirs"][p] \in Seq(Costs)
    BY <2>2 DEF SpendInv
  <2>4. \A runs \in Seq(Costs) : runs # <<>> => IsTheMiddle(Middle(runs), runs)
    <3> SUFFICES ASSUME NEW runs \in Seq(Costs), runs # <<>> PROVE IsTheMiddle(Middle(runs), runs)
      OBVIOUS
    <3>1. \A i \in DOMAIN runs : runs[i].wall \in Int
      BY BooksAssumption
    <3> QED BY <3>1, IsListOf, MiddleIs
  <2>5. one.pair = <<Middle(seen["ours"][p]), Middle(seen["theirs"][p])>>
    BY <2>1, <2>2, SameMiddle DEF TheSpend!Spent, TheSpend!Middles
  <2>6. Places[p] = <<one.group, one.line>>
    BY <2>1, <2>2, BooksAssumption DEF TheSpend!Spent
  <2> QED BY <2>2, <2>3, <2>4, <2>5, <2>6, SameMiddle
<1> QED
  BY <1>2, <1>3, <1>4, FilesAreMeasured, SameCardinality DEF TheSpend!SpendsPair

-----------------------------------------------------------------------------
(***************************************************************************)
(* suite.rs.  Between two statements both engines have heard the same, and *)
(* between two engines the left one has heard one more.  What the runs     *)
(* cost is there on both sides from the second run on, and a case that has *)
(* a cost has both.                                                        *)
(***************************************************************************)
Measurements == [wall : Nat, cpu : Nat, peak : Nat]

IsCost(cost) ==
  /\ cost = <<cost[1], cost[2]>>
  /\ cost # TheSuite!NoCost => cost[1] \in Measurements /\ cost[2] \in Measurements

HeardInv ==
  /\ suite_at \in {"next", "left", "right", "judge", "broken", "done"}
  /\ DOMAIN heard = TheSuite!Sides
  /\ suite_at \in {"next", "left", "judge", "done"} => heard["left"] = heard["right"]
  /\ suite_at = "right" => heard["left"] = Append(heard["right"], suite_sql)

CostedInv ==
  /\ samples \in [TheSuite!Sides -> Seq(Measurements)]
  /\ rounds \in Nat
  /\ rounds > 1 \/ (rounds = 1 /\ suite_at \in {"left", "right"}) =>
       samples["left"] # <<>> /\ samples["right"] # <<>>
  /\ IsList(cases)
  /\ \A i \in DOMAIN cases : IsCost(cases[i].cost)
  /\ suite_at = "next" /\ cases # <<>> /\ cases[Len(cases)].cost # TheSuite!NoCost =>
       /\ rounds = RUNS
       /\ IsTheMiddle(cases[Len(cases)].cost[1], samples["left"])
       /\ IsTheMiddle(cases[Len(cases)].cost[2], samples["right"])

SuiteInv == HeardInv /\ CostedInv

LEMMA SuiteBegins == ASSUME TheSuite!Init PROVE SuiteInv
<1>1. HeardInv
  BY DEF TheSuite!Init, TheSuite!Sides, HeardInv
<1>2. samples \in [TheSuite!Sides -> Seq(Measurements)] /\ rounds = 0
  BY DEF TheSuite!Init
<1>3. cases = <<>> /\ <<>> \in Seq({})
  BY DEF TheSuite!Init
<1>4. IsList(cases)
  BY <1>3, IsListOf
<1> QED BY <1>1, <1>2, <1>3, <1>4 DEF SuiteInv, CostedInv

LEMMA SuiteStays == ASSUME SuiteInv, UNCHANGED suiteVars PROVE SuiteInv'
BY DEF suiteVars, SuiteInv, HeardInv, CostedInv

\* What a run comes back with, when it does.
LEMMA MeteredIs ==
  ASSUME NEW measures \in BOOLEAN, NEW r \in Reports,
         TheSuite!Metered(measures, r) # TheSuite!Nothing
  PROVE  TheSuite!Metered(measures, r) \in Measurements
<1>1. TheSuite!Wanted \subseteq DOMAIN r
  BY DEF TheSuite!Metered, TheSuite!Parse
<1>2. /\ r["user"] \in Nat /\ r["system"] \in Nat /\ r["elapsed"] \in Nat /\ r["maximum"] \in Nat
  BY <1>1, BooksAssumption DEF TheSuite!Wanted, Wanted
<1> QED BY <1>1, <1>2 DEF TheSuite!Metered, TheSuite!Parse, Measurements

LEMMA AskingKeeps ==
  ASSUME SuiteInv, NEW side \in TheSuite!Sides, NEW o, NEW usage,
         usage = TheSuite!Nothing \/ usage \in Measurements, TheSuite!Ask(side, o, usage)
  PROVE  SuiteInv'
<1>1. HeardInv'
  BY DEF SuiteInv, HeardInv, TheSuite!Sides, TheSuite!Ask
<1>2. /\ samples' \in [TheSuite!Sides -> Seq(Measurements)]
      /\ \A x \in TheSuite!Sides : samples[x] # <<>> => samples'[x] # <<>>
  <2>1. samples' = [samples EXCEPT ![side] =
                      IF usage = TheSuite!Nothing THEN @ ELSE Append(@, usage)]
    BY DEF TheSuite!Ask
  <2>2. samples \in [TheSuite!Sides -> Seq(Measurements)] /\ samples[side] \in Seq(Measurements)
    BY DEF SuiteInv, CostedInv
  <2>3. CASE usage = TheSuite!Nothing
    BY <2>1, <2>2, <2>3
  <2>4. CASE usage # TheSuite!Nothing
    <3>1. Append(samples[side], usage) \in Seq(Measurements) /\ Append(samples[side], usage) # <<>>
      BY <2>2, <2>4
    <3> QED BY <2>1, <2>2, <2>4, <3>1
  <2> QED BY <2>3, <2>4
<1>3. /\ suite_at = side /\ side \in {"left", "right"} /\ rounds \in Nat
      /\ rounds' \in Nat /\ suite_at' \in {"right", "judge"}
      /\ rounds' > 1 \/ (rounds' = 1 /\ suite_at' \in {"left", "right"}) => rounds >= 1
  BY DEF SuiteInv, CostedInv, TheSuite!Ask, TheSuite!Sides
<1>4. rounds' > 1 \/ (rounds' = 1 /\ suite_at' \in {"left", "right"}) =>
        samples'["left"] # <<>> /\ samples'["right"] # <<>>
  <2>1. rounds >= 1 => samples["left"] # <<>> /\ samples["right"] # <<>>
    BY <1>3 DEF SuiteInv, CostedInv
  <2> QED BY <1>2, <1>3, <2>1 DEF TheSuite!Sides
<1>5. cases' = cases /\ suite_at' # "next"
  BY <1>3 DEF TheSuite!Ask
<1>6. CostedInv'
  BY <1>2, <1>3, <1>4, <1>5 DEF SuiteInv, CostedInv
<1> QED BY <1>1, <1>6 DEF SuiteInv

LEMMA TimedKeeps == ASSUME SuiteInv, TheSuite!Timed PROVE SuiteInv'
<1> DEFINE cost == <<TheSuite!Middle(samples["left"]), TheSuite!Middle(samples["right"])>>
           one == [sql |-> suite_sql, agreed |-> TheSuite!Found = {}, cost |-> cost]
<1>1. /\ suite_at = "judge" /\ rounds = RUNS /\ (RUNS > 1 \/ TheSuite!WorthTiming)
      /\ cases' = Append(cases, one) /\ suite_at' = "next"
      /\ UNCHANGED <<samples, rounds, heard>>
  BY DEF TheSuite!Timed, TheSuite!Close
<1>2. HeardInv'
  BY <1>1 DEF SuiteInv, HeardInv
<1>3. samples["left"] # <<>> /\ samples["right"] # <<>>
  BY <1>1, ResourceAssumption DEF SuiteInv, CostedInv, TheSuite!WorthTiming
<1>4. ASSUME NEW side \in TheSuite!Sides
      PROVE  /\ IsTheMiddle(Middle(samples[side]), samples[side])
             /\ Middle(samples[side]) \in Measurements
  <2>1. samples[side] \in Seq(Measurements) /\ samples[side] # <<>>
    BY <1>3 DEF SuiteInv, CostedInv, TheSuite!Sides
  <2> DEFINE runs == samples[side]
  <2> HIDE DEF runs
  <2>2. runs \in Seq(Measurements) /\ runs # <<>>
    BY <2>1 DEF runs
  <2>3. IsList(runs) /\ \A i \in DOMAIN runs : runs[i] \in Measurements
    BY <2>2, IsListOf
  <2>4. \A i \in DOMAIN runs : runs[i].wall \in Int
    BY <2>3 DEF Measurements
  <2>5. IsTheMiddle(Middle(runs), runs) /\ Middle(runs) \in Range(runs)
    BY <2>2, <2>3, <2>4, MiddleIs
  <2> QED BY <2>3, <2>5 DEF Range, runs
<1>5. /\ cost[1] = Middle(samples["left"]) /\ cost[2] = Middle(samples["right"])
      /\ cost = <<cost[1], cost[2]>>
  BY SameMiddle
<1>6. IsCost(cost) /\ IsTheMiddle(cost[1], samples["left"]) /\ IsTheMiddle(cost[2], samples["right"])
  <2> HIDE DEF cost
  <2> QED BY <1>4, <1>5 DEF IsCost, TheSuite!Sides
<1>7. one.cost = cost
  OBVIOUS
<1> HIDE DEF cost, one
<1>8. /\ IsList(cases') /\ cases'[Len(cases')] = one
      /\ \A i \in DOMAIN cases' : IsCost(cases'[i].cost)
  BY <1>1, <1>6, <1>7, Listed, Appended DEF SuiteInv, CostedInv
<1>9. CostedInv'
  BY <1>1, <1>3, <1>6, <1>7, <1>8 DEF SuiteInv, CostedInv
<1> QED BY <1>2, <1>9 DEF SuiteInv

LEMMA UntimedKeeps == ASSUME SuiteInv, TheSuite!Untimed PROVE SuiteInv'
<1> DEFINE one == [sql |-> suite_sql, agreed |-> TheSuite!Found = {}, cost |-> TheSuite!NoCost]
<1>1. /\ suite_at = "judge" /\ cases' = Append(cases, one) /\ suite_at' = "next"
      /\ UNCHANGED <<samples, rounds, heard>>
  BY DEF TheSuite!Untimed, TheSuite!Close
<1>2. HeardInv'
  BY <1>1 DEF SuiteInv, HeardInv
<1>3. one.cost = TheSuite!NoCost /\ IsCost(TheSuite!NoCost)
  BY DEF IsCost, TheSuite!NoCost
<1> HIDE DEF one
<1>4. /\ IsList(cases') /\ cases'[Len(cases')] = one
      /\ \A i \in DOMAIN cases' : IsCost(cases'[i].cost)
  BY <1>1, <1>3, Listed, Appended DEF SuiteInv, CostedInv
<1>5. CostedInv'
  BY <1>1, <1>3, <1>4 DEF SuiteInv, CostedInv
<1> QED BY <1>2, <1>5 DEF SuiteInv

LEMMA ComparingKeeps == ASSUME SuiteInv, TheSuite!Next PROVE SuiteInv'
<1>1. CASE TheSuite!Take
  <2>1. samples' \in [TheSuite!Sides -> Seq(Measurements)] /\ rounds' = 0 /\ suite_at' = "left"
    BY <1>1 DEF TheSuite!Take, TheSuite!Fresh
  <2>2. HeardInv'
    BY <1>1 DEF SuiteInv, HeardInv, TheSuite!Take
  <2> QED BY <1>1, <2>1, <2>2 DEF SuiteInv, CostedInv, TheSuite!Take
<1>2. CASE TheSuite!AskLeft \/ TheSuite!AskRight
  BY <1>2, AskingKeeps, MeteredIs DEF TheSuite!AskLeft, TheSuite!AskRight, TheSuite!Sides
<1>3. CASE TheSuite!Repeat
  <2>1. /\ suite_at = "judge" /\ suite_at' = "left" /\ (rounds = 1 => TheSuite!WorthTiming)
        /\ UNCHANGED <<samples, rounds, cases, heard>>
    BY <1>3 DEF TheSuite!Repeat
  <2> QED BY <2>1 DEF SuiteInv, HeardInv, CostedInv, TheSuite!WorthTiming
<1>4. CASE TheSuite!Untimed \/ TheSuite!Timed
  BY <1>4, UntimedKeeps, TimedKeeps
<1>5. CASE TheSuite!Break \/ TheSuite!Finish
  <2>1. /\ suite_at' \in {"broken", "done"} /\ UNCHANGED <<samples, rounds, cases, heard>>
        /\ suite_at' = "done" => suite_at = "next"
    BY <1>5 DEF TheSuite!Break, TheSuite!Finish
  <2>2. HeardInv'
    BY <2>1 DEF SuiteInv, HeardInv
  <2>3. CostedInv'
    BY <2>1 DEF SuiteInv, CostedInv
  <2> QED BY <2>2, <2>3 DEF SuiteInv
<1> QED BY <1>1, <1>2, <1>3, <1>4, <1>5 DEF TheSuite!Next

-----------------------------------------------------------------------------
\* Pairs in which ours is the slower one, every time.
AreSlower(pairs) ==
  /\ IsList(pairs)
  /\ \A i \in DOMAIN pairs :
       pairs[i][1].wall \in Nat /\ pairs[i][2].wall \in Nat /\ pairs[i][1].wall > pairs[i][2].wall

LEMMA SomeAreSlower ==
  ASSUME NEW pairs, AreSlower(pairs), NEW I, I \subseteq DOMAIN pairs
  PROVE  AreSlower(Sublist(pairs, I))
<1>1. /\ IsList(Sublist(pairs, I))
      /\ \A k \in DOMAIN Sublist(pairs, I) : \E i \in I : Sublist(pairs, I)[k] = pairs[i]
  BY SublistOf DEF AreSlower
<1> HIDE DEF Sublist
<1> QED BY <1>1 DEF AreSlower

LEMMA SlowerShares ==
  ASSUME NEW pairs, AreSlower(pairs)
  PROVE  /\ IsList(Shares(pairs, "wall"))
         /\ \A i \in DOMAIN Shares(pairs, "wall") :
              Shares(pairs, "wall")[i] \in Int /\ Shares(pairs, "wall")[i] >= 100
<1> DEFINE Kept == {i \in DOMAIN pairs : pairs[i][2]["wall"] > 0}
           kept == Sublist(pairs, Kept)
           shares == Shares(pairs, "wall")
<1>1. AreSlower(kept)
  BY SomeAreSlower
<1>2. \A k \in DOMAIN kept : kept[k][2].wall > 0
  <2>1. Kept \subseteq DOMAIN pairs /\ \A i \in Kept : pairs[i][2]["wall"] > 0
    OBVIOUS
  <2> HIDE DEF Kept
  <2>2. \A k \in DOMAIN kept : \E i \in Kept : kept[k] = pairs[i]
    BY <2>1, SublistOf DEF AreSlower
  <2> HIDE DEF kept
  <2> QED BY <2>1, <2>2
<1>3. shares = [k \in DOMAIN kept |-> (100 * kept[k][1].wall) \div kept[k][2].wall]
  BY DEF Shares
<1> HIDE DEF Kept, kept, shares
<1>4. \A k \in DOMAIN kept : shares[k] \in Int /\ shares[k] >= 100
  BY <1>1, <1>2, <1>3, OneOrMore DEF AreSlower
<1>5. Len(kept) \in Nat /\ DOMAIN kept = 1..Len(kept)
  BY <1>1, Listed DEF AreSlower
<1>6. shares \in [1..Len(kept) -> Int]
  BY <1>3, <1>4, <1>5
<1>7. shares \in Seq(Int)
  BY <1>5, <1>6
<1> QED BY <1>3, <1>4, <1>7, IsListOf DEF shares

\* What is spread over some numbers that are one or more.
LEMMA SpreadIs ==
  ASSUME NEW values, IsList(values), NEW c \in Int,
         \A i \in DOMAIN values : values[i] \in Int /\ values[i] >= c,
         Spread(values) # NoSpread
  PROVE  /\ Spread(values).median >= 4 * c
         /\ Spread(values).low <= Spread(values).median
         /\ Spread(values).median <= Spread(values).high
<1> DEFINE s == Sorted(values)
<1>1. values # <<>>
  BY DEF Spread
<1>2. Len(values) \in Nat /\ Len(values) # 0 /\ DOMAIN values = 1..Len(values)
  BY <1>1, Listed
<1>3. /\ IsList(s) /\ Len(s) = Len(values)
      /\ \A k \in 1..Len(values) : \E i \in 1..Len(values) : s[k] = values[i]
      /\ \A k, m \in 1..Len(values) : k <= m => s[k] <= s[m]
  BY SortedIs
<1>4. Spread(values) = [median |-> Quantile(s, 2), low |-> Quantile(s, 1),
                        high |-> Quantile(s, 3), count |-> Len(s)]
  BY <1>1 DEF Spread
<1> HIDE DEF s
<1>5. \A k \in 1..Len(s) : s[k] \in Int /\ s[k] >= c
  BY <1>2, <1>3
<1>6. s \in Seq(Int) /\ s # <<>>
  <2>1. s = [i \in 1..Len(s) |-> s[i]] /\ Len(s) \in Nat /\ Len(s) # 0
    BY <1>2, <1>3, Listed
  <2>2. s \in [1..Len(s) -> Int]
    BY <1>5, <2>1
  <2> DEFINE n == Len(s)
  <2>3. n \in Nat /\ s \in [1..n -> Int]
    BY <2>1, <2>2
  <2> HIDE DEF n
  <2>4. s \in Seq(Int)
    BY <2>3
  <2>5. s # <<>>
    BY <2>1
  <2> QED BY <2>4, <2>5
<1>7. /\ Quantile(s, 2) >= 4 * c
      /\ Quantile(s, 1) <= Quantile(s, 2) /\ Quantile(s, 2) <= Quantile(s, 3)
  BY <1>3, <1>5, <1>6, QuantileIs
<1> QED BY <1>4, <1>7

\* The pairs the report is about, ours first.
Pairs == [i \in DOMAIN TheSuite!Costed |-> TheSuite!Oriented(TheSuite!Costed[i].cost)]

LEMMA PairsAreSlower ==
  ASSUME SuiteInv, TheSuite!AlwaysSlower, TheSuite!Ours # "neither"
  PROVE  AreSlower(Pairs)
<1> DEFINE Kept == {i \in DOMAIN cases : cases[i].cost # TheSuite!NoCost}
<1>1. IsList(cases)
  BY DEF SuiteInv, CostedInv
<1>2. /\ IsList(TheSuite!Costed)
      /\ \A k \in DOMAIN TheSuite!Costed : \E i \in Kept : TheSuite!Costed[k] = cases[i]
  <2>1. Kept \subseteq DOMAIN cases /\ TheSuite!Costed = Sublist(cases, Kept)
    BY SameSublist DEF TheSuite!Costed
  <2> HIDE DEF Kept
  <2> QED BY <1>1, <2>1, SublistOf
<1>3. Len(TheSuite!Costed) \in Nat /\ DOMAIN TheSuite!Costed = 1..Len(TheSuite!Costed)
  BY <1>2, Listed
<1>4. ASSUME NEW k \in DOMAIN TheSuite!Costed
      PROVE  /\ Pairs[k][1].wall \in Nat /\ Pairs[k][2].wall \in Nat
             /\ Pairs[k][1].wall > Pairs[k][2].wall
  <2>1. PICK i \in Kept : TheSuite!Costed[k] = cases[i]
    BY <1>2
  <2>2. cases[i].cost[1] \in Measurements /\ cases[i].cost[2] \in Measurements
    BY DEF SuiteInv, CostedInv, IsCost
  <2>3. Pairs[k] = TheSuite!Oriented(cases[i].cost)
    BY <2>1 DEF Pairs
  <2>4. CASE TheSuite!Ours = "left"
    <3>1. names["left"] = "rudb"
      BY <2>4 DEF TheSuite!Ours
    <3>2. Pairs[k] = cases[i].cost
      BY <2>3, <2>4 DEF TheSuite!Oriented
    <3> QED BY <2>2, <3>1, <3>2 DEF TheSuite!AlwaysSlower, Measurements
  <2>5. CASE TheSuite!Ours # "left"
    <3>1. names["left"] # "rudb"
      BY <2>5 DEF TheSuite!Ours
    <3>2. Pairs[k] = <<cases[i].cost[2], cases[i].cost[1]>>
      BY <2>3, <2>5 DEF TheSuite!Oriented
    <3> QED BY <2>2, <3>1, <3>2 DEF TheSuite!AlwaysSlower, Measurements
  <2> QED BY <2>4, <2>5
<1>5. DOMAIN Pairs = DOMAIN TheSuite!Costed
  BY DEF Pairs
<1>6. IsList(Pairs)
  <2> DEFINE n == Len(TheSuite!Costed)
             E == {Pairs[k] : k \in 1..n}
  <2>1. n \in Nat /\ Pairs \in [1..n -> E]
    BY <1>3 DEF Pairs
  <2> HIDE DEF n, E
  <2>2. Pairs \in Seq(E)
    BY <2>1
  <2> QED BY <2>2, IsListOf
<1> QED BY <1>4, <1>5, <1>6 DEF AreSlower

LEMMA TheSlowerIsSlower ==
  ASSUME SuiteInv, TheSuite!AlwaysSlower, TheSuite!ReportRatios # TheSuite!NoRatios
  PROVE  /\ TheSuite!ReportRatios.time.median >= 400
         /\ TheSuite!ReportRatios.time.low <= TheSuite!ReportRatios.time.median
         /\ TheSuite!ReportRatios.time.median <= TheSuite!ReportRatios.time.high
         /\ \A i \in DOMAIN TheSuite!Worst :
              TheSuite!Worst[i] >= 100 /\ TheSuite!Worst[i] <= TheSuite!Worst[1]
<1> DEFINE Worth == {i \in DOMAIN Pairs : WorthDividing(Pairs[i])}
           kept == Sublist(Pairs, Worth)
           times == Shares(kept, "wall")
           all == Shares(Pairs, "wall")
           s == Sorted(all)
<1>1. TheSuite!Ours # "neither" /\ TheSuite!ReportRatios = Ratios(Pairs)
      /\ Ratios(Pairs) # NoRatios
  BY SameRatios DEF TheSuite!ReportRatios, Pairs
<1>2. AreSlower(Pairs)
  BY <1>1, PairsAreSlower
<1>3. AreSlower(kept)
  BY <1>2, SomeAreSlower
<1>4. Ratios(Pairs).time = Spread(times) /\ Spread(times) # NoSpread
  BY <1>1 DEF Ratios
<1> HIDE DEF kept
<1>5. /\ IsList(times) /\ \A i \in DOMAIN times : times[i] \in Int /\ times[i] >= 100
  BY <1>3, SlowerShares
<1> HIDE DEF times
<1>6. /\ Spread(times).median >= 4 * 100
      /\ Spread(times).low <= Spread(times).median /\ Spread(times).median <= Spread(times).high
  BY <1>4, <1>5, SpreadIs
<1>7. /\ IsList(all) /\ \A i \in DOMAIN all : all[i] \in Int /\ all[i] >= 100
  BY <1>2, SlowerShares
<1> HIDE DEF all
<1>8. /\ IsList(s) /\ Len(s) = Len(all) /\ Len(all) \in Nat /\ DOMAIN all = 1..Len(all)
      /\ \A k \in 1..Len(all) : \E i \in 1..Len(all) : s[k] = all[i]
      /\ \A k, m \in 1..Len(all) : k <= m => s[k] <= s[m]
  BY <1>7, SortedIs, Listed
<1>9. TheSuite!Worst = [i \in 1..Len(s) |-> s[(Len(s) - i) + 1]]
  <2>1. TheSuite!Sorted(TheSuite!Shares(Pairs, "wall")) = s
    BY SameRatios DEF all
  <2> HIDE DEF s
  <2> QED BY <1>1, <2>1 DEF TheSuite!Worst, Pairs
<1> HIDE DEF s
<1>10. ASSUME NEW i \in DOMAIN TheSuite!Worst
       PROVE  TheSuite!Worst[i] >= 100 /\ TheSuite!Worst[i] <= TheSuite!Worst[1]
  <2> DEFINE n == Len(all)
  <2>1. n \in Nat /\ i \in 1..n /\ Len(s) = n
    BY <1>8, <1>9
  <2>2. /\ TheSuite!Worst[i] = s[(n - i) + 1] /\ TheSuite!Worst[1] = s[(n - 1) + 1]
    BY <1>9, <2>1
  <2>3. (n - i) + 1 \in 1..n /\ (n - 1) + 1 \in 1..n /\ (n - i) + 1 <= (n - 1) + 1
    BY <2>1
  <2> HIDE DEF n
  <2> QED BY <1>7, <1>8, <2>2, <2>3 DEF n
<1> QED BY <1>1, <1>4, <1>6, <1>10

LEMMA TheSuiteIsFair == ASSUME SuiteInv PROVE TheSuite!ToldTheSame /\ TheSuite!CostsAreFair
<1>1. TheSuite!ToldTheSame
  BY DEF SuiteInv, HeardInv, TheSuite!ToldTheSame
<1>2. TheSuite!CostsAreFair
  BY TheSlowerIsSlower, SameMiddle
     DEF SuiteInv, CostedInv, TheSuite!CostsAreFair
<1> QED BY <1>1, <1>2

-----------------------------------------------------------------------------
(***************************************************************************)
(* cost.rs, the words: which words of it are inside a call, and that the    *)
(* brackets find them.                                                     *)
(***************************************************************************)
IsText(words) ==
  /\ IsList(words)
  /\ \A i \in DOMAIN words :
       words[i] = [is |-> words[i].is, size |-> words[i].size] /\ words[i].size \in Nat

Opens(words, a, b)  == {i \in a..b : TheBenchmarks!IsOpen(words[i])}
Closes(words, a, b) == {i \in a..b : TheBenchmarks!IsClose(words[i])}
Open(words, a, b)   == Cardinality(Opens(words, a, b)) - Cardinality(Closes(words, a, b))

\* The brackets a stretch leaves open, and how each word changes them.
LEMMA OpenIs ==
  ASSUME NEW words, NEW a \in Nat, NEW b \in Nat
  PROVE  /\ TheBenchmarks!Depth(words, a, b) = Open(words, a, b)
         /\ IsFiniteSet(Opens(words, a, b)) /\ Cardinality(Opens(words, a, b)) \in Nat
         /\ IsFiniteSet(Closes(words, a, b)) /\ Cardinality(Closes(words, a, b)) \in Nat
         /\ Open(words, a, b) \in Int
<1>1. TheBenchmarks!Depth(words, a, b) = Open(words, a, b)
  BY SameCardinality DEF TheBenchmarks!Depth, Open, Opens, Closes
<1>2. IsFiniteSet(a..b)
  BY FS_Interval
<1>3. Opens(words, a, b) \subseteq a..b /\ Closes(words, a, b) \subseteq a..b
  BY DEF Opens, Closes
<1>4. /\ IsFiniteSet(Opens(words, a, b)) /\ Cardinality(Opens(words, a, b)) \in Nat
      /\ IsFiniteSet(Closes(words, a, b)) /\ Cardinality(Closes(words, a, b)) \in Nat
  BY <1>2, <1>3, FS_Subset, FS_CardinalityType
<1> QED BY <1>1, <1>4 DEF Open

LEMMA OneMoreWord ==
  ASSUME NEW words, NEW a \in Nat, NEW b \in Nat, a <= b + 1
  PROVE  Open(words, a, b + 1) =
           IF TheBenchmarks!IsOpen(words[b + 1]) THEN Open(words, a, b) + 1
           ELSE IF TheBenchmarks!IsClose(words[b + 1]) THEN Open(words, a, b) - 1
           ELSE Open(words, a, b)
<1> DEFINE O == Opens(words, a, b)
           C == Closes(words, a, b)
<1>1. a..(b + 1) = (a..b) \cup {b + 1} /\ b + 1 \notin a..b /\ b + 1 \in Nat
  OBVIOUS
<1>2. /\ Opens(words, a, b + 1) = IF TheBenchmarks!IsOpen(words[b + 1]) THEN O \cup {b + 1} ELSE O
      /\ Closes(words, a, b + 1) = IF TheBenchmarks!IsClose(words[b + 1]) THEN C \cup {b + 1} ELSE C
  BY <1>1 DEF Opens, Closes
<1>3. b + 1 \notin O /\ b + 1 \notin C
  BY <1>1 DEF Opens, Closes
<1>4. /\ IsFiniteSet(O) /\ Cardinality(O) \in Nat /\ IsFiniteSet(C) /\ Cardinality(C) \in Nat
      /\ Open(words, a, b) = Cardinality(O) - Cardinality(C)
  BY OpenIs DEF Open
<1> HIDE DEF O, C
<1>5. /\ Cardinality(O \cup {b + 1}) = Cardinality(O) + 1
      /\ Cardinality(C \cup {b + 1}) = Cardinality(C) + 1
  BY <1>3, <1>4, FS_AddElement
<1>6. ~(TheBenchmarks!IsOpen(words[b + 1]) /\ TheBenchmarks!IsClose(words[b + 1]))
  BY DEF TheBenchmarks!IsOpen, TheBenchmarks!IsClose
<1>7. Open(words, a, b + 1) = Cardinality(Opens(words, a, b + 1)) - Cardinality(Closes(words, a, b + 1))
  BY DEF Open
<1>8. CASE TheBenchmarks!IsOpen(words[b + 1])
  <2>1. Opens(words, a, b + 1) = O \cup {b + 1} /\ Closes(words, a, b + 1) = C
    BY <1>2, <1>6, <1>8
  <2>2. Open(words, a, b + 1) = (Cardinality(O) + 1) - Cardinality(C)
    BY <1>5, <1>7, <2>1
  <2> QED BY <1>4, <1>8, <2>2
<1>9. CASE TheBenchmarks!IsClose(words[b + 1]) /\ ~TheBenchmarks!IsOpen(words[b + 1])
  <2>1. Opens(words, a, b + 1) = O /\ Closes(words, a, b + 1) = C \cup {b + 1}
    BY <1>2, <1>9
  <2>2. Open(words, a, b + 1) = Cardinality(O) - (Cardinality(C) + 1)
    BY <1>5, <1>7, <2>1
  <2> QED BY <1>4, <1>9, <2>2
<1>10. CASE ~TheBenchmarks!IsClose(words[b + 1]) /\ ~TheBenchmarks!IsOpen(words[b + 1])
  BY <1>2, <1>4, <1>7, <1>10
<1> QED BY <1>8, <1>9, <1>10

\* Two stretches one after the other.
LEMMA OpenAdds ==
  ASSUME NEW words, NEW k \in Nat \ {0}, NEW n \in Nat, k <= n
  PROVE  Open(words, 1, n) = Open(words, 1, k - 1) + Open(words, k, n)
<1> DEFINE O1 == Opens(words, 1, k - 1)
           O2 == Opens(words, k, n)
           C1 == Closes(words, 1, k - 1)
           C2 == Closes(words, k, n)
<1>1. 1..n = (1..(k - 1)) \cup (k..n) /\ (1..(k - 1)) \cap (k..n) = {} /\ k - 1 \in Nat
  OBVIOUS
<1>2. /\ Opens(words, 1, n) = O1 \cup O2 /\ O1 \cap O2 = {}
      /\ Closes(words, 1, n) = C1 \cup C2 /\ C1 \cap C2 = {}
  BY <1>1 DEF Opens, Closes
<1>3. /\ IsFiniteSet(O1) /\ Cardinality(O1) \in Nat /\ IsFiniteSet(O2) /\ Cardinality(O2) \in Nat
      /\ IsFiniteSet(C1) /\ Cardinality(C1) \in Nat /\ IsFiniteSet(C2) /\ Cardinality(C2) \in Nat
  BY <1>1, OpenIs
<1>4. /\ Open(words, 1, k - 1) = Cardinality(O1) - Cardinality(C1)
      /\ Open(words, k, n) = Cardinality(O2) - Cardinality(C2)
      /\ Open(words, 1, n) = Cardinality(O1 \cup O2) - Cardinality(C1 \cup C2)
  BY <1>2 DEF Open
<1> HIDE DEF O1, O2, C1, C2
<1>5. /\ Cardinality(O1 \cup O2) = Cardinality(O1) + Cardinality(O2) - Cardinality(O1 \cap O2)
      /\ Cardinality(C1 \cup C2) = Cardinality(C1) + Cardinality(C2) - Cardinality(C1 \cap C2)
  BY <1>3, FS_Union
<1>6. Cardinality(O1 \cap O2) = 0 /\ Cardinality(C1 \cap C2) = 0
  BY <1>2, FS_EmptySet
<1> QED BY <1>3, <1>4, <1>5, <1>6

LEMMA OpenAtOnce ==
  ASSUME NEW words, NEW k \in Nat \ {0}, TheBenchmarks!IsOpen(words[k])
  PROVE  Open(words, k, k) = 1
<1>1. Open(words, k, k - 1) = 0
  <2>1. Opens(words, k, k - 1) = {} /\ Closes(words, k, k - 1) = {}
    BY DEF Opens, Closes
  <2>2. Cardinality({}) = 0
    BY FS_EmptySet
  <2>3. Open(words, k, k - 1) = Cardinality({}) - Cardinality({})
    BY <2>1 DEF Open
  <2> QED BY <2>2, <2>3
<1>2. k - 1 \in Nat /\ (k - 1) + 1 = k
  OBVIOUS
<1> QED BY <1>1, <1>2, OneMoreWord

\* A call that is left open at no word before the n-th of them is open at all of them:
\* it is not closed without a close bracket that leaves none.
LEMMA NeverBelow ==
  ASSUME NEW words, NEW k \in Nat \ {0}, NEW n \in Nat, TheBenchmarks!IsOpen(words[k]),
         \A j \in k..n : Open(words, k, j) # 0
  PROVE  \A j \in k..n : Open(words, k, j) > 0
<1> DEFINE Low == {j \in k..n : ~(Open(words, k, j) > 0)}
<1> SUFFICES ASSUME Low # {} PROVE FALSE
  OBVIOUS
<1>1. PICK j \in Low : \A i \in Low : j <= i
  <2>1. Low \subseteq Nat
    OBVIOUS
  <2> HIDE DEF Low
  <2> QED BY <2>1, LeastNat
<1>3. Open(words, k, k) = 1
  BY OpenAtOnce
<1>4. j # k /\ j \in k..n /\ j \in Nat
  BY <1>1, <1>3
<1>5. PICK b \in Nat : j = b + 1 /\ b \in k..n
  <2>1. j - 1 \in Nat /\ j = (j - 1) + 1 /\ j - 1 \in k..n
    BY <1>4
  <2> QED BY <2>1
<1>6. Open(words, k, b) > 0 /\ Open(words, k, b) \in Int /\ Open(words, k, j) \in Int
  <2>1. b \notin Low
    BY <1>1, <1>4, <1>5
  <2> QED BY <1>4, <1>5, <2>1, OpenIs
<1>7. Open(words, k, j) >= Open(words, k, b) - 1
  BY <1>5, <1>6, OneMoreWord
<1> QED BY <1>1, <1>4, <1>6, <1>7

\* Where a call is closed, and where it is still open.
LEMMA ClosingIs ==
  ASSUME NEW words, IsText(words), NEW k \in DOMAIN words
  PROVE  LET c == TheBenchmarks!Closing(words, k) IN
         /\ c # TheBenchmarks!NoClose <=> \E j \in k..Len(words) : Open(words, k, j) = 0
         /\ c # TheBenchmarks!NoClose =>
              /\ c \in k..Len(words) /\ Open(words, k, c) = 0
              /\ \A j \in k..(c - 1) : Open(words, k, j) # 0
<1> DEFINE closes == {j \in k..Len(words) : Open(words, k, j) = 0}
           c == TheBenchmarks!Closing(words, k)
<1>1. Len(words) \in Nat /\ DOMAIN words = 1..Len(words) /\ k \in Nat /\ k # 0
  BY Listed DEF IsText
<1>2. closes = {j \in k..Len(words) : TheBenchmarks!Depth(words, k, j) = 0}
  BY <1>1, OpenIs
<1>3. c = IF closes = {} THEN 0 ELSE CHOOSE i \in closes : \A j \in closes : i <= j
  <2> DEFINE E == {j \in k..Len(words) : TheBenchmarks!Depth(words, k, j) = 0}
  <2>1. c = IF E = {} THEN 0 ELSE CHOOSE i \in E : \A j \in E : i <= j
    BY DEF TheBenchmarks!Closing, TheBenchmarks!NoClose
  <2>2. closes = E
    BY <1>2
  <2> HIDE DEF E, closes, c
  <2> QED BY <2>1, <2>2
<1>4. closes \subseteq Nat /\ 0 \notin closes
  BY <1>1
<1>5. closes # {} => c \in closes /\ \A j \in closes : c <= j
  <2> HIDE DEF closes
  <2> QED BY <1>3, <1>4, LeastNat
<1>6. closes # {} <=> \E j \in k..Len(words) : Open(words, k, j) = 0
  OBVIOUS
<1>7. c # 0 <=> closes # {}
  <2> HIDE DEF closes
  <2> QED BY <1>3, <1>4, <1>5
<1>8. ASSUME closes # {}, NEW j \in k..(c - 1) PROVE Open(words, k, j) # 0
  <2>1. c \in k..Len(words) /\ \A i \in closes : c <= i
    BY <1>5, <1>8
  <2>2. j \in k..Len(words) /\ ~(c <= j)
    BY <1>1, <2>1
  <2> HIDE DEF c
  <2> QED BY <2>1, <2>2
<1> HIDE DEF c
<1> QED BY <1>1, <1>5, <1>6, <1>7, <1>8 DEF c, TheBenchmarks!NoClose

IsACall(words, k) == k \in DOMAIN words /\ words[k].is = "range("

\* The calls around a word, when each call up to it is closed.
LEMMA ArgumentsAre ==
  ASSUME NEW words, IsText(words), NEW i
  PROVE  i \in TheBenchmarks!Arguments(words) <=>
           \E k \in DOMAIN words :
             /\ IsACall(words, k)
             /\ \A j \in DOMAIN words :
                  IsACall(words, j) /\ j <= k => TheBenchmarks!Closing(words, j) # TheBenchmarks!NoClose
             /\ i \in (k + 1)..(TheBenchmarks!Closing(words, k) - 1)
<1> DEFINE calls  == {k \in DOMAIN words : words[k].is = "range("}
           closed == {k \in calls : \A j \in calls :
                        j <= k => TheBenchmarks!Closing(words, j) # TheBenchmarks!NoClose}
           S == {(k + 1)..(TheBenchmarks!Closing(words, k) - 1) : k \in closed}
<1>1. TheBenchmarks!Arguments(words) = UNION S
  BY DEF TheBenchmarks!Arguments
<1>2. \A k : k \in closed <=>
        /\ IsACall(words, k)
        /\ \A j \in DOMAIN words :
             IsACall(words, j) /\ j <= k => TheBenchmarks!Closing(words, j) # TheBenchmarks!NoClose
  BY DEF IsACall
<1> HIDE DEF closed
<1>3. i \in UNION S <=> \E k \in closed : i \in (k + 1)..(TheBenchmarks!Closing(words, k) - 1)
  OBVIOUS
<1> QED BY <1>1, <1>2, <1>3 DEF IsACall

\* A call is open from its own word up to the bracket that closes it.
LEMMA OpenUntilClosed ==
  ASSUME NEW words, IsText(words), NEW k, IsACall(words, k),
         TheBenchmarks!Closing(words, k) # TheBenchmarks!NoClose
  PROVE  /\ TheBenchmarks!Closing(words, k) \in k..Len(words)
         /\ \A j \in k..(TheBenchmarks!Closing(words, k) - 1) : Open(words, k, j) > 0
<1> DEFINE c == TheBenchmarks!Closing(words, k)
<1>1. k \in DOMAIN words /\ k \in Nat \ {0} /\ TheBenchmarks!IsOpen(words[k]) /\ Len(words) \in Nat
  BY Listed DEF IsACall, IsText, TheBenchmarks!IsOpen
<1>2. c \in k..Len(words) /\ \A j \in k..(c - 1) : Open(words, k, j) # 0
  BY <1>1, ClosingIs
<1>3. c # k
  BY <1>1, <1>2, OpenAtOnce, ClosingIs
<1>4. c - 1 \in Nat
  BY <1>1, <1>2
<1> HIDE DEF c
<1>5. \A j \in k..(c - 1) : Open(words, k, j) > 0
  BY <1>1, <1>2, <1>4, NeverBelow
<1> QED BY <1>2, <1>5 DEF c

\* What is left of a word.
LEMMA CutWord ==
  ASSUME NEW words, IsText(words), NEW i \in DOMAIN words
  PROVE  LET w == TheBenchmarks!Cut(words)[i]
             cut == /\ i \in TheBenchmarks!Arguments(words)
                    /\ TheBenchmarks!IsNumber(words[i]) /\ words[i].size > CAP
         IN  /\ w # words[i] => cut
             /\ cut => w.size = CAP
             /\ ~cut => w = words[i]
<1> DEFINE Inside == i \in TheBenchmarks!Arguments(words)
           w == TheBenchmarks!Cut(words)[i]
<1>1. w = IF Inside THEN TheBenchmarks!Capped(words[i]) ELSE words[i]
  BY DEF TheBenchmarks!Cut
<1>2. words[i] = [is |-> words[i].is, size |-> words[i].size]
  BY DEF IsText
<1>3. TheBenchmarks!Capped(words[i]) =
        IF TheBenchmarks!IsNumber(words[i]) /\ words[i].size > CAP
        THEN [words[i] EXCEPT !.size = CAP] ELSE words[i]
  BY DEF TheBenchmarks!Capped
<1>4. [words[i] EXCEPT !.size = CAP].size = CAP
  BY <1>2
<1> HIDE DEF w, Inside
<1> QED BY <1>1, <1>3, <1>4 DEF w, Inside

\* A number of a text whose brackets match is inside of a call when one is open there.
LEMMA MatchedAreClosed ==
  ASSUME NEW words, IsText(words), TheBenchmarks!Balanced(words), NEW k, IsACall(words, k)
  PROVE  TheBenchmarks!Closing(words, k) # TheBenchmarks!NoClose
<1> DEFINE n == Len(words)
<1>1. n \in Nat /\ DOMAIN words = 1..n /\ k \in 1..n /\ TheBenchmarks!IsOpen(words[k])
  BY Listed DEF IsACall, IsText, TheBenchmarks!IsOpen
<1> HIDE DEF n
<1>2. Open(words, 1, n) = 0
  BY <1>1, OpenIs DEF TheBenchmarks!Balanced, n
<1>3. Open(words, 1, k - 1) >= 0 /\ Open(words, 1, k - 1) \in Int
  <2>1. CASE k = 1
    <3>1. Opens(words, 1, 0) = {} /\ Closes(words, 1, 0) = {}
      BY DEF Opens, Closes
    <3>2. Open(words, 1, 0) = Cardinality({}) - Cardinality({})
      BY <3>1 DEF Open
    <3>3. Open(words, 1, k - 1) = 0
      BY <2>1, <3>2, FS_EmptySet
    <3> QED BY <3>3
  <2>2. CASE k # 1
    <3>1. k - 1 \in DOMAIN words /\ k - 1 \in Nat
      BY <1>1, <2>2
    <3>2. TheBenchmarks!Depth(words, 1, k - 1) >= 0
      BY <3>1 DEF TheBenchmarks!Balanced
    <3> QED BY <3>1, <3>2, OpenIs
  <2> QED BY <2>1, <2>2
<1>4. Open(words, k, n) <= 0 /\ Open(words, k, n) \in Int
  <2>1. Open(words, 1, n) = Open(words, 1, k - 1) + Open(words, k, n) /\ Open(words, k, n) \in Int
    BY <1>1, OpenAdds, OpenIs
  <2> QED BY <1>2, <1>3, <2>1
<1>5. \E j \in k..n : Open(words, k, j) = 0
  <2>1. k \in Nat \ {0} /\ n \in k..n
    BY <1>1
  <2> QED BY <1>1, <1>4, <2>1, NeverBelow
<1> QED BY <1>1, <1>5, ClosingIs DEF n

LEMMA TextsAreCut ==
  ASSUME NEW words, IsText(words)
  PROVE  TheBenchmarks!CutIsExact(words)
<1>1. Len(words) \in Nat /\ DOMAIN words = 1..Len(words)
  BY Listed DEF IsText
<1>2. ASSUME NEW i \in DOMAIN words, i \in TheBenchmarks!Arguments(words)
      PROVE  TheBenchmarks!Within(words, i)
  <2>1. PICK k \in DOMAIN words :
          /\ IsACall(words, k) /\ TheBenchmarks!Closing(words, k) # TheBenchmarks!NoClose
          /\ i \in (k + 1)..(TheBenchmarks!Closing(words, k) - 1)
    BY <1>1, <1>2, ArgumentsAre
  <2>2. /\ TheBenchmarks!Closing(words, k) \in k..Len(words)
        /\ \A j \in k..(TheBenchmarks!Closing(words, k) - 1) : Open(words, k, j) > 0
    BY <2>1, OpenUntilClosed
  <2>3. k \in 1..i /\ \A j \in k..i : j \in k..(TheBenchmarks!Closing(words, k) - 1) /\ j \in Nat
    BY <1>1, <2>1, <2>2
  <2>4. \A j \in k..i : TheBenchmarks!Depth(words, k, j) > 0
    BY <1>1, <2>2, <2>3, OpenIs
  <2> QED BY <2>1, <2>3, <2>4 DEF TheBenchmarks!Within, IsACall
<1>3. ASSUME NEW i \in DOMAIN words, TheBenchmarks!Balanced(words),
             TheBenchmarks!IsNumber(words[i]), TheBenchmarks!Within(words, i)
      PROVE  i \in TheBenchmarks!Arguments(words)
  <2>1. PICK k \in 1..i : words[k].is = "range(" /\ \A j \in k..i : TheBenchmarks!Depth(words, k, j) > 0
    BY <1>3 DEF TheBenchmarks!Within
  <2>2. k \in DOMAIN words /\ IsACall(words, k) /\ k # i
    BY <1>1, <1>3, <2>1 DEF IsACall, TheBenchmarks!IsNumber
  <2>3. \A j \in DOMAIN words : IsACall(words, j) =>
          TheBenchmarks!Closing(words, j) # TheBenchmarks!NoClose
    BY <1>3, MatchedAreClosed
  <2>4. TheBenchmarks!Closing(words, k) \in k..Len(words)
        /\ Open(words, k, TheBenchmarks!Closing(words, k)) = 0
    BY <2>2, <2>3, ClosingIs
  <2>5. ~(TheBenchmarks!Closing(words, k) <= i)
    <3> DEFINE c == TheBenchmarks!Closing(words, k)
    <3> SUFFICES ASSUME c <= i PROVE FALSE
      OBVIOUS
    <3>1. c \in k..i /\ c \in Nat /\ k \in Nat
      BY <1>1, <2>2, <2>4
    <3>2. TheBenchmarks!Depth(words, k, c) > 0
      BY <2>1, <3>1
    <3> HIDE DEF c
    <3>3. Open(words, k, c) > 0
      BY <3>1, <3>2, OpenIs
    <3> QED BY <2>4, <3>3 DEF c
  <2>6. i \in (k + 1)..(TheBenchmarks!Closing(words, k) - 1)
    <3> DEFINE c == TheBenchmarks!Closing(words, k)
    <3>1. c \in Int /\ ~(c <= i) /\ k \in 1..i /\ k # i /\ i \in Int
      BY <1>1, <2>1, <2>2, <2>4, <2>5
    <3> HIDE DEF c
    <3>2. i \in (k + 1)..(c - 1)
      BY <3>1
    <3> QED BY <3>2 DEF c
  <2> QED BY <2>2, <2>3, <2>6, ArgumentsAre
<1>4. ASSUME NEW i \in DOMAIN words
      PROVE  /\ TheBenchmarks!Cut(words)[i] # words[i] =>
                  /\ TheBenchmarks!Within(words, i) /\ TheBenchmarks!IsNumber(words[i])
                  /\ words[i].size > CAP /\ TheBenchmarks!Cut(words)[i].size = CAP
             /\ /\ TheBenchmarks!Balanced(words) /\ TheBenchmarks!IsNumber(words[i])
                /\ TheBenchmarks!Within(words, i)
                => TheBenchmarks!Cut(words)[i].size <= CAP
  <2> DEFINE w == TheBenchmarks!Cut(words)[i]
             cut == /\ i \in TheBenchmarks!Arguments(words)
                    /\ TheBenchmarks!IsNumber(words[i]) /\ words[i].size > CAP
  <2>1. (w # words[i] => cut) /\ (cut => w.size = CAP) /\ (~cut => w = words[i])
    BY CutWord
  <2>2. words[i].size \in Nat /\ CAP \in Nat
    BY BooksAssumption DEF IsText
  <2> HIDE DEF w
  <2> QED BY <1>2, <1>3, <2>1, <2>2 DEF w
<1> QED BY <1>4 DEF TheBenchmarks!CutIsExact

-----------------------------------------------------------------------------
(***************************************************************************)
(* cost.rs, the measuring.  What one benchmark was given is, for each of   *)
(* the four measurements before the one in hand, as many processes as a    *)
(* measurement has runs, and for this one as many as were measured.        *)
(***************************************************************************)
Ran(m) == {i \in DOMAIN given : /\ given[i].engine = TheBenchmarks!Four[m][1]
                                /\ given[i].what = TheBenchmarks!Four[m][2]}

HowOften(m) == IF m < measuring THEN RUNS ELSE IF m = measuring THEN Len(sampled) ELSE 0

GivenInv ==
  /\ bench \in Benches
  /\ sampled \in Seq(Prices) /\ Len(sampled) < RUNS
  /\ middles \in Seq(Prices) /\ Len(middles) = measuring - 1
  /\ IsList(given)
  /\ \A i \in DOMAIN given : \E m \in 1..4 : given[i] = TheBenchmarks!Process(m)
  /\ \A m \in 1..4 : IsFiniteSet(Ran(m)) /\ Cardinality(Ran(m)) = HowOften(m)

IsMeasured(one) ==
  /\ one.pair = <<one.pair[1], one.pair[2]>> /\ one.load = <<one.load[1], one.load[2]>>
  /\ {one.pair[1], one.pair[2], one.load[1], one.load[2]} \subseteq Prices

CostsInv ==
  /\ costs = [measured |-> costs.measured, skipped |-> costs.skipped, refused |-> costs.refused]
  /\ IsList(costs.measured)
  /\ \A i \in DOMAIN costs.measured : IsMeasured(costs.measured[i])

BenchInv ==
  /\ measuring \in 0..4
  /\ measuring # 0 => GivenInv
  /\ CostsInv

LEMMA FourAre ==
  /\ TheBenchmarks!Four[1] = <<"ours", "load">> /\ TheBenchmarks!Four[2] = <<"theirs", "load">>
  /\ TheBenchmarks!Four[3] = <<"ours", "query">> /\ TheBenchmarks!Four[4] = <<"theirs", "query">>
  /\ DOMAIN TheBenchmarks!Four = 1..4 /\ Len(TheBenchmarks!Four) = 4
BY DEF TheBenchmarks!Four

LEMMA BenchBegins == ASSUME TheBenchmarks!Init PROVE BenchInv
<1>1. costs = [measured |-> <<>>, skipped |-> <<>>, refused |-> <<>>] /\ measuring = 0
  BY DEF TheBenchmarks!Init
<1>2. costs.measured = <<>> /\ IsList(costs.measured) /\ DOMAIN costs.measured = {}
  BY <1>1, NothingListed
<1> QED BY <1>1, <1>2 DEF BenchInv, CostsInv

LEMMA BenchStays == ASSUME BenchInv, UNCHANGED benchVars PROVE BenchInv'
BY DEF benchVars, BenchInv, GivenInv, CostsInv, Ran, HowOften,
       TheBenchmarks!Process, TheBenchmarks!TheLoad

LEMMA NotABench == TheBenchmarks!NoBench \notin Benches
<1> SUFFICES ASSUME NEW b \in Benches, b = TheBenchmarks!NoBench PROVE FALSE
  OBVIOUS
<1>1. DOMAIN b = {"group", "requires", "load", "sql"}
  <2>1. b = [group |-> b.group, requires |-> b.requires, load |-> b.load, sql |-> b.sql]
    BY BooksAssumption
  <2> QED BY <2>1
<1>2. DOMAIN b = {"group"}
  BY DEF TheBenchmarks!NoBench
<1>3. "sql" \in DOMAIN b /\ "sql" \notin {"group"}
  BY <1>1
<1> QED BY <1>2, <1>3

LEMMA TakeKeeps == ASSUME BenchInv, TheBenchmarks!TakeBenchmark PROVE BenchInv'
<1>1. PICK b \in Benches :
        IF TheBenchmarks!Skipped(b) # "no"
        THEN /\ costs' = [costs EXCEPT !.skipped = Append(@, TheBenchmarks!Skipped(b))]
             /\ UNCHANGED <<bench, measuring>>
        ELSE bench' = b /\ measuring' = 1 /\ UNCHANGED costs
  BY DEF TheBenchmarks!TakeBenchmark
<1>2. bench = TheBenchmarks!NoBench /\ sampled' = <<>> /\ middles' = <<>> /\ given' = <<>>
  BY DEF TheBenchmarks!TakeBenchmark
<1>3. CASE TheBenchmarks!Skipped(b) # "no"
  <2>1. CostsInv' /\ measuring' = measuring /\ bench' = bench
    BY <1>1, <1>3 DEF BenchInv, CostsInv
  <2>2. measuring = 0
    BY <1>2, NotABench DEF BenchInv, GivenInv
  <2> QED BY <2>1, <2>2 DEF BenchInv
<1>4. CASE TheBenchmarks!Skipped(b) = "no"
  <2>1. CostsInv' /\ measuring' = 1 /\ bench' = b
    BY <1>1, <1>4 DEF BenchInv, CostsInv
  <2>2. /\ sampled' \in Seq(Prices) /\ Len(sampled') = 0 /\ middles' \in Seq(Prices)
        /\ Len(middles') = 0 /\ given' \in Seq({}) /\ DOMAIN given' = {}
    BY <1>2
  <2>3. \A m \in 1..4 : Ran(m)' = {}
    BY <2>2 DEF Ran
  <2>4. \A m \in 1..4 : HowOften(m)' = 0
    BY <2>1, <2>2 DEF HowOften
  <2>5. GivenInv'
    <3>1. \A m \in 1..4 : IsFiniteSet(Ran(m)') /\ Cardinality(Ran(m)') = HowOften(m)'
      BY <2>3, <2>4, FS_EmptySet
    <3>2. IsList(given') /\ DOMAIN given' = {}
      BY <1>2, NothingListed
    <3>3. bench' \in Benches /\ Len(sampled') < RUNS /\ Len(middles') = measuring' - 1
      BY <2>1, <2>2, ResourceAssumption
    <3> QED BY <2>2, <3>1, <3>2, <3>3 DEF GivenInv
  <2> QED BY <2>1, <2>5 DEF BenchInv
<1> QED BY <1>3, <1>4

\* One more process was started: it is one more of its measurement.
LEMMA OneMoreProcess ==
  ASSUME BenchInv, measuring # 0,
         given' = Append(given, TheBenchmarks!Process(measuring))
  PROVE  /\ IsList(given')
         /\ \A i \in DOMAIN given' : \E m \in 1..4 : given'[i] = TheBenchmarks!Process(m)
         /\ \A m \in 1..4 :
              /\ IsFiniteSet(Ran(m)')
              /\ Cardinality(Ran(m)') = HowOften(m) + (IF m = measuring THEN 1 ELSE 0)
<1> DEFINE one == TheBenchmarks!Process(measuring)
           n == Len(given)
<1>1. /\ measuring \in 1..4 /\ IsList(given)
      /\ \A i \in DOMAIN given : \E m \in 1..4 : given[i] = TheBenchmarks!Process(m)
      /\ \A m \in 1..4 : IsFiniteSet(Ran(m)) /\ Cardinality(Ran(m)) = HowOften(m)
  BY DEF BenchInv, GivenInv
<1>2. n \in Nat /\ DOMAIN given = 1..n
  BY <1>1, Listed
<1>3. /\ IsList(given') /\ DOMAIN given' = 1..(n + 1)
      /\ \A i \in 1..(n + 1) : given'[i] = IF i <= n THEN given[i] ELSE one
  BY <1>1, Appended
<1>4. /\ one.engine = TheBenchmarks!Four[measuring][1] /\ one.what = TheBenchmarks!Four[measuring][2]
  BY DEF TheBenchmarks!Process
<1> HIDE DEF one, n
<1>5. \A m \in 1..4 :
        Ran(m)' = IF m = measuring THEN Ran(m) \cup {n + 1} ELSE Ran(m)
  <2> SUFFICES ASSUME NEW m \in 1..4
               PROVE  Ran(m)' = IF m = measuring THEN Ran(m) \cup {n + 1} ELSE Ran(m)
    OBVIOUS
  <2>1. Ran(m)' = {i \in 1..(n + 1) : /\ given'[i].engine = TheBenchmarks!Four[m][1]
                                      /\ given'[i].what = TheBenchmarks!Four[m][2]}
    BY <1>3 DEF Ran
  <2>2. Ran(m) = {i \in 1..n : /\ given'[i].engine = TheBenchmarks!Four[m][1]
                               /\ given'[i].what = TheBenchmarks!Four[m][2]}
    BY <1>2, <1>3 DEF Ran
  <2>3. given'[n + 1] = one /\ 1..(n + 1) = (1..n) \cup {n + 1}
    BY <1>2, <1>3
  <2>4. /\ given'[n + 1].engine = TheBenchmarks!Four[m][1]
        /\ given'[n + 1].what = TheBenchmarks!Four[m][2]
        <=> m = measuring
    BY <1>1, <1>4, <2>3, FourAre
  <2> QED BY <2>1, <2>2, <2>3, <2>4
<1>6. \A m \in 1..4 : n + 1 \notin Ran(m)
  BY <1>2 DEF Ran
<1>7. \A m \in 1..4 :
        /\ IsFiniteSet(Ran(m) \cup {n + 1})
        /\ Cardinality(Ran(m) \cup {n + 1}) = HowOften(m) + 1
  BY <1>1, <1>6, FS_AddElement
<1>8. \A m \in 1..4 : HowOften(m) \in Nat
  BY <1>1, FS_CardinalityType
<1>9. \A m \in 1..4 :
        /\ IsFiniteSet(Ran(m)')
        /\ Cardinality(Ran(m)') = HowOften(m) + (IF m = measuring THEN 1 ELSE 0)
  <2> SUFFICES ASSUME NEW m \in 1..4
               PROVE  /\ IsFiniteSet(Ran(m)')
                      /\ Cardinality(Ran(m)') = HowOften(m) + (IF m = measuring THEN 1 ELSE 0)
    OBVIOUS
  <2>1. HowOften(m) + 0 = HowOften(m)
    BY <1>8
  <2>2. CASE m = measuring
    BY <1>5, <1>7, <2>2
  <2>3. CASE m # measuring
    BY <1>1, <1>5, <2>1, <2>3
  <2> QED BY <2>2, <2>3
<1>10. \A i \in DOMAIN given' : \E m \in 1..4 : given'[i] = TheBenchmarks!Process(m)
  BY <1>1, <1>2, <1>3 DEF one
<1> QED BY <1>3, <1>9, <1>10

\* A measurement is made of the run in the middle, which was one of them.
LEMMA MiddleOfPrices ==
  ASSUME NEW runs \in Seq(Prices), runs # <<>>
  PROVE  TheBenchmarks!Middle(runs) \in Prices
<1>1. IsList(runs) /\ \A i \in DOMAIN runs : runs[i] \in Prices /\ runs[i].wall \in Int
  BY IsListOf, BooksAssumption
<1>2. Middle(runs) \in Range(runs)
  BY <1>1, MiddleIs
<1> QED BY <1>1, <1>2, SameMiddle DEF Range

LEMMA MeasureKeeps == ASSUME BenchInv, TheBenchmarks!Measure PROVE BenchInv'
<1>1. /\ measuring \in 1..4 /\ GivenInv /\ CostsInv /\ measuring # 0
      /\ given' = Append(given, TheBenchmarks!Process(measuring))
  BY FourAre DEF BenchInv, TheBenchmarks!Measure
<1>2. /\ IsList(given')
      /\ \A i \in DOMAIN given' : \E m \in 1..4 : given'[i] = TheBenchmarks!Process(m)
      /\ \A m \in 1..4 :
           /\ IsFiniteSet(Ran(m)')
           /\ Cardinality(Ran(m)') = HowOften(m) + (IF m = measuring THEN 1 ELSE 0)
  BY <1>1, OneMoreProcess
<1>3. PICK usage \in Prices :
        LET runs == Append(sampled, usage) IN
        IF Len(runs) < RUNS
        THEN /\ sampled' = runs
             /\ UNCHANGED <<bench, measuring, middles, costs>>
        ELSE /\ sampled' = <<>>
             /\ middles' = Append(middles, TheBenchmarks!Middle(runs))
             /\ IF measuring < Len(TheBenchmarks!Four)
                THEN measuring' = measuring + 1 /\ UNCHANGED <<bench, costs>>
                ELSE /\ costs' = [costs EXCEPT !.measured = Append(@,
                          [group |-> bench.group, pair |-> <<middles'[3], middles'[4]>>,
                           load  |-> <<middles'[1], middles'[2]>>])]
                     /\ TheBenchmarks!Leave
  BY DEF TheBenchmarks!Measure
<1> DEFINE runs == Append(sampled, usage)
<1>4. /\ sampled \in Seq(Prices) /\ Len(sampled) \in Nat /\ Len(sampled) < RUNS /\ RUNS \in Nat
      /\ runs \in Seq(Prices) /\ Len(runs) = Len(sampled) + 1 /\ runs # <<>>
  BY <1>1, ResourceAssumption DEF GivenInv
<1>5. TheBenchmarks!Middle(runs) \in Prices
  <2> HIDE DEF runs
  <2> QED BY <1>4, MiddleOfPrices
<1> HIDE DEF runs
<1>6. ASSUME bench' = bench, NEW m \in 1..4
      PROVE  TheBenchmarks!Process(m)' = TheBenchmarks!Process(m)
  BY <1>6 DEF TheBenchmarks!Process, TheBenchmarks!TheLoad
<1>7. CASE Len(runs) < RUNS
  <2>1. sampled' = runs /\ UNCHANGED <<bench, measuring, middles, costs>>
    BY <1>3, <1>7 DEF runs
  <2>2. \A m \in 1..4 : HowOften(m)' = HowOften(m) + (IF m = measuring THEN 1 ELSE 0)
    <3>1. \A m \in 1..4 : HowOften(m)' = IF m < measuring THEN RUNS
                           ELSE IF m = measuring THEN Len(runs) ELSE 0
      BY <2>1 DEF HowOften
    <3> TAKE m \in 1..4
    <3>2. CASE m < measuring
      BY <1>1, <1>4, <3>1, <3>2 DEF HowOften
    <3>3. CASE m = measuring
      BY <1>1, <1>4, <3>1, <3>3 DEF HowOften
    <3>4. CASE m > measuring
      <4>1. ~(m < measuring) /\ m # measuring
        BY <1>1, <3>4
      <4>2. HowOften(m)' = 0 /\ HowOften(m) = 0
        BY <3>1, <4>1 DEF HowOften
      <4> QED BY <4>1, <4>2
    <3> QED BY <1>1, <3>2, <3>3, <3>4
  <2>3. CostsInv'
    BY <1>1, <2>1 DEF CostsInv
  <2>4. GivenInv'
    BY <1>1, <1>2, <1>4, <1>6, <1>7, <2>1, <2>2 DEF GivenInv
  <2> QED BY <1>1, <2>1, <2>3, <2>4 DEF BenchInv
<1>8. CASE ~(Len(runs) < RUNS)
  <2>1. sampled' = <<>> /\ middles' = Append(middles, TheBenchmarks!Middle(runs))
    BY <1>3, <1>8 DEF runs
  <2>2. middles \in Seq(Prices) /\ Len(middles) = measuring - 1
    BY <1>1 DEF GivenInv
  <2>3. middles' \in Seq(Prices) /\ Len(middles') = measuring
    BY <1>1, <1>5, <2>1, <2>2
  <2>4. Len(sampled) + 1 = RUNS
    BY <1>4, <1>8
  <2>5. CASE measuring < 4
    <3>1. measuring' = measuring + 1 /\ bench' = bench /\ costs' = costs
      BY <1>3, <1>8, <2>5, FourAre DEF runs
    <3>2. sampled' \in Seq(Prices) /\ Len(sampled') = 0 /\ 0 < RUNS
      BY <2>1, ResourceAssumption
    <3>3. \A m \in 1..4 : HowOften(m)' = HowOften(m) + (IF m = measuring THEN 1 ELSE 0)
      <4>1. \A m \in 1..4 : HowOften(m)' = IF m < measuring + 1 THEN RUNS
                             ELSE IF m = measuring + 1 THEN 0 ELSE 0
        BY <3>1, <3>2 DEF HowOften
      <4> TAKE m \in 1..4
      <4>2. CASE m < measuring
        BY <1>1, <1>4, <4>1, <4>2 DEF HowOften
      <4>3. CASE m = measuring
        BY <1>1, <1>4, <2>4, <4>1, <4>3 DEF HowOften
      <4>4. CASE m > measuring
        <5>1. ~(m < measuring) /\ m # measuring /\ ~(m < measuring + 1)
          BY <1>1, <4>4
        <5>2. HowOften(m)' = 0 /\ HowOften(m) = 0
          BY <4>1, <5>1 DEF HowOften
        <5> QED BY <5>1, <5>2
      <4> QED BY <1>1, <4>2, <4>3, <4>4
    <3>4. CostsInv'
      BY <1>1, <3>1 DEF CostsInv
    <3>5. Len(middles') = measuring' - 1 /\ measuring' \in 1..4
      BY <1>1, <2>3, <2>5, <3>1
    <3>6. GivenInv'
      BY <1>1, <1>2, <1>6, <2>3, <3>1, <3>2, <3>3, <3>5 DEF GivenInv
    <3> QED BY <3>4, <3>5, <3>6 DEF BenchInv
  <2>6. CASE ~(measuring < 4)
    <3> DEFINE one == [group |-> bench.group, pair |-> <<middles'[3], middles'[4]>>,
                       load  |-> <<middles'[1], middles'[2]>>]
    <3>1. costs' = [costs EXCEPT !.measured = Append(@, one)] /\ measuring' = 0
      BY <1>3, <1>8, <2>6, FourAre DEF runs, TheBenchmarks!Leave
    <3>2. Len(middles') = 4
      BY <1>1, <2>3, <2>6
    <3>3. \A m \in 1..4 : middles'[m] \in Prices
      <4> DEFINE s == middles'
      <4>1. s \in Seq(Prices) /\ Len(s) = 4
        BY <2>3, <3>2
      <4> HIDE DEF s
      <4>2. \A m \in 1..Len(s) : s[m] \in Prices
        BY <4>1, ElementOfSeq
      <4> QED BY <4>1, <4>2 DEF s
    <3>4. IsMeasured(one)
      BY <3>3 DEF IsMeasured
    <3> HIDE DEF one
    <3>5. costs = [measured |-> costs.measured, skipped |-> costs.skipped, refused |-> costs.refused]
          /\ IsList(costs.measured)
          /\ \A i \in DOMAIN costs.measured : IsMeasured(costs.measured[i])
      BY <1>1 DEF CostsInv
    <3>6. /\ IsList(Append(costs.measured, one))
          /\ \A i \in DOMAIN Append(costs.measured, one) : IsMeasured(Append(costs.measured, one)[i])
      <4> DEFINE s == costs.measured
      <4>1. IsList(s) /\ \A i \in DOMAIN s : IsMeasured(s[i])
        BY <3>5
      <4> HIDE DEF s
      <4>2. /\ IsList(Append(s, one))
            /\ \A i \in DOMAIN Append(s, one) : IsMeasured(Append(s, one)[i])
        BY <3>4, <4>1, Listed, Appended
      <4> QED BY <4>2 DEF s
    <3>7. /\ costs'.measured = Append(costs.measured, one)
          /\ costs' = [measured |-> costs'.measured, skipped |-> costs'.skipped,
                       refused |-> costs'.refused]
      BY <3>1, <3>5
    <3>8. CostsInv'
      BY <3>6, <3>7 DEF CostsInv
    <3> QED BY <3>1, <3>8 DEF BenchInv
  <2> QED BY <2>5, <2>6
<1> QED BY <1>7, <1>8

LEMMA BenchmarkingKeeps == ASSUME BenchInv, TheBenchmarks!Next PROVE BenchInv'
<1>1. CASE TheBenchmarks!TakeBenchmark \/ TheBenchmarks!Measure
  BY <1>1, TakeKeeps, MeasureKeeps
<1>2. CASE TheBenchmarks!RefuseBenchmark
  <2>1. measuring' = 0 /\ \E x : costs' = [costs EXCEPT !.refused = Append(@, x)]
    BY <1>2 DEF TheBenchmarks!RefuseBenchmark, TheBenchmarks!Leave
  <2>2. CostsInv'
    BY <2>1 DEF BenchInv, CostsInv
  <2> QED BY <2>1, <2>2 DEF BenchInv
<1>3. CASE TheBenchmarks!StopBenchmarks
  <2>1. measuring' = 0 /\ costs' = [measured |-> <<>>, skipped |-> <<>>, refused |-> <<>>]
    BY <1>3 DEF TheBenchmarks!StopBenchmarks
  <2>2. costs'.measured = <<>> /\ IsList(costs'.measured) /\ DOMAIN costs'.measured = {}
    BY <2>1, NothingListed
  <2>3. CostsInv'
    BY <2>1, <2>2 DEF CostsInv
  <2> QED BY <2>1, <2>3 DEF BenchInv
<1> QED BY <1>1, <1>2, <1>3 DEF TheBenchmarks!Next

LEMMA SharesAreShares ==
  ASSUME NEW one, IsMeasured(one)
  PROVE  TheBenchmarks!LoadShare(one) \in 0..100
<1> DEFINE a == one.load[2].wall
           b == one.pair[2].wall
           q == (100 * a) \div b
<1>1. a \in Nat /\ b \in Nat
  BY BooksAssumption DEF IsMeasured
<1>2. TheBenchmarks!LoadShare(one) = IF b = 0 THEN 0 ELSE IF q > 100 THEN 100 ELSE q
  BY DEF TheBenchmarks!LoadShare
<1> HIDE DEF a, b
<1>3. b # 0 => q \in Nat
  BY <1>1
<1> HIDE DEF q
<1> QED BY <1>2, <1>3

LEMMA BenchmarksWereFair == ASSUME BenchInv PROVE TheBenchmarks!BenchmarksAreFair
<1>1. ASSUME measuring # 0
      PROVE  LET Those(e, what) == {i \in DOMAIN given : given[i].engine = e /\ given[i].what = what}
             IN  /\ TheBenchmarks!CutIsExact(bench.sql.text)
                 /\ Those("ours", "query") # {} =>
                      \A e \in {"ours", "theirs"} : TheBenchmarks!Cardinality(Those(e, "load")) = RUNS
                 /\ Those("theirs", "query") # {} =>
                      TheBenchmarks!Cardinality(Those("ours", "query")) = RUNS
                 /\ \A i, j \in DOMAIN given :
                      given[i].load = given[j].load
                      /\ given[i].what = given[j].what => given[i].sql = given[j].sql
  <2> DEFINE Those(e, what) == {i \in DOMAIN given : given[i].engine = e /\ given[i].what = what}
  <2>1. measuring \in 1..4 /\ GivenInv
    BY <1>1 DEF BenchInv
  <2>2. IsText(bench.sql.text)
    <3>1. bench \in Benches
      BY <2>1 DEF GivenInv
    <3> QED BY <3>1, BooksAssumption DEF IsText
  <2>3. TheBenchmarks!CutIsExact(bench.sql.text)
    BY <2>2, TextsAreCut
  <2>4. /\ Those("ours", "load") = Ran(1) /\ Those("theirs", "load") = Ran(2)
        /\ Those("ours", "query") = Ran(3) /\ Those("theirs", "query") = Ran(4)
    BY FourAre DEF Ran
  <2>5. \A m \in 1..4 : IsFiniteSet(Ran(m)) /\ Cardinality(Ran(m)) = HowOften(m)
    BY <2>1 DEF GivenInv
  <2>6. \A m \in 1..4 : Ran(m) # {} => HowOften(m) # 0
    BY <2>5, FS_EmptySet
  <2>7. Ran(3) # {} => HowOften(1) = RUNS /\ HowOften(2) = RUNS
    BY <2>1, <2>6 DEF HowOften
  <2>8. Ran(4) # {} => HowOften(3) = RUNS
    BY <2>1, <2>6 DEF HowOften
  <2>9. \A i, j \in DOMAIN given :
          given[i].load = given[j].load /\ given[i].what = given[j].what => given[i].sql = given[j].sql
    <3> SUFFICES ASSUME NEW i \in DOMAIN given, NEW j \in DOMAIN given
                 PROVE  /\ given[i].load = given[j].load
                        /\ given[i].what = given[j].what => given[i].sql = given[j].sql
      OBVIOUS
    <3>1. PICK m \in 1..4 : given[i] = TheBenchmarks!Process(m)
      BY <2>1 DEF GivenInv
    <3>2. PICK k \in 1..4 : given[j] = TheBenchmarks!Process(k)
      BY <2>1 DEF GivenInv
    <3> QED BY <3>1, <3>2 DEF TheBenchmarks!Process
  <2> HIDE DEF Those
  <2>10. /\ Those("ours", "query") # {} =>
              /\ TheBenchmarks!Cardinality(Those("ours", "load")) = RUNS
              /\ TheBenchmarks!Cardinality(Those("theirs", "load")) = RUNS
         /\ Those("theirs", "query") # {} =>
              TheBenchmarks!Cardinality(Those("ours", "query")) = RUNS
    BY <2>4, <2>5, <2>7, <2>8, SameCardinality
  <2> QED BY <2>3, <2>9, <2>10 DEF Those
<1>2. ASSUME NEW i \in DOMAIN costs.measured
      PROVE  /\ \A u \in TheBenchmarks!Range(costs.measured[i].pair)
                           \cup TheBenchmarks!Range(costs.measured[i].load) : u \in Prices
             /\ TheBenchmarks!LoadShare(costs.measured[i]) \in 0..100
  <2> DEFINE one == costs.measured[i]
  <2>1. IsMeasured(one)
    BY DEF BenchInv, CostsInv
  <2> HIDE DEF one
  <2>2. \A a, b : TheBenchmarks!Range(<<a, b>>) = {a, b}
    BY DEF TheBenchmarks!Range
  <2>3. /\ TheBenchmarks!Range(one.pair) = {one.pair[1], one.pair[2]}
        /\ TheBenchmarks!Range(one.load) = {one.load[1], one.load[2]}
    BY <2>1, <2>2 DEF IsMeasured
  <2>4. \A u \in TheBenchmarks!Range(one.pair) \cup TheBenchmarks!Range(one.load) : u \in Prices
    BY <2>1, <2>3 DEF IsMeasured
  <2>5. TheBenchmarks!LoadShare(one) \in 0..100
    BY <2>1, SharesAreShares
  <2> QED BY <2>4, <2>5 DEF one
<1> QED BY <1>1, <1>2 DEF TheBenchmarks!BenchmarksAreFair

-----------------------------------------------------------------------------
(***************************************************************************)
(* report.rs.  The rows of a run that are in its book stand in a stretch:  *)
(* there is a place they are counted from, and no row of somebody else, no *)
(* header and nothing that was cut is between two of them.                 *)
(***************************************************************************)
IsIn(i) == measured[i].at \in {"written", "torn"}

\* The lines of a book that are rows of one run.
Its(i, b) ==
  {p \in DOMAIN book[b] : /\ book[b][p].is = "row"
                          /\ book[b][p].stamp = measured[i].stamp
                          /\ book[b][p].host = measured[i].host}

\* A line is a row of a run, but for the number at its end and what is in front of it.
AsRow(run, k, behind, total) ==
  [is |-> "row", behind |-> behind, stamp |-> run.stamp, host |-> run.host,
   commit |-> run.commit, scope |-> run.rows[k][1], ratio |-> run.rows[k][2], total |-> total]

IsRowOf(line, run, k) ==
  /\ k \in DOMAIN run.rows
  /\ line.behind \in BOOLEAN
  /\ line = AsRow(run, k, line.behind, line.total)

\* Only the first of them may stand behind something, only the last may be no number
\* at its end, and the number of a run that is all there is its own.
StandsFrom(i, b, off) ==
  /\ \A p \in Its(i, b) : p - off \in Nat /\ IsRowOf(book[b][p], measured[i], p - off)
  /\ \A p, q \in Its(i, b) : \A r \in p..q : r \in Its(i, b)
  /\ \A p, q \in Its(i, b) :
       /\ book[b][p].behind = TRUE => p <= q
       /\ ~ThePages!Parses(book[b][p]) => q <= p
  /\ measured[i].at = "written" =>
       \A p \in Its(i, b) : book[b][p].total = ThePages!TotalOf(measured[i])

\* The newest run of a book nothing was cut off in is at its end, and all there.
EndsWhole(i, b) ==
  LET all == measured[i].rows IN
  /\ Len(all) <= Len(book[b])
  /\ \A k \in 1..Len(all) :
       book[b][Len(book[b]) - Len(all) + k] = ThePages!RowOf(measured[i], k)

RunsInv ==
  /\ IsList(measured)
  /\ \A i \in DOMAIN measured :
       /\ measured[i] = [book |-> measured[i].book, stamp |-> measured[i].stamp,
                         host |-> measured[i].host, commit |-> measured[i].commit,
                         rows |-> measured[i].rows, fresh |-> measured[i].fresh,
                         at |-> measured[i].at]
       /\ measured[i].book \in DOMAIN Measured
       /\ measured[i].rows \in Measured[measured[i].book]
       /\ measured[i].at # "refused" => measured[i].rows # <<>>
  /\ \A i, j \in DOMAIN measured :
       measured[i].stamp = measured[j].stamp /\ measured[i].host = measured[j].host => i = j

\* What stands in front of a row of a run was left by one before it, and what a write
\* goes on behind is a row of a run that was cut off itself.
CutBefore(b, n) ==
  /\ \A p \in Its(order[b][n], b) : book[b][p].behind = TRUE =>
       \E m \in 1..(n - 1) : measured[order[b][m]].at = "torn"
  /\ b \in open /\ Len(book[b]) \in Its(order[b][n], b) => measured[order[b][n]].at = "torn"

BookInv(b) ==
  /\ IsList(book[b]) /\ IsList(order[b])
  /\ b \in open => Len(book[b]) # 0 /\ \E n \in DOMAIN order[b] : measured[order[b][n]].at = "torn"
  /\ \A n \in DOMAIN order[b] :
       /\ order[b][n] \in DOMAIN measured /\ IsIn(order[b][n]) /\ measured[order[b][n]].book = b
       /\ \E off \in 0..Len(book[b]) : StandsFrom(order[b][n], b, off)
       /\ CutBefore(b, n)
  /\ \A p \in DOMAIN book[b] : book[b][p].is = "row" =>
       \E n \in DOMAIN order[b] : p \in Its(order[b][n], b)
  /\ /\ Len(order[b]) # 0
     /\ \A n \in DOMAIN order[b] : measured[order[b][n]].at = "written"
     => EndsWhole(order[b][Len(order[b])], b)

BooksInv ==
  /\ RunsInv
  /\ book \in [DOMAIN Measured -> Range(book)] /\ order \in [DOMAIN Measured -> Range(order)]
  /\ \A b \in DOMAIN Measured : BookInv(b)

ReadInv ==
  /\ "at" \in DOMAIN page
  /\ page.at = "read" =>
    \A b \in DOMAIN Measured :
      IsList(page.before[b]) /\ \A n \in DOMAIN page.before[b] :
        page.before[b][n] \in DOMAIN measured /\ IsIn(page.before[b][n])

PagesInv == BooksInv /\ ReadInv /\ ThePages!PageCarriesOneRun

\* A run that is not in its book yet may change, and there may be more of them.
RunsGoOn ==
  \A i \in DOMAIN measured :
    /\ i \in DOMAIN measured' /\ (IsIn(i) => measured'[i] = measured[i])

\* A run that is in a book stands there as it did, when the book is as it was.
LEMMA StandStays ==
  ASSUME RunsGoOn, NEW b, book'[b] = book[b], NEW j \in DOMAIN measured, IsIn(j)
  PROVE  /\ j \in DOMAIN measured' /\ IsIn(j)' /\ measured'[j] = measured[j]
         /\ Its(j, b)' = Its(j, b)
         /\ \A off : StandsFrom(j, b, off)' <=> StandsFrom(j, b, off)
         /\ EndsWhole(j, b)' <=> EndsWhole(j, b)
<1>1. j \in DOMAIN measured' /\ measured'[j] = measured[j]
  BY DEF RunsGoOn
<1>2. IsIn(j)' /\ Its(j, b)' = Its(j, b)
  BY <1>1 DEF IsIn, Its
<1>3. \A off : StandsFrom(j, b, off)' <=> StandsFrom(j, b, off)
  BY <1>1, <1>2 DEF StandsFrom, IsRowOf, AsRow, ThePages!Parses, ThePages!TotalOf
<1>4. EndsWhole(j, b)' <=> EndsWhole(j, b)
  BY <1>1, <1>2 DEF EndsWhole, ThePages!RowOf, ThePages!TotalOf
<1> QED BY <1>1, <1>2, <1>3, <1>4

LEMMA BookStays ==
  ASSUME RunsGoOn, NEW b, BookInv(b), book'[b] = book[b], order'[b] = order[b],
         b \in open' => b \in open
  PROVE  BookInv(b)'
<1>1. \A n \in DOMAIN order[b] :
        /\ order[b][n] \in DOMAIN measured' /\ measured'[order[b][n]] = measured[order[b][n]]
  BY DEF BookInv, RunsGoOn
<1>2. ASSUME NEW j \in DOMAIN measured, IsIn(j)
      PROVE  /\ j \in DOMAIN measured' /\ IsIn(j)' /\ measured'[j] = measured[j]
             /\ Its(j, b)' = Its(j, b)
             /\ \A off : StandsFrom(j, b, off)' <=> StandsFrom(j, b, off)
             /\ EndsWhole(j, b)' <=> EndsWhole(j, b)
  BY <1>2, StandStays
<1>3. \A n \in DOMAIN order[b] : order[b][n] \in DOMAIN measured /\ IsIn(order[b][n])
  BY DEF BookInv
<1>4. IsList(book'[b]) /\ IsList(order'[b])
      /\ (b \in open' => Len(book'[b]) # 0
                          /\ \E n \in DOMAIN order'[b] : measured'[order'[b][n]].at = "torn")
  BY <1>1, <1>3 DEF BookInv
<1>5. ASSUME NEW n \in DOMAIN order'[b]
      PROVE  /\ order'[b][n] \in DOMAIN measured' /\ IsIn(order[b][n])'
             /\ measured'[order'[b][n]].book = b
             /\ \E off \in 0..Len(book'[b]) : StandsFrom(order[b][n], b, off)'
             /\ CutBefore(b, n)'
  <2>a. order'[b] = order[b] /\ book'[b] = book[b]
    OBVIOUS
  <2>1. /\ order[b][n] \in DOMAIN measured /\ IsIn(order[b][n]) /\ measured[order[b][n]].book = b
        /\ \E off \in 0..Len(book[b]) : StandsFrom(order[b][n], b, off)
        /\ CutBefore(b, n)
    BY <2>a DEF BookInv
  <2>2. PICK j : j = order[b][n] /\ j = order'[b][n]
    BY <2>a
  <2>3. j \in DOMAIN measured /\ IsIn(j)
    BY <2>1, <2>2
  <2>4. /\ j \in DOMAIN measured' /\ IsIn(j)' /\ measured'[j] = measured[j]
        /\ Its(j, b)' = Its(j, b)
        /\ \A off : StandsFrom(j, b, off)' <=> StandsFrom(j, b, off)
    BY <1>2, <2>3
  <2>5. PICK off \in 0..Len(book[b]) : StandsFrom(j, b, off)
    BY <2>1, <2>2
  <2>6. \E from \in 0..Len(book'[b]) : StandsFrom(order[b][n], b, from)'
    BY <2>2, <2>4, <2>5, <2>a
  <2>b. Its(order[b][n], b)' = Its(order[b][n], b)
    BY <2>2, <2>4
  <2>c. \A m \in 1..(n - 1) : m \in DOMAIN order[b]
    BY <2>a, Listed DEF BookInv
  <2>7. CutBefore(b, n)'
    <3>1. ASSUME NEW p \in Its(order[b][n], b), book[b][p].behind = TRUE
          PROVE  \E m \in 1..(n - 1) : measured'[order'[b][m]].at = "torn"
      <4>1. PICK m \in 1..(n - 1) : measured[order[b][m]].at = "torn"
        BY <2>1, <3>1 DEF CutBefore
      <4> QED BY <1>1, <2>a, <2>c, <4>1
    <3>2. b \in open' /\ Len(book'[b]) \in Its(order[b][n], b) => measured'[order'[b][n]].at = "torn"
      BY <2>1, <2>2, <2>4, <2>a DEF CutBefore
    <3> QED BY <2>a, <2>b, <3>1, <3>2 DEF CutBefore
  <2> QED BY <2>1, <2>2, <2>4, <2>6, <2>7
<1>6. \A p \in DOMAIN book'[b] : book'[b][p].is = "row" =>
        \E n \in DOMAIN order'[b] : p \in Its(order[b][n], b)'
  <2> TAKE p \in DOMAIN book'[b]
  <2> HAVE book'[b][p].is = "row"
  <2>1. PICK n \in DOMAIN order[b] : p \in Its(order[b][n], b)
    BY DEF BookInv
  <2>2. PICK j : j = order[b][n] /\ j = order'[b][n]
    OBVIOUS
  <2>3. Its(j, b)' = Its(j, b)
    BY <1>2, <1>3, <2>2
  <2> QED BY <2>1, <2>2, <2>3
<1>7. (/\ Len(order[b]) # 0
       /\ \A n \in DOMAIN order[b] : measured[order[b][n]].at = "written"
       => EndsWhole(order[b][Len(order[b])], b))'
  <2> SUFFICES ASSUME Len(order'[b]) # 0,
                      \A n \in DOMAIN order'[b] : measured'[order'[b][n]].at = "written"
               PROVE  EndsWhole(order[b][Len(order[b])], b)'
    OBVIOUS
  <2>1. Len(order[b]) # 0 /\ \A n \in DOMAIN order[b] : measured[order[b][n]].at = "written"
    BY <1>1
  <2>2. EndsWhole(order[b][Len(order[b])], b)
    BY <2>1 DEF BookInv
  <2>3. Len(order[b]) \in DOMAIN order[b]
    BY <2>1, Listed DEF BookInv
  <2>4. PICK j : j = order[b][Len(order[b])] /\ j = order'[b][Len(order'[b])]
    OBVIOUS
  <2>5. EndsWhole(j, b)' <=> EndsWhole(j, b)
    BY <1>2, <1>3, <2>3, <2>4
  <2> QED BY <2>2, <2>4, <2>5
<1> QED BY <1>4, <1>5, <1>6, <1>7 DEF BookInv

LEMMA Joined ==
  ASSUME NEW E, NEW s \in Seq(E), NEW t \in Seq(E)
  PROVE  /\ s \o t \in Seq(E) /\ Len(s \o t) = Len(s) + Len(t)
         /\ \A p \in 1..Len(s) : (s \o t)[p] = s[p]
         /\ \A k \in 1..Len(t) : (s \o t)[Len(s) + k] = t[k]
BY ConcatProperties

\* Where the lines of a write come to stand.
LEMMA OntoIs ==
  ASSUME NEW lines, IsList(lines), NEW ends \in BOOLEAN, ~ends => Len(lines) # 0,
         NEW added, IsList(added), Len(added) # 0
  PROVE  LET new  == ThePages!Onto(lines, ends, added)
             base == IF ends THEN Len(lines) ELSE Len(lines) - 1
         IN  /\ IsList(new) /\ Len(new) = base + Len(added) /\ base \in Nat
             /\ \A p \in 1..base : new[p] = lines[p]
             /\ \A q \in 1..Len(added) :
                  new[base + q] = IF q = 1 /\ ~ends THEN ThePages!Glued(lines[Len(lines)], added[1])
                                  ELSE added[q]
<1> DEFINE glued == ThePages!Glued(lines[Len(lines)], added[1])
           E == Range(lines) \cup Range(added) \cup {glued}
           new  == ThePages!Onto(lines, ends, added)
           base == IF ends THEN Len(lines) ELSE Len(lines) - 1
<1>1. lines \in Seq(Range(lines)) /\ added \in Seq(Range(added))
  BY DEF IsList
<1>2. Range(lines) \subseteq E /\ Range(added) \subseteq E /\ glued \in E
  OBVIOUS
<1> HIDE DEF E, glued
<1>3. lines \in Seq(E) /\ added \in Seq(E) /\ Len(lines) \in Nat /\ Len(added) \in Nat
  BY <1>1, <1>2
<1>4. CASE ends
  <2>1. new = lines \o added /\ base = Len(lines)
    BY <1>4 DEF ThePages!Onto
  <2>2. /\ lines \o added \in Seq(E) /\ Len(lines \o added) = Len(lines) + Len(added)
        /\ \A p \in 1..Len(lines) : (lines \o added)[p] = lines[p]
        /\ \A q \in 1..Len(added) : (lines \o added)[Len(lines) + q] = added[q]
    BY <1>3
  <2> HIDE DEF new, base
  <2>3. IsList(new)
    BY <2>1, <2>2, IsListOf
  <2> QED BY <1>3, <1>4, <2>1, <2>2, <2>3 DEF new, base
<1>5. CASE ~ends
  <2> DEFINE front == SubSeq(lines, 1, Len(lines) - 1)
             back == Tail(added)
             one == <<glued>>
  <2>1. added # <<>>
    BY <1>3
  <2>2. new = (front \o one) \o back /\ base = Len(lines) - 1
    BY <1>5, <2>1 DEF ThePages!Onto, glued
  <2>3. /\ front \in Seq(E) /\ Len(front) = Len(lines) - 1 /\ Len(lines) - 1 \in Nat
        /\ \A p \in 1..(Len(lines) - 1) : front[p] = lines[p]
    <3>1. Len(lines) - 1 \in Nat
      BY <1>3, <1>5
    <3>2. \A p \in 1..(Len(lines) - 1) : lines[p] \in E
      BY <1>3, <3>1
    <3> DEFINE n == Len(lines) - 1
    <3>3. /\ front \in Seq(E) /\ Len(front) = IF 1 <= n THEN n - 1 + 1 ELSE 0
          /\ \A i \in 1..(n - 1 + 1) : front[i] = lines[1 + i - 1]
      BY <3>1, <3>2, SubSeqProperties
    <3>4. n \in Nat
      BY <3>1
    <3> HIDE DEF front, n
    <3>5. Len(front) = n
      BY <3>3, <3>4
    <3>6. ASSUME NEW p \in 1..n PROVE front[p] = lines[p]
      <4>1. p \in 1..(n - 1 + 1) /\ 1 + p - 1 = p
        BY <3>4
      <4> QED BY <3>3, <4>1
    <3> QED BY <3>3, <3>4, <3>5, <3>6 DEF n
  <2>4. /\ back \in Seq(E) /\ Len(back) = Len(added) - 1
        /\ \A q \in 1..(Len(added) - 1) : back[q] = added[q + 1]
    BY <1>3, <2>1
  <2>5. one \in Seq(E) /\ Len(one) = 1 /\ one[1] = glued
    BY <1>2
  <2> HIDE DEF front, back, one, new
  <2> DEFINE head == front \o one
  <2>6. /\ head \in Seq(E) /\ Len(head) = Len(lines)
        /\ \A p \in 1..(Len(lines) - 1) : head[p] = lines[p]
        /\ head[Len(lines)] = glued
    <3>1. /\ head \in Seq(E) /\ Len(head) = Len(front) + Len(one)
          /\ \A p \in 1..Len(front) : head[p] = front[p]
          /\ \A k \in 1..Len(one) : head[Len(front) + k] = one[k]
      <4>1. front \in Seq(E) /\ one \in Seq(E)
        BY <2>3, <2>5
      <4> QED BY <4>1, Joined
    <3> HIDE DEF head
    <3>2. Len(front) + 1 = Len(lines) /\ 1 \in 1..Len(one)
      BY <1>3, <2>3, <2>5
    <3>3. head[Len(lines)] = glued
      BY <2>5, <3>1, <3>2
    <3> QED BY <2>3, <2>5, <3>1, <3>2, <3>3
  <2>b. new = head \o back
    BY <2>2
  <2> HIDE DEF head
  <2>7. /\ new \in Seq(E) /\ Len(new) = Len(head) + Len(back)
        /\ \A p \in 1..Len(head) : new[p] = head[p]
        /\ \A q \in 1..Len(back) : new[Len(head) + q] = back[q]
    <3>1. head \in Seq(E) /\ back \in Seq(E)
      BY <2>4, <2>6
    <3>2. /\ head \o back \in Seq(E) /\ Len(head \o back) = Len(head) + Len(back)
          /\ \A p \in 1..Len(head) : (head \o back)[p] = head[p]
          /\ \A q \in 1..Len(back) : (head \o back)[Len(head) + q] = back[q]
      BY <3>1, Joined
    <3> QED BY <2>b, <3>2
  <2>8. ASSUME NEW q \in 1..Len(added)
        PROVE  new[(Len(lines) - 1) + q] = IF q = 1 THEN glued ELSE added[q]
    <3>1. CASE q = 1
      <4>1. (Len(lines) - 1) + q = Len(lines) /\ Len(lines) \in 1..Len(head)
        BY <1>3, <1>5, <2>6, <3>1
      <4> QED BY <2>6, <2>7, <3>1, <4>1
    <3>2. CASE q # 1
      <4>1. PICK k \in 1..(Len(added) - 1) : q = k + 1
        <5>1. q - 1 \in 1..(Len(added) - 1) /\ q = (q - 1) + 1
          BY <1>3, <3>2
        <5> QED BY <5>1
      <4>2. (Len(lines) - 1) + q = Len(head) + k /\ k \in 1..Len(back)
        BY <1>3, <2>4, <2>6, <4>1
      <4>3. new[Len(head) + k] = added[k + 1]
        BY <2>4, <2>7, <4>1, <4>2
      <4> QED BY <3>2, <4>1, <4>2, <4>3
    <3> QED BY <3>1, <3>2
  <2>9. /\ IsList(new) /\ Len(new) = base + Len(added) /\ base \in Nat
        /\ \A p \in 1..base : new[p] = lines[p]
    <3>1. \A p \in 1..(Len(lines) - 1) : p \in 1..Len(head)
      BY <1>3, <2>6
    <3>2. Len(new) = (Len(lines) - 1) + Len(added)
      BY <1>3, <2>4, <2>6, <2>7
    <3> QED BY <2>2, <2>3, <2>6, <2>7, <3>1, <3>2, IsListOf
  <2> QED BY <1>5, <2>2, <2>8, <2>9 DEF new, glued
<1> QED BY <1>4, <1>5

\* The text of a run: its rows, behind a header when there was no book.
Above(run) == IF run.fresh THEN 1 ELSE 0

LEMMA TextIs ==
  ASSUME NEW run, IsList(run.rows)
  PROVE  /\ IsList(ThePages!Text(run)) /\ Len(ThePages!Text(run)) = Above(run) + Len(run.rows)
         /\ Above(run) \in {0, 1} /\ Len(run.rows) \in Nat
         /\ \A q \in 1..(Above(run) + Len(run.rows)) :
              ThePages!Text(run)[q] = IF q <= Above(run) THEN ThePages!Header
                                      ELSE ThePages!RowOf(run, q - Above(run))
<1> DEFINE n == Len(run.rows)
           top == IF run.fresh THEN <<ThePages!Header>> ELSE <<>>
           table == [k \in DOMAIN run.rows |-> ThePages!RowOf(run, k)]
           E == {ThePages!Header} \cup {ThePages!RowOf(run, k) : k \in 1..n}
<1>1. n \in Nat /\ DOMAIN run.rows = 1..n
  BY Listed
<1>2. ThePages!Text(run) = top \o table
  BY DEF ThePages!Text
<1>3. /\ table \in Seq(E) /\ Len(table) = n
      /\ \A k \in 1..n : table[k] = ThePages!RowOf(run, k)
  <2>1. table = [k \in 1..n |-> ThePages!RowOf(run, k)]
    BY <1>1
  <2> HIDE DEF n
  <2>2. \A k \in 1..n : ThePages!RowOf(run, k) \in E
    OBVIOUS
  <2> HIDE DEF E, table
  <2> QED BY <1>1, <2>1, <2>2
<1>4. /\ top \in Seq(E) /\ Len(top) = Above(run) /\ Above(run) \in {0, 1}
      /\ \A q \in 1..Above(run) : top[q] = ThePages!Header
  <2>1. CASE run.fresh
    BY <2>1 DEF Above
  <2>2. CASE ~run.fresh
    BY <2>2 DEF Above
  <2> QED BY <2>1, <2>2
<1> HIDE DEF top, table, n, E
<1>5. /\ top \o table \in Seq(E) /\ Len(top \o table) = Above(run) + n
      /\ \A q \in 1..Above(run) : (top \o table)[q] = top[q]
      /\ \A k \in 1..n : (top \o table)[Above(run) + k] = table[k]
  <2>1. /\ top \o table \in Seq(E) /\ Len(top \o table) = Len(top) + Len(table)
        /\ \A q \in 1..Len(top) : (top \o table)[q] = top[q]
        /\ \A k \in 1..Len(table) : (top \o table)[Len(top) + k] = table[k]
    BY <1>3, <1>4, Joined
  <2> QED BY <1>3, <1>4, <2>1
<1>6. ASSUME NEW q \in 1..(Above(run) + n)
      PROVE  (top \o table)[q] = IF q <= Above(run) THEN ThePages!Header
                                 ELSE ThePages!RowOf(run, q - Above(run))
  <2>1. CASE q <= Above(run)
    BY <1>1, <1>4, <1>5, <2>1
  <2>2. CASE ~(q <= Above(run))
    <3>1. PICK k \in 1..n : q = Above(run) + k /\ q - Above(run) = k
      <4>1. q - Above(run) \in 1..n /\ q = Above(run) + (q - Above(run))
        BY <1>1, <1>4, <2>2
      <4> QED BY <4>1
    <3> QED BY <1>3, <1>5, <2>2, <3>1
  <2> QED BY <2>1, <2>2
<1> QED BY <1>1, <1>2, <1>4, <1>5, <1>6, IsListOf DEF n

\* What a write leaves of a text: the lines up to one of them, which may be cut.
IsPartOf(added, run) ==
  /\ IsList(added) /\ Len(added) \in 1..Len(ThePages!Text(run))
  /\ \A q \in 1..(Len(added) - 1) : added[q] = ThePages!Text(run)[q]
  /\ added[Len(added)] \in ThePages!Cut(ThePages!Text(run)[Len(added)])

\* A row is a row of its run whatever becomes of its end and of what is in front of it.
LEMMA RowHas ==
  ASSUME NEW line, NEW run, NEW k, IsRowOf(line, run, k)
  PROVE  /\ line.is = "row" /\ line.stamp = run.stamp /\ line.host = run.host
         /\ line.commit = run.commit
         /\ line.scope = run.rows[k][1] /\ line.ratio = run.rows[k][2]
<1>1. PICK behind, end : behind \in BOOLEAN /\ line = AsRow(run, k, behind, end)
  BY DEF IsRowOf
<1> QED BY <1>1 DEF AsRow

LEMMA MarkedRow ==
  ASSUME NEW run, NEW k \in DOMAIN run.rows, NEW mark \in BOOLEAN, NEW end
  PROVE  /\ IsRowOf(AsRow(run, k, mark, end), run, k)
         /\ AsRow(run, k, mark, end).behind = mark /\ AsRow(run, k, mark, end).total = end
<1>1. AsRow(run, k, mark, end).behind = mark /\ AsRow(run, k, mark, end).total = end
  BY DEF AsRow
<1> QED BY <1>1 DEF IsRowOf

LEMMA LongerRow ==
  ASSUME NEW line, NEW run, NEW k, IsRowOf(line, run, k), NEW total,
         NEW new, new = [line EXCEPT !.total = total]
  PROVE  IsRowOf(new, run, k) /\ new.behind = line.behind
<1>1. PICK behind, end : behind \in BOOLEAN /\ line = AsRow(run, k, behind, end)
  BY DEF IsRowOf
<1>2. new = AsRow(run, k, behind, total)
  BY <1>1 DEF AsRow
<1>3. k \in DOMAIN run.rows /\ line.behind = behind
  BY <1>1 DEF IsRowOf, AsRow
<1>4. behind \in BOOLEAN
  BY <1>1
<1> QED BY <1>2, <1>3, <1>4, MarkedRow

LEMMA BehindRow ==
  ASSUME NEW line, NEW run, NEW k, IsRowOf(line, run, k),
         NEW new, new = [line EXCEPT !.behind = TRUE]
  PROVE  IsRowOf(new, run, k) /\ new.behind = TRUE /\ new.total = line.total
<1>1. PICK behind, end : behind \in BOOLEAN /\ line = AsRow(run, k, behind, end)
  BY DEF IsRowOf
<1>2. \A mark : [line EXCEPT !.behind = mark] = AsRow(run, k, mark, end)
  BY <1>1 DEF AsRow
<1>3. new = AsRow(run, k, TRUE, end)
  BY <1>2, Zenon
<1>4. k \in DOMAIN run.rows /\ line.total = end
  BY <1>1 DEF IsRowOf, AsRow
<1>5. \A mark \in BOOLEAN : /\ IsRowOf(AsRow(run, k, mark, end), run, k)
                            /\ AsRow(run, k, mark, end).behind = mark
                            /\ AsRow(run, k, mark, end).total = end
  BY <1>4, MarkedRow
<1>6. TRUE \in BOOLEAN
  OBVIOUS
<1> QED BY <1>3, <1>4, <1>5, <1>6, Zenon

LEMMA FirstRow ==
  ASSUME NEW run, NEW k \in DOMAIN run.rows, IsList(run.rows)
  PROVE  LET row == ThePages!RowOf(run, k) IN
         /\ IsRowOf(row, run, k) /\ row.behind = FALSE
         /\ row.total = ThePages!TotalOf(run) /\ ThePages!Parses(row)
<1> DEFINE row == ThePages!RowOf(run, k)
<1>1. row = AsRow(run, k, FALSE, ThePages!TotalOf(run))
  BY DEF ThePages!RowOf, AsRow
<1>2. row.is = "row" /\ row.behind = FALSE /\ row.total = ThePages!TotalOf(run)
  BY <1>1 DEF AsRow
<1>3. Len(ThePages!TotalOf(run)) = 2
  <2>1. \A x, y : Len(<<x, y>>) = 2
    OBVIOUS
  <2> QED BY <2>1 DEF ThePages!TotalOf
<1> HIDE DEF row
<1>4. ThePages!Parses(row)
  BY <1>2, <1>3, BooksAssumption DEF ThePages!Parses
<1> QED BY <1>1, <1>2, <1>4 DEF IsRowOf, row

\* Of its lines those that are rows are rows of the run, and they are as they were
\* written but for the last one, which need not be one.  A stub is the last one too.
LEMMA PartsAre ==
  ASSUME NEW run, IsList(run.rows), NEW added, IsPartOf(added, run), NEW q \in 1..Len(added)
  PROVE  /\ added[q].is = "row" =>
              q > Above(run) /\ IsRowOf(added[q], run, q - Above(run)) /\ added[q].behind = FALSE
         /\ q > Above(run) /\ (q < Len(added) \/ added = ThePages!Text(run)) =>
              /\ added[q].is = "row" /\ ThePages!Parses(added[q])
              /\ added[q].total = ThePages!TotalOf(run)
         /\ added[q].is = "stub" => q = Len(added) /\ added # ThePages!Text(run)
<1> DEFINE n == Len(added)
           line == ThePages!Text(run)[q]
<1>1. /\ Len(ThePages!Text(run)) = Above(run) + Len(run.rows)
      /\ Above(run) \in {0, 1} /\ Len(run.rows) \in Nat /\ DOMAIN run.rows = 1..Len(run.rows)
      /\ \A k \in 1..(Above(run) + Len(run.rows)) :
           ThePages!Text(run)[k] = IF k <= Above(run) THEN ThePages!Header
                                   ELSE ThePages!RowOf(run, k - Above(run))
  BY TextIs, Listed
<1>2. n \in Nat /\ q \in 1..(Above(run) + Len(run.rows)) /\ q \in Nat
  BY <1>1 DEF IsPartOf
<1>3. line = IF q <= Above(run) THEN ThePages!Header ELSE ThePages!RowOf(run, q - Above(run))
  BY <1>1, <1>2
<1>4. (q < n \/ added = ThePages!Text(run)) => added[q] = line
  BY <1>2 DEF IsPartOf
<1>5. q = n => added[q] \in ThePages!Cut(line)
  BY DEF IsPartOf
<1>a. q < n \/ q = n
  BY <1>2 DEF n
<1> HIDE DEF n, line
<1>6. \/ added[q] = line
      \/ added[q].is \notin {"row", "header"}
      \/ line.is = "row" /\ \E total : added[q] = [line EXCEPT !.total = total]
  <2>1. \A digits : ThePages!Stub(digits).is = "stub"
    BY DEF ThePages!Stub
  <2>2. ThePages!Short.is = "short"
    BY DEF ThePages!Short
  <2>3. CASE q < n
    BY <1>4, <2>3
  <2>4. CASE q = n
    <3>1. added[q] \in ThePages!Cut(line)
      BY <1>5, <2>4
    <3>2. CASE added[q] \in {line, ThePages!Short, ThePages!Stub(<<>>)}
      BY <2>1, <2>2, <3>2
    <3>3. CASE line.is = "row" /\ added[q] \in {ThePages!Stub(SubSeq(ThePages!YEAR, 1, m)) :
                                                  m \in DOMAIN ThePages!YEAR}
      BY <2>1, <3>3
    <3>4. CASE line.is = "row" /\ added[q] \in {[line EXCEPT !.total = SubSeq(line.total, 1, m)] :
                                                  m \in 0..Len(line.total)}
      <4>1. PICK m \in 0..Len(line.total) : added[q] = [line EXCEPT !.total = SubSeq(line.total, 1, m)]
        BY <3>4
      <4> QED BY <3>4, <4>1
    <3> QED BY <3>1, <3>2, <3>3, <3>4 DEF ThePages!Cut
  <2> QED BY <1>a, <2>3, <2>4
<1>7. CASE q <= Above(run)
  <2>1. line.is = "header"
    BY <1>3, <1>7 DEF ThePages!Header
  <2>2. added[q].is # "row"
    BY <1>6, <2>1
  <2>3. ~(q > Above(run))
    BY <1>1, <1>2, <1>7
  <2>4. added[q].is = "stub" => q = n /\ added # ThePages!Text(run)
    BY <1>4, <1>a, <2>1
  <2> QED BY <2>2, <2>3, <2>4 DEF n
<1>8. CASE ~(q <= Above(run))
  <2> DEFINE k == q - Above(run)
  <2>1. k \in DOMAIN run.rows /\ q > Above(run)
    BY <1>1, <1>2, <1>8
  <2>2. /\ IsRowOf(line, run, k) /\ line.behind = FALSE /\ line.total = ThePages!TotalOf(run)
        /\ ThePages!Parses(line)
    BY <1>3, <1>8, <2>1, FirstRow
  <2> HIDE DEF k
  <2>3. line.is = "row"
    BY <2>2, RowHas
  <2>4. \A total : IsRowOf([line EXCEPT !.total = total], run, k)
                     /\ [line EXCEPT !.total = total].behind = FALSE
    <3> TAKE total
    <3>1. IsRowOf(line, run, k)
      BY <2>2
    <3>2. IsRowOf([line EXCEPT !.total = total], run, k)
          /\ [line EXCEPT !.total = total].behind = line.behind
      BY <3>1, LongerRow
    <3> QED BY <2>2, <3>2
  <2>5. added[q].is = "row" => IsRowOf(added[q], run, k) /\ added[q].behind = FALSE
    BY <1>6, <2>2, <2>4
  <2>6. added[q].is = "stub" => q = n /\ added # ThePages!Text(run)
    BY <1>4, <1>a, <2>3
  <2> QED BY <1>4, <2>1, <2>2, <2>3, <2>5, <2>6 DEF k, n
<1> QED BY <1>7, <1>8

\* What comes of two lines in one is a row of one of them, or no row.
LEMMA GluedRow ==
  ASSUME NEW old, NEW next, NEW line, line = ThePages!Glued(old, next), line.is = "row"
  PROVE  \/ next.is = "row" /\ line = [next EXCEPT !.behind = TRUE]
         \/ old.is = "row" /\ next.is = "stub" /\ \E total : line = [old EXCEPT !.total = total]
<1>1. \A digits : ThePages!Stub(digits).is # "row"
  BY DEF ThePages!Stub
<1>2. ThePages!Short.is # "row"
  BY DEF ThePages!Short
<1>3. CASE old.is = "stub" /\ next.is = "row"
  BY <1>3 DEF ThePages!Glued
<1>4. CASE old.is = "stub" /\ next.is = "stub"
  BY <1>1, <1>4 DEF ThePages!Glued
<1>5. CASE old.is = "row" /\ next.is = "stub" /\ next.digits # <<>>
  BY <1>5 DEF ThePages!Glued
<1>6. CASE /\ ~(old.is = "stub" /\ next.is \in {"row", "stub"})
           /\ ~(old.is = "row" /\ next.is = "stub" /\ next.digits # <<>>)
  BY <1>2, <1>6 DEF ThePages!Glued
<1> QED BY <1>3, <1>4, <1>5, <1>6

\* The fields of a run that change.
IsRun(run) ==
  run = [book |-> run.book, stamp |-> run.stamp, host |-> run.host, commit |-> run.commit,
         rows |-> run.rows, fresh |-> run.fresh, at |-> run.at]

With(run, to, fresh) ==
  [book |-> run.book, stamp |-> run.stamp, host |-> run.host, commit |-> run.commit,
   rows |-> run.rows, fresh |-> fresh, at |-> to]

\* Two lists of runs are the same but in one place.
Differ(list, new, i, run) ==
  /\ IsList(new) /\ DOMAIN new = DOMAIN list
  /\ \A j \in DOMAIN list : j # i => new[j] = list[j]
  /\ new[i] = run

LEMMA MadeList == ASSUME NEW n \in Nat, NEW F, NEW s \in [1..n -> F] PROVE s \in Seq(F)
OBVIOUS

LEMMA FieldChanges ==
  ASSUME NEW list, IsList(list), NEW i \in DOMAIN list, NEW to, IsRun(list[i]),
         NEW new, new = [list EXCEPT ![i].at = to]
  PROVE  Differ(list, new, i, With(list[i], to, list[i].fresh))
<1> DEFINE n == Len(list)
           F == Range(list) \cup {With(list[i], to, list[i].fresh)}
<1>1. n \in Nat /\ DOMAIN list = 1..n /\ list = [j \in 1..n |-> list[j]]
  BY Listed
<1>2. \A j \in 1..n : list[j] \in F
  BY <1>1 DEF Range
<1> HIDE DEF n
<1>3. /\ DOMAIN new = 1..n /\ \A j \in 1..n : j # i => new[j] = list[j]
      /\ new = [j \in 1..n |-> new[j]]
  BY <1>1
<1>4. new[i] = With(list[i], to, list[i].fresh)
  <2>1. PICK b, st, h, c, l, f, a :
          list[i] = [book |-> b, stamp |-> st, host |-> h, commit |-> c, rows |-> l,
                     fresh |-> f, at |-> a]
    BY DEF IsRun
  <2>2. new[i] = [book |-> b, stamp |-> st, host |-> h, commit |-> c, rows |-> l,
                  fresh |-> f, at |-> to]
    BY <1>1, <2>1
  <2> QED BY <2>1, <2>2 DEF With
<1>5. IsList(new)
  <2>1. \A j \in 1..n : new[j] \in F
    BY <1>2, <1>3, <1>4
  <2> HIDE DEF F
  <2>3. new \in [1..n -> F]
    BY <1>3, <2>1
  <2>2. new \in Seq(F)
    BY <1>1, <2>3, MadeList
  <2> QED BY <2>2, IsListOf
<1> QED BY <1>1, <1>3, <1>4, <1>5 DEF Differ

LEMMA ThenFresh ==
  ASSUME NEW list, IsList(list), NEW i \in DOMAIN list, NEW to, NEW f, NEW fresh, NEW run,
         NEW one, Differ(list, one, i, With(run, to, f)),
         NEW new, new = [one EXCEPT ![i].fresh = fresh]
  PROVE  Differ(list, new, i, With(run, to, fresh))
<1> DEFINE n == Len(list)
           F == Range(list) \cup {With(run, to, fresh)}
<1>1. /\ IsList(one) /\ DOMAIN one = DOMAIN list
      /\ \A j \in DOMAIN list : j # i => one[j] = list[j]
      /\ one[i] = With(run, to, f)
  BY DEF Differ
<1>2. DOMAIN list = 1..n /\ n \in Nat
  BY Listed
<1>3. DOMAIN one = 1..n /\ one = [j \in 1..n |-> one[j]]
  <2>1. one = [j \in 1..Len(one) |-> one[j]] /\ DOMAIN one = 1..Len(one)
    BY <1>1, Listed
  <2>2. 1..Len(one) = 1..n
    BY <1>1, <1>2, <2>1
  <2> HIDE DEF n
  <2> QED BY <1>1, <1>2, <2>1, <2>2
<1> HIDE DEF n
<1>4. /\ DOMAIN new = 1..n /\ \A j \in 1..n : j # i => new[j] = list[j]
      /\ new = [j \in 1..n |-> new[j]]
  BY <1>1, <1>2, <1>3
<1>5. new[i] = With(run, to, fresh)
  <2>1. i \in 1..n /\ one[i] = With(run, to, f)
    BY <1>1, <1>2
  <2> QED BY <1>3, <2>1 DEF With
<1>6. IsList(new)
  <2>1. \A j \in 1..n : new[j] \in F
    BY <1>2, <1>4, <1>5 DEF Range
  <2> HIDE DEF F
  <2>2. new \in [1..n -> F]
    BY <1>4, <2>1
  <2>3. new \in Seq(F)
    BY <1>2, <2>2, MadeList
  <2> QED BY <2>3, IsListOf
<1> QED BY <1>2, <1>4, <1>5, <1>6 DEF Differ

LEMMA TwoFieldsChange ==
  ASSUME NEW list, IsList(list), NEW i \in DOMAIN list, NEW to, NEW fresh, IsRun(list[i]),
         NEW new, new = [list EXCEPT ![i].at = to, ![i].fresh = fresh]
  PROVE  Differ(list, new, i, With(list[i], to, fresh))
<1> DEFINE one == [list EXCEPT ![i].at = to]
<1>1. new = [one EXCEPT ![i].fresh = fresh]
  OBVIOUS
<1>2. Differ(list, one, i, With(list[i], to, list[i].fresh))
  BY FieldChanges, Zenon
<1> HIDE DEF one
<1> QED BY <1>1, <1>2, ThenFresh, Zenon

\* A run that is in no book yet changes in how far it is, and in what it saw.
Moved(i, to) ==
  /\ i \in DOMAIN measured /\ ~IsIn(i) /\ measured[i].at # "refused" /\ to # "refused"
  /\ IsList(measured') /\ DOMAIN measured' = DOMAIN measured
  /\ \A j \in DOMAIN measured : j # i => measured'[j] = measured[j]
  /\ measured'[i] = [book |-> measured[i].book, stamp |-> measured[i].stamp,
                     host |-> measured[i].host, commit |-> measured[i].commit,
                     rows |-> measured[i].rows, fresh |-> measured'[i].fresh, at |-> to]

LEMMA RunMoves ==
  ASSUME RunsInv, NEW i, NEW to, Moved(i, to)
  PROVE  /\ RunsInv' /\ RunsGoOn
         /\ \A j \in DOMAIN measured :
              /\ measured'[j].stamp = measured[j].stamp /\ measured'[j].host = measured[j].host
              /\ measured'[j].book = measured[j].book /\ measured'[j].rows = measured[j].rows
              /\ measured'[j].commit = measured[j].commit
         /\ measured'[i].at = to
<1>1. \A j \in DOMAIN measured :
        /\ measured'[j].stamp = measured[j].stamp /\ measured'[j].host = measured[j].host
        /\ measured'[j].book = measured[j].book /\ measured'[j].rows = measured[j].rows
        /\ measured'[j].commit = measured[j].commit
        /\ measured'[j].at # "refused" => measured[j].at # "refused"
        /\ measured'[j] = [book |-> measured'[j].book, stamp |-> measured'[j].stamp,
                           host |-> measured'[j].host, commit |-> measured'[j].commit,
                           rows |-> measured'[j].rows, fresh |-> measured'[j].fresh,
                           at |-> measured'[j].at]
        /\ j = i => measured'[j].at = to
  <2> TAKE j \in DOMAIN measured
  <2>1. CASE j = i
    BY <2>1 DEF Moved
  <2>2. CASE j # i
    BY <2>2 DEF Moved, RunsInv
  <2> QED BY <2>1, <2>2
<1>2. RunsInv'
  BY <1>1 DEF Moved, RunsInv
<1>3. RunsGoOn
  BY DEF Moved, RunsGoOn
<1> QED BY <1>1, <1>2, <1>3 DEF Moved

\* A run writes its text into its book, or a part of it.
Wrote(i, b, added, to) ==
  /\ Moved(i, to) /\ measured[i].book = b
  /\ IsPartOf(added, measured[i])
  /\ to = "torn" \/ (to = "written" /\ added = ThePages!Text(measured[i]))
  /\ book' = [book EXCEPT ![b] = ThePages!Onto(book[b], b \notin open, added)]
  /\ open' = open \ {b} \/ (to = "torn" /\ open' = open \cup {b})
  /\ order' = [order EXCEPT ![b] = Append(order[b], i)]

\* Where its lines begin.
Base(b) == IF b \notin open THEN Len(book[b]) ELSE Len(book[b]) - 1

\* What its lines are there: the first goes on where somebody stopped.
NewLine(b, q, added) ==
  IF q = 1 /\ b \in open THEN ThePages!Glued(book[b][Len(book[b])], added[1]) ELSE added[q]

LEMMA WroteText ==
  ASSUME BooksInv, NEW i, NEW b, NEW added, NEW to, Wrote(i, b, added, to)
  PROVE  /\ IsList(book'[b]) /\ Len(book'[b]) = Base(b) + Len(added) /\ Base(b) \in Nat
         /\ \A p \in 1..Base(b) : book'[b][p] = book[b][p]
         /\ \A q \in 1..Len(added) : book'[b][Base(b) + q] = NewLine(b, q, added)
<1>1. i \in DOMAIN measured /\ measured[i].book = b /\ b \in DOMAIN Measured
  BY DEF Wrote, Moved, BooksInv, RunsInv
<1>2. BookInv(b) /\ IsList(measured[i].rows)
  BY <1>1, BooksAssumption DEF BooksInv, RunsInv
<1>3. IsList(book[b]) /\ (b \in open => Len(book[b]) # 0)
  BY <1>2 DEF BookInv
<1>4. IsList(added) /\ Len(added) # 0
  BY <1>2, TextIs DEF Wrote, IsPartOf
<1>5. book'[b] = ThePages!Onto(book[b], b \notin open, added)
  BY <1>1 DEF BooksInv, Wrote
<1> DEFINE new == ThePages!Onto(book[b], b \notin open, added)
<1>7. /\ IsList(new) /\ Len(new) = Base(b) + Len(added) /\ Base(b) \in Nat
      /\ \A p \in 1..Base(b) : new[p] = book[b][p]
      /\ \A q \in 1..Len(added) :
           new[Base(b) + q] = NewLine(b, q, added)
  <2> DEFINE lines == book[b]
  <2>1. PICK ends \in BOOLEAN : ends <=> b \notin open
    OBVIOUS
  <2>2. /\ new = ThePages!Onto(lines, ends, added)
        /\ Base(b) = IF ends THEN Len(lines) ELSE Len(lines) - 1
    BY <2>1 DEF Base, ThePages!Onto
  <2>3. IsList(lines) /\ (~ends => Len(lines) # 0)
    BY <1>3, <2>1
  <2> HIDE DEF lines, new
  <2>4. /\ IsList(new) /\ Len(new) = Base(b) + Len(added) /\ Base(b) \in Nat
        /\ \A p \in 1..Base(b) : new[p] = lines[p]
        /\ \A q \in 1..Len(added) :
             new[Base(b) + q] = IF q = 1 /\ ~ends THEN ThePages!Glued(lines[Len(lines)], added[1])
                                ELSE added[q]
    <3>1. LET onto == ThePages!Onto(lines, ends, added)
              base == IF ends THEN Len(lines) ELSE Len(lines) - 1
          IN  /\ IsList(onto) /\ Len(onto) = base + Len(added) /\ base \in Nat
              /\ \A p \in 1..base : onto[p] = lines[p]
              /\ \A q \in 1..Len(added) :
                   onto[base + q] = IF q = 1 /\ ~ends THEN ThePages!Glued(lines[Len(lines)], added[1])
                                    ELSE added[q]
      <4>1. IsList(added) /\ Len(added) # 0
        BY <1>4
      <4> QED BY <2>3, <4>1, OntoIs
    <3> QED BY <2>2, <3>1
  <2>5. ASSUME NEW q \in 1..Len(added)
        PROVE  new[Base(b) + q] = NewLine(b, q, added)
    BY <2>1, <2>4 DEF NewLine, lines
  <2> QED BY <2>4, <2>5 DEF lines
<1> QED BY <1>5, <1>7

LEMMA WroteLines ==
  ASSUME BooksInv, NEW i, NEW b, NEW added, NEW to, Wrote(i, b, added, to)
  PROVE  /\ i \in DOMAIN measured /\ b \in DOMAIN Measured /\ BookInv(b) /\ IsList(measured[i].rows)
         /\ Len(added) \in Nat /\ Len(added) # 0 /\ Above(measured[i]) \in {0, 1}
         /\ Base(b) \in Nat /\ Len(book[b]) \in Nat /\ Len(book[b]) <= Base(b) + 1
         /\ Base(b) <= Len(book[b]) /\ DOMAIN book[b] = 1..Len(book[b])
         /\ b \in open => Len(book[b]) = Base(b) + 1
         /\ IsList(book'[b]) /\ Len(book'[b]) = Base(b) + Len(added)
         /\ DOMAIN book'[b] = 1..(Base(b) + Len(added))
         /\ \A p \in 1..Base(b) : book'[b][p] = book[b][p]
         /\ \A q \in 1..Len(added) :
              book'[b][Base(b) + q] = NewLine(b, q, added)
         /\ \A c \in DOMAIN Measured : c # b => book'[c] = book[c] /\ order'[c] = order[c]
         /\ order'[b] = Append(order[b], i)
<1>1. i \in DOMAIN measured /\ measured[i].book = b /\ b \in DOMAIN Measured
  BY DEF Wrote, Moved, BooksInv, RunsInv
<1>2. BookInv(b) /\ IsList(measured[i].rows)
  BY <1>1, BooksAssumption DEF BooksInv, RunsInv
<1>3. IsList(book[b]) /\ (b \in open => Len(book[b]) # 0)
  BY <1>2 DEF BookInv
<1>4. IsList(added) /\ Len(added) \in Nat /\ Len(added) # 0 /\ Above(measured[i]) \in {0, 1}
  BY <1>2, Listed, TextIs DEF Wrote, IsPartOf
<1>5. /\ book'[b] = ThePages!Onto(book[b], b \notin open, added)
      /\ \A c \in DOMAIN Measured : c # b => book'[c] = book[c]
  BY <1>1 DEF BooksInv, Wrote
<1>6. /\ order'[b] = Append(order[b], i)
      /\ \A c \in DOMAIN Measured : c # b => order'[c] = order[c]
  BY <1>1 DEF BooksInv, Wrote
<1>7. /\ IsList(book'[b]) /\ Len(book'[b]) = Base(b) + Len(added) /\ Base(b) \in Nat
      /\ \A p \in 1..Base(b) : book'[b][p] = book[b][p]
      /\ \A q \in 1..Len(added) : book'[b][Base(b) + q] = NewLine(b, q, added)
  BY WroteText
<1>8. DOMAIN book'[b] = 1..(Base(b) + Len(added)) /\ Len(book[b]) \in Nat
      /\ DOMAIN book[b] = 1..Len(book[b])
  BY <1>3, <1>7, Listed
<1>9. /\ Len(book[b]) <= Base(b) + 1 /\ Base(b) <= Len(book[b])
      /\ b \in open => Len(book[b]) = Base(b) + 1
  BY <1>8 DEF Base
<1> QED BY <1>1, <1>2, <1>4, <1>5, <1>6, <1>7, <1>8, <1>9

\* A line of what is written is a row of the run, as it was to be written unless it is
\* the last one; or more digits at the end of a row that was cut in them.
OwnLine(i, b, q, added, to) ==
  LET line == book'[b][Base(b) + q] IN
  /\ q > Above(measured[i]) /\ IsRowOf(line, measured[i], q - Above(measured[i]))
  /\ line.stamp = measured[i].stamp /\ line.host = measured[i].host
  /\ line.behind = TRUE => q = 1 /\ b \in open
  /\ q < Len(added) \/ to = "written" =>
       ThePages!Parses(line) /\ line.total = ThePages!TotalOf(measured[i])

LongerLine(b, q, added) ==
  LET p == Base(b) + q IN
  /\ q = 1 /\ Len(added) = 1 /\ b \in open
  /\ p = Len(book[b]) /\ p \in DOMAIN book[b] /\ book[b][p].is = "row"
  /\ \E total : book'[b][p] = [book[b][p] EXCEPT !.total = total]
  /\ book'[b][p].stamp = book[b][p].stamp /\ book'[b][p].host = book[b][p].host
  /\ book'[b][p].behind = book[b][p].behind

LEMMA RowsOfBooks ==
  ASSUME NEW b, BookInv(b), NEW p \in DOMAIN book[b], book[b][p].is = "row"
  PROVE  \E n \in DOMAIN order[b] : \E k :
           /\ p \in Its(order[b][n], b) /\ order[b][n] \in DOMAIN measured
           /\ IsIn(order[b][n]) /\ IsRowOf(book[b][p], measured[order[b][n]], k)
<1>1. PICK n \in DOMAIN order[b] : p \in Its(order[b][n], b)
  BY DEF BookInv
<1>2. order[b][n] \in DOMAIN measured /\ IsIn(order[b][n])
  BY DEF BookInv
<1>3. PICK off \in 0..Len(book[b]) : StandsFrom(order[b][n], b, off)
  BY DEF BookInv
<1>4. IsRowOf(book[b][p], measured[order[b][n]], p - off)
  BY <1>1, <1>3 DEF StandsFrom
<1> QED BY <1>1, <1>2, <1>4

LEMMA WroteRows ==
  ASSUME BooksInv, NEW i, NEW b, NEW added, NEW to, Wrote(i, b, added, to),
         NEW q \in 1..Len(added)
  PROVE  /\ book'[b][Base(b) + q].is = "row" => OwnLine(i, b, q, added, to) \/ LongerLine(b, q, added)
         /\ q > Above(measured[i]) /\ q < Len(added) /\ book'[b][Base(b) + q].is # "row" =>
              q = 1 /\ b \in open
<1> DEFINE run == measured[i]
           line == book'[b][Base(b) + q]
<1>1. IsList(run.rows) /\ IsPartOf(added, run) /\ (to = "written" => added = ThePages!Text(run))
  BY WroteLines DEF Wrote
<1>a. line = NewLine(b, q, added)
  BY WroteText
<1>b. /\ added[q].is = "row" =>
           q > Above(run) /\ IsRowOf(added[q], run, q - Above(run)) /\ added[q].behind = FALSE
      /\ q > Above(run) /\ (q < Len(added) \/ to = "written") =>
           /\ added[q].is = "row" /\ ThePages!Parses(added[q])
           /\ added[q].total = ThePages!TotalOf(run)
      /\ added[q].is = "stub" => q = Len(added)
  BY <1>1, PartsAre
<1> HIDE DEF run, line
<1>2. CASE q = 1 /\ b \in open
  <2> DEFINE old == book[b][Len(book[b])]
  <2>1. line = ThePages!Glued(old, added[1])
    BY <1>a, <1>2 DEF NewLine
  <2> HIDE DEF old
  <2>2. ASSUME line.is = "row", added[1].is = "row", line = [added[1] EXCEPT !.behind = TRUE]
        PROVE  OwnLine(i, b, q, added, to)
    <3>1. q > Above(run) /\ IsRowOf(added[q], run, q - Above(run))
      BY <1>2, <1>b, <2>2
    <3>2. /\ IsRowOf(line, run, q - Above(run)) /\ line.total = added[q].total
      BY <1>2, <2>2, <3>1, BehindRow, ZenonT(60)
    <3>3. line.stamp = run.stamp /\ line.host = run.host /\ line.is = "row"
      BY <3>2, RowHas
    <3>4. q < Len(added) \/ to = "written" =>
            ThePages!Parses(line) /\ line.total = ThePages!TotalOf(run)
      BY <1>b, <3>1, <3>2, <3>3 DEF ThePages!Parses
    <3> QED BY <1>2, <3>1, <3>2, <3>3, <3>4 DEF OwnLine, run, line
  <2>3. ASSUME line.is = "row", old.is = "row", added[1].is = "stub",
               NEW total, line = [old EXCEPT !.total = total]
        PROVE  LongerLine(b, q, added)
    <3>1. Base(b) + q = Len(book[b]) /\ Len(book[b]) \in DOMAIN book[b] /\ BookInv(b)
      BY <1>2, WroteLines
    <3>2. PICK n, k : n \in DOMAIN order[b] /\ IsRowOf(old, measured[order[b][n]], k)
      BY <2>3, <3>1, RowsOfBooks DEF old
    <3>3. IsRowOf(line, measured[order[b][n]], k) /\ line.behind = old.behind
      BY <2>3, <3>2, LongerRow
    <3>4. line.stamp = old.stamp /\ line.host = old.host
      <4>1. old.stamp = measured[order[b][n]].stamp /\ old.host = measured[order[b][n]].host
        BY <3>2, RowHas
      <4>2. line.stamp = measured[order[b][n]].stamp /\ line.host = measured[order[b][n]].host
        BY <3>3, RowHas
      <4> QED BY <4>1, <4>2
    <3>5. Len(added) = 1
      BY <1>2, <1>b, <2>3
    <3>6. old = book[b][Base(b) + q]
      BY <3>1 DEF old
    <3> QED BY <1>2, <2>3, <3>1, <3>3, <3>4, <3>5, <3>6 DEF LongerLine, line
  <2>4. line.is = "row" => OwnLine(i, b, q, added, to) \/ LongerLine(b, q, added)
    <3> HAVE line.is = "row"
    <3>1. \/ added[1].is = "row" /\ line = [added[1] EXCEPT !.behind = TRUE]
          \/ old.is = "row" /\ added[1].is = "stub" /\ \E total : line = [old EXCEPT !.total = total]
      <4>1. PICK next : next = added[1]
        OBVIOUS
      <4>2. line = ThePages!Glued(old, next)
        BY <2>1, <4>1
      <4>3. \/ next.is = "row" /\ line = [next EXCEPT !.behind = TRUE]
            \/ old.is = "row" /\ next.is = "stub" /\ \E total : line = [old EXCEPT !.total = total]
        BY <4>2, GluedRow
      <4> QED BY <4>1, <4>3, Zenon
    <3>2. CASE added[1].is = "row" /\ line = [added[1] EXCEPT !.behind = TRUE]
      BY <2>2, <3>2
    <3>3. CASE old.is = "row" /\ added[1].is = "stub" /\ \E total : line = [old EXCEPT !.total = total]
      <4>1. PICK total : line = [old EXCEPT !.total = total]
        BY <3>3
      <4> QED BY <2>3, <3>3, <4>1
    <3> QED BY <3>1, <3>2, <3>3
  <2> QED BY <1>2, <2>4 DEF line
<1>3. CASE ~(q = 1 /\ b \in open)
  <2>1. line = added[q]
    BY <1>a, <1>3 DEF NewLine
  <2>2. ASSUME line.is = "row"
        PROVE  OwnLine(i, b, q, added, to)
    <3>1. q > Above(run) /\ IsRowOf(line, run, q - Above(run)) /\ line.behind = FALSE
      BY <1>b, <2>1, <2>2
    <3>2. line.stamp = run.stamp /\ line.host = run.host
      BY <3>1, RowHas
    <3>3. q < Len(added) \/ to = "written" =>
            ThePages!Parses(line) /\ line.total = ThePages!TotalOf(run)
      BY <1>b, <2>1, <3>1
    <3>4. ~(line.behind = TRUE)
      BY <3>1
    <3> QED BY <3>1, <3>2, <3>3, <3>4 DEF OwnLine, run, line
  <2>3. q > Above(run) /\ q < Len(added) => line.is = "row"
    BY <1>b, <2>1
  <2> QED BY <2>2, <2>3 DEF run, line
<1> QED BY <1>2, <1>3

\* The rows of somebody else are the ones he had, and the rows of the run are behind
\* them; the last one of them all may have got more digits.
LEMMA OldRows ==
  ASSUME BooksInv, NEW i, NEW b, NEW added, NEW to, Wrote(i, b, added, to),
         NEW j \in DOMAIN measured, j # i
  PROVE  /\ Its(j, b) \cap 1..Base(b) \subseteq Its(j, b)'
         /\ \A p \in Its(j, b)' :
              /\ p \in Its(j, b)
              /\ \/ p \in 1..Base(b) /\ book'[b][p] = book[b][p]
                 \/ p = Base(b) + 1 /\ LongerLine(b, 1, added)
<1>1. RunsInv /\ Moved(i, to)
  BY DEF BooksInv, Wrote
<1>2. measured'[j].stamp = measured[j].stamp /\ measured'[j].host = measured[j].host
      /\ j \in DOMAIN measured'
  BY <1>1, RunMoves DEF Moved
<1>3. ~(measured[i].stamp = measured[j].stamp /\ measured[i].host = measured[j].host)
  BY <1>1, WroteLines DEF RunsInv
<1>5. DOMAIN book'[b] = 1..(Base(b) + Len(added)) /\ DOMAIN book[b] = 1..Len(book[b])
      /\ Base(b) <= Len(book[b]) /\ Base(b) \in Nat /\ Len(added) \in Nat /\ Len(book[b]) \in Nat
      /\ \A p \in 1..Base(b) : book'[b][p] = book[b][p]
  BY WroteLines
<1>6. Its(j, b)' = {p \in 1..(Base(b) + Len(added)) :
                      /\ book'[b][p].is = "row" /\ book'[b][p].stamp = measured[j].stamp
                      /\ book'[b][p].host = measured[j].host}
  BY <1>2, <1>5 DEF Its
<1>7. Its(j, b) = {p \in 1..Len(book[b]) :
                     /\ book[b][p].is = "row" /\ book[b][p].stamp = measured[j].stamp
                     /\ book[b][p].host = measured[j].host}
  BY <1>5 DEF Its
<1>4. ASSUME NEW p \in Its(j, b)', p \notin 1..Base(b)
      PROVE  p = Base(b) + 1 /\ LongerLine(b, 1, added) /\ p \in Its(j, b)
  <2>1. PICK q \in 1..Len(added) : p = Base(b) + q
    <3>1. p \in 1..(Base(b) + Len(added))
      BY <1>4, <1>6
    <3>2. p - Base(b) \in 1..Len(added) /\ p = Base(b) + (p - Base(b))
      BY <1>4, <1>5, <3>1
    <3> QED BY <3>2
  <2>2. /\ book'[b][Base(b) + q].is = "row" /\ book'[b][Base(b) + q].stamp = measured[j].stamp
        /\ book'[b][Base(b) + q].host = measured[j].host
    BY <1>4, <1>6, <2>1
  <2>3. ~OwnLine(i, b, q, added, to)
    BY <1>3, <2>2 DEF OwnLine
  <2>4. LongerLine(b, q, added)
    BY <2>2, <2>3, WroteRows
  <2>5. q = 1 /\ p \in DOMAIN book[b] /\ book[b][p].is = "row"
        /\ book[b][p].stamp = measured[j].stamp /\ book[b][p].host = measured[j].host
    BY <2>1, <2>2, <2>4 DEF LongerLine
  <2> QED BY <2>1, <2>4, <2>5 DEF Its
<1>8. ASSUME NEW p \in Its(j, b)', p \in 1..Base(b)
      PROVE  p \in Its(j, b) /\ book'[b][p] = book[b][p]
  <2>1. p \in 1..Len(book[b])
    BY <1>5, <1>8
  <2> QED BY <1>5, <1>6, <1>7, <1>8, <2>1
<1>9. ASSUME NEW p \in Its(j, b) \cap 1..Base(b) PROVE p \in Its(j, b)'
  <2>1. p \in 1..(Base(b) + Len(added))
    BY <1>5, <1>9
  <2> QED BY <1>5, <1>6, <1>7, <1>9, <2>1
<1> QED BY <1>4, <1>8, <1>9

LEMMA OldStand ==
  ASSUME BooksInv, NEW i, NEW b, NEW added, NEW to, Wrote(i, b, added, to),
         NEW n \in DOMAIN order[b], NEW j \in DOMAIN measured, j # i, j = order[b][n],
         NEW off, StandsFrom(j, b, off)
  PROVE  StandsFrom(j, b, off)'
<1>1. /\ Its(j, b) \cap 1..Base(b) \subseteq Its(j, b)'
      /\ \A p \in Its(j, b)' :
           /\ p \in Its(j, b)
           /\ \/ p \in 1..Base(b) /\ book'[b][p] = book[b][p]
              \/ p = Base(b) + 1 /\ LongerLine(b, 1, added)
  BY OldRows
<1>2. /\ Base(b) \in Nat /\ DOMAIN book[b] = 1..Len(book[b]) /\ Len(book[b]) \in Nat
      /\ Len(book[b]) <= Base(b) + 1 /\ BookInv(b)
  BY WroteLines
<1>3. measured'[j] = measured[j]
  BY DEF Wrote, Moved
<1>4. ASSUME NEW p \in Its(j, b)'
      PROVE  /\ p - off \in Nat /\ IsRowOf(book'[b][p], measured'[j], p - off)
             /\ book'[b][p].behind = book[b][p].behind
             /\ p \in Its(j, b) /\ p \in Nat
  <2>1. p \in Its(j, b) /\ p \in Nat
    BY <1>1, <1>2, <1>4 DEF Its
  <2>2. p - off \in Nat /\ IsRowOf(book[b][p], measured[j], p - off)
    BY <2>1 DEF StandsFrom
  <2>3. CASE book'[b][p] = book[b][p]
    BY <1>3, <2>1, <2>2, <2>3
  <2>4. CASE p = Base(b) + 1 /\ LongerLine(b, 1, added)
    <3>1. PICK total : book'[b][p] = [book[b][p] EXCEPT !.total = total]
      BY <2>4 DEF LongerLine
    <3>2. IsRowOf(book'[b][p], measured[j], p - off) /\ book'[b][p].behind = book[b][p].behind
      BY <2>2, <3>1, LongerRow
    <3> QED BY <1>3, <2>1, <2>2, <3>2
  <2> QED BY <1>1, <1>4, <2>3, <2>4
<1>5. ASSUME NEW p \in Its(j, b)', NEW q \in Its(j, b)', NEW r \in p..q
      PROVE  r \in Its(j, b)'
  <2>1. p \in Its(j, b) /\ q \in Its(j, b) /\ p \in 1..Len(book[b]) /\ q \in 1..Len(book[b])
    BY <1>2, <1>4, <1>5 DEF Its
  <2>2. r \in Its(j, b) /\ r \in 1..Len(book[b])
    BY <1>2, <2>1 DEF StandsFrom
  <2>3. CASE r \in 1..Base(b)
    BY <1>1, <2>2, <2>3
  <2>4. CASE r \notin 1..Base(b)
    <3>1. r = q
      BY <1>2, <2>1, <2>2, <2>4
    <3> QED BY <1>5, <3>1
  <2> QED BY <2>3, <2>4
<1>6. ASSUME NEW p \in Its(j, b)', NEW q \in Its(j, b)'
      PROVE  /\ book'[b][p].behind = TRUE => p <= q
             /\ ~ThePages!Parses(book'[b][p]) => q <= p
  <2>1. p \in Its(j, b) /\ q \in Its(j, b) /\ p \in 1..Len(book[b]) /\ q \in 1..Len(book[b])
        /\ book'[b][p].behind = book[b][p].behind
    BY <1>2, <1>4, <1>6 DEF Its
  <2>2. /\ book[b][p].behind = TRUE => p <= q
        /\ ~ThePages!Parses(book[b][p]) => q <= p
    BY <2>1 DEF StandsFrom
  <2>3. CASE book'[b][p] = book[b][p]
    BY <2>2, <2>3
  <2>4. CASE p = Base(b) + 1
    BY <1>2, <2>1, <2>2, <2>4
  <2> QED BY <1>1, <1>6, <2>3, <2>4
<1>7. ASSUME measured'[j].at = "written", NEW p \in Its(j, b)'
      PROVE  book'[b][p].total = ThePages!TotalOf(measured'[j])
  <2>1. p \in Its(j, b) /\ book[b][p].total = ThePages!TotalOf(measured[j])
    BY <1>3, <1>4, <1>7 DEF StandsFrom
  <2>2. ~(p = Base(b) + 1 /\ LongerLine(b, 1, added))
    BY <1>2, <1>3, <1>7, <2>1 DEF LongerLine, BookInv, CutBefore
  <2> QED BY <1>1, <1>3, <1>7, <2>1, <2>2
<1>8. (\A p \in Its(j, b) : p - off \in Nat /\ IsRowOf(book[b][p], measured[j], p - off))'
  BY <1>4
<1>9. (\A p, q \in Its(j, b) : \A r \in p..q : r \in Its(j, b))'
  BY <1>5
<1>10. (\A p, q \in Its(j, b) :
          /\ book[b][p].behind = TRUE => p <= q
          /\ ~ThePages!Parses(book[b][p]) => q <= p)'
  BY <1>6
<1>11. (measured[j].at = "written" =>
          \A p \in Its(j, b) : book[b][p].total = ThePages!TotalOf(measured[j]))'
  BY <1>7
<1> QED BY <1>8, <1>9, <1>10, <1>11 DEF StandsFrom

LEMMA OldCuts ==
  ASSUME BooksInv, NEW i, NEW b, NEW added, NEW to, Wrote(i, b, added, to),
         NEW n \in DOMAIN order[b], order[b][n] # i
  PROVE  CutBefore(b, n)'
<1>1. PICK j \in DOMAIN measured : j = order[b][n] /\ j # i /\ IsIn(j)
  BY WroteLines DEF BookInv
<1>2. /\ BookInv(b) /\ CutBefore(b, n) /\ order'[b] = Append(order[b], i)
      /\ Base(b) \in Nat /\ Len(book'[b]) = Base(b) + Len(added) /\ Len(added) \in Nat
      /\ Len(added) # 0
  BY WroteLines DEF BookInv
<1>3. DOMAIN order[b] = 1..Len(order[b]) /\ Len(order[b]) \in Nat
  BY <1>2, Listed DEF BookInv
<1>4. \A m \in 1..n : m \in DOMAIN order[b] /\ order'[b][m] = order[b][m]
  BY <1>2, <1>3 DEF BookInv, IsList
<1>5. \A m \in 1..n : measured'[order'[b][m]] = measured[order[b][m]]
  <2> TAKE m \in 1..n
  <2>1. order[b][m] \in DOMAIN measured /\ IsIn(order[b][m])
    BY <1>2, <1>4 DEF BookInv
  <2>2. order[b][m] # i
    BY <2>1 DEF Wrote, Moved
  <2> QED BY <1>4, <2>1, <2>2 DEF Wrote, Moved
<1>6. n \in 1..n /\ order'[b][n] = j
  BY <1>1, <1>3, <1>4
<1>7. \A p \in Its(j, b)' :
        /\ p \in Its(j, b)
        /\ \/ p \in 1..Base(b) /\ book'[b][p] = book[b][p]
           \/ p = Base(b) + 1 /\ LongerLine(b, 1, added)
  BY <1>1, OldRows
<1>8. ASSUME NEW p \in Its(j, b)', book'[b][p].behind = TRUE
      PROVE  \E m \in 1..(n - 1) : measured'[order'[b][m]].at = "torn"
  <2>1. p \in Its(j, b) /\ book[b][p].behind = TRUE
    BY <1>7, <1>8 DEF LongerLine
  <2>2. PICK m \in 1..(n - 1) : measured[order[b][m]].at = "torn"
    BY <1>1, <1>2, <2>1 DEF CutBefore
  <2>3. m \in 1..n
    BY <1>3
  <2> QED BY <1>5, <2>2, <2>3
<1>9. ASSUME Len(book'[b]) \in Its(j, b)'
      PROVE  measured'[j].at = "torn"
  <2>1. Len(book'[b]) \notin 1..Base(b)
    BY <1>2
  <2>2. Len(book'[b]) \in Its(j, b) /\ Len(book'[b]) = Base(b) + 1 /\ LongerLine(b, 1, added)
    BY <1>7, <1>9, <2>1
  <2>3. b \in open /\ Len(book[b]) \in Its(j, b)
    BY <2>2 DEF LongerLine
  <2>4. measured[j].at = "torn"
    BY <1>1, <1>2, <2>3 DEF CutBefore
  <2> QED BY <1>1, <2>4 DEF Wrote, Moved
<1> QED BY <1>6, <1>8, <1>9 DEF CutBefore

\* A run that is written for the first time has no row yet.
LEMMA NewRows ==
  ASSUME BooksInv, NEW i, NEW b, NEW added, NEW to, Wrote(i, b, added, to),
         NEW p \in Its(i, b)'
  PROVE  \E q \in 1..Len(added) :
           p = Base(b) + q /\ book'[b][p].is = "row" /\ OwnLine(i, b, q, added, to)
<1>1. /\ DOMAIN book'[b] = 1..(Base(b) + Len(added)) /\ Len(added) \in Nat /\ Base(b) \in Nat
      /\ DOMAIN book[b] = 1..Len(book[b]) /\ Base(b) <= Len(book[b]) /\ Len(book[b]) \in Nat
      /\ \A k \in 1..Base(b) : book'[b][k] = book[b][k]
  BY WroteLines
<1>2. measured'[i].stamp = measured[i].stamp /\ measured'[i].host = measured[i].host
  BY RunMoves, WroteLines DEF BooksInv, Wrote
<1>3. /\ p \in DOMAIN book'[b] /\ book'[b][p].is = "row"
      /\ book'[b][p].stamp = measured[i].stamp /\ book'[b][p].host = measured[i].host
  BY <1>2 DEF Its
<1>4. ~(/\ p \in DOMAIN book[b] /\ book[b][p].is = "row"
        /\ book[b][p].stamp = measured[i].stamp /\ book[b][p].host = measured[i].host)
  <2> SUFFICES ASSUME p \in DOMAIN book[b], book[b][p].is = "row",
                      book[b][p].stamp = measured[i].stamp, book[b][p].host = measured[i].host
               PROVE  FALSE
    OBVIOUS
  <2>2. PICK n \in DOMAIN order[b] : p \in Its(order[b][n], b)
    BY WroteLines DEF BookInv
  <2>3. order[b][n] \in DOMAIN measured /\ IsIn(order[b][n])
    BY WroteLines DEF BookInv
  <2>4. measured[order[b][n]].stamp = measured[i].stamp /\ measured[order[b][n]].host = measured[i].host
    BY <2>2 DEF Its
  <2>5. order[b][n] = i
    BY <2>3, <2>4, WroteLines DEF BooksInv, RunsInv
  <2> QED BY <2>3, <2>5 DEF Wrote, Moved
<1>5. PICK q \in 1..Len(added) : p = Base(b) + q
  <2>1. p - Base(b) \in 1..Len(added) /\ p = Base(b) + (p - Base(b))
    BY <1>1, <1>3, <1>4
  <2> QED BY <2>1
<1>6. ~LongerLine(b, q, added)
  BY <1>3, <1>4, <1>5 DEF LongerLine
<1> QED BY <1>3, <1>5, <1>6, WroteRows

LEMMA NewStand ==
  ASSUME BooksInv, NEW i, NEW b, NEW added, NEW to, Wrote(i, b, added, to)
  PROVE  \E off \in 0..(Base(b) + Len(added)) : StandsFrom(i, b, off)'
<1> DEFINE h == Above(measured[i])
           off == Base(b) + h
<1>1. /\ Base(b) \in Nat /\ Len(added) \in Nat /\ h \in {0, 1} /\ Len(added) # 0
      /\ DOMAIN book'[b] = 1..(Base(b) + Len(added))
  BY WroteLines, WroteText
<1>2. /\ measured'[i].stamp = measured[i].stamp /\ measured'[i].host = measured[i].host
      /\ measured'[i].commit = measured[i].commit /\ measured'[i].rows = measured[i].rows
      /\ measured'[i].at = to
  BY RunMoves, WroteLines, ZenonT(60) DEF BooksInv, Wrote
<1> HIDE DEF h
<1>a. ASSUME NEW p \in Its(i, b)'
      PROVE  \E q \in 1..Len(added) :
               /\ p = Base(b) + q /\ q > h /\ book'[b][p].is = "row"
               /\ IsRowOf(book'[b][p], measured[i], q - h)
               /\ book'[b][p].behind = TRUE => q = 1
               /\ q < Len(added) \/ to = "written" =>
                    ThePages!Parses(book'[b][p]) /\ book'[b][p].total = ThePages!TotalOf(measured[i])
  <2>1. PICK q \in 1..Len(added) :
          p = Base(b) + q /\ book'[b][p].is = "row" /\ OwnLine(i, b, q, added, to)
    BY <1>a, NewRows
  <2> QED BY <2>1 DEF OwnLine, h
<1>3. ASSUME NEW p \in Its(i, b)'
      PROVE  p - off \in Nat /\ IsRowOf(book'[b][p], measured'[i], p - off)
  <2>1. PICK q \in 1..Len(added) :
           /\ p = Base(b) + q /\ q > h
           /\ IsRowOf(book'[b][p], measured[i], q - h)
    BY <1>a
  <2>2. p - off = q - h /\ q - h \in Nat
    BY <1>1, <2>1
  <2>3. IsRowOf(book'[b][p], measured[i], p - off)
    BY <2>1, <2>2
  <2> QED BY <1>2, <2>2, <2>3 DEF IsRowOf, AsRow
<1>4. ASSUME NEW p \in Its(i, b)', NEW q \in Its(i, b)', NEW r \in p..q
      PROVE  r \in Its(i, b)'
  <2>1. PICK s \in 1..Len(added) : p = Base(b) + s /\ s > h /\ book'[b][p].is = "row"
    BY <1>a
  <2>2. PICK t \in 1..Len(added) : q = Base(b) + t /\ t > h /\ book'[b][q].is = "row"
    BY <1>a
  <2>3. PICK u \in 1..Len(added) : r = Base(b) + u /\ u > h /\ u >= s /\ u <= t
    <3>1. r - Base(b) \in 1..Len(added) /\ r = Base(b) + (r - Base(b))
          /\ r - Base(b) > h /\ r - Base(b) >= s /\ r - Base(b) <= t
      BY <1>1, <2>1, <2>2
    <3> QED BY <3>1
  <2>4. CASE u = t
    BY <1>4, <2>2, <2>3, <2>4
  <2>5. CASE u = s
    BY <1>4, <2>1, <2>3, <2>5
  <2>6. CASE u # t /\ u # s
    <3>1. u < Len(added) /\ u # 1
      BY <1>1, <2>3, <2>6
    <3>2. book'[b][Base(b) + u].is = "row"
      BY <2>3, <3>1, WroteRows DEF h
    <3>3. OwnLine(i, b, u, added, to) \/ LongerLine(b, u, added)
      BY <3>2, WroteRows
    <3>4. book'[b][r].stamp = measured[i].stamp /\ book'[b][r].host = measured[i].host
      BY <2>3, <3>1, <3>3 DEF OwnLine, LongerLine
    <3>5. r \in DOMAIN book'[b]
      BY <1>1, <2>3
    <3> QED BY <1>2, <2>3, <3>2, <3>4, <3>5 DEF Its
  <2> QED BY <2>4, <2>5, <2>6
<1>5. off \in 0..(Base(b) + Len(added))
  BY <1>1
<1> HIDE DEF off
<1>6. \A p \in Its(i, b)' : p - off \in Nat /\ IsRowOf(book'[b][p], measured'[i], p - off)
  BY <1>3
<1>7. \A p, q \in Its(i, b)' : \A r \in p..q : r \in Its(i, b)'
  BY <1>4
<1>b. ASSUME NEW p \in Its(i, b)', NEW q \in Its(i, b)'
      PROVE  /\ book'[b][p].behind = TRUE => p <= q
             /\ ~ThePages!Parses(book'[b][p]) => q <= p
  <2>1. PICK s \in 1..Len(added) :
           /\ p = Base(b) + s /\ (book'[b][p].behind = TRUE => s = 1)
           /\ s < Len(added) \/ to = "written" => ThePages!Parses(book'[b][p])
    BY <1>a
  <2>2. PICK t \in 1..Len(added) : q = Base(b) + t
    BY <1>a
  <2> QED BY <1>1, <2>1, <2>2
<1>c. measured'[i].at = "written" =>
        \A p \in Its(i, b)' : book'[b][p].total = ThePages!TotalOf(measured'[i])
  BY <1>2, <1>a DEF ThePages!TotalOf
<1>8. PICK from \in 0..(Base(b) + Len(added)) : from = off
  BY <1>5
<1>d. \A p, q \in Its(i, b)' :
        /\ book'[b][p].behind = TRUE => p <= q
        /\ ~ThePages!Parses(book'[b][p]) => q <= p
  BY <1>b
<1>9. StandsFrom(i, b, from)'
  BY <1>6, <1>7, <1>8, <1>c, <1>d DEF StandsFrom
<1> QED BY <1>8, <1>9

LEMMA NewCuts ==
  ASSUME BooksInv, NEW i, NEW b, NEW added, NEW to, Wrote(i, b, added, to),
         NEW n, n = Len(order[b]) + 1
  PROVE  CutBefore(b, n)'
<1>1. BookInv(b) /\ order'[b] = Append(order[b], i) /\ IsList(order[b])
  BY WroteLines DEF BookInv
<1>2. DOMAIN order[b] = 1..Len(order[b]) /\ Len(order[b]) \in Nat
  BY <1>1, Listed
<1>3. order'[b][n] = i /\ \A m \in 1..(n - 1) : m \in DOMAIN order[b] /\ order'[b][m] = order[b][m]
  BY <1>1, <1>2 DEF IsList
<1>4. measured'[i].at = to /\ to \in {"written", "torn"}
  BY RunMoves, WroteLines DEF BooksInv, Wrote
<1>5. ASSUME NEW p \in Its(i, b)', book'[b][p].behind = TRUE
      PROVE  \E m \in 1..(n - 1) : measured'[order'[b][m]].at = "torn"
  <2>1. b \in open
    BY <1>5, NewRows DEF OwnLine
  <2>2. PICK m \in DOMAIN order[b] : measured[order[b][m]].at = "torn"
    BY <1>1, <2>1 DEF BookInv
  <2>3. order[b][m] \in DOMAIN measured /\ IsIn(order[b][m]) /\ m \in 1..(n - 1)
    BY <1>1, <1>2 DEF BookInv
  <2>4. order[b][m] # i
    BY <2>3 DEF Wrote, Moved
  <2>5. measured'[order[b][m]].at = "torn"
    BY <2>2, <2>3, <2>4 DEF Wrote, Moved
  <2> QED BY <1>3, <2>3, <2>5
<1>6. b \in open' => measured'[i].at = "torn"
  BY <1>4 DEF Wrote
<1> QED BY <1>3, <1>5, <1>6 DEF CutBefore

LEMMA NewEnds ==
  ASSUME BooksInv, NEW i, NEW b, NEW added, NEW to, Wrote(i, b, added, to),
         to = "written", b \notin open
  PROVE  EndsWhole(i, b)'
<1> DEFINE run == measured[i]
           h == Above(run)
           n == Len(run.rows)
           base == Base(b)
<1>1. /\ base \in Nat /\ IsList(run.rows) /\ h \in {0, 1}
      /\ Len(book'[b]) = base + Len(added)
      /\ \A q \in 1..Len(added) : book'[b][base + q] = added[q]
  <2>1. /\ base \in Nat /\ IsList(run.rows) /\ h \in {0, 1} /\ Len(book'[b]) = base + Len(added)
    BY WroteLines
  <2>2. ASSUME NEW q \in 1..Len(added) PROVE book'[b][base + q] = added[q]
    BY WroteText DEF NewLine
  <2> QED BY <2>1, <2>2
<1>2. added = ThePages!Text(run)
  BY DEF Wrote
<1>3. /\ Len(added) = h + n /\ n \in Nat
      /\ \A q \in 1..(h + n) :
           added[q] = IF q <= h THEN ThePages!Header ELSE ThePages!RowOf(run, q - h)
  BY <1>1, <1>2, TextIs
<1>4. /\ measured'[i].stamp = run.stamp /\ measured'[i].host = run.host
      /\ measured'[i].commit = run.commit /\ measured'[i].rows = run.rows
  BY RunMoves, WroteLines DEF BooksInv, Wrote
<1> HIDE DEF run, h, n, base
<1>5. ASSUME NEW k \in 1..n
      PROVE  book'[b][Len(book'[b]) - n + k] = ThePages!RowOf(measured'[i], k)
  <2>1. h + k \in 1..(h + n) /\ ~(h + k <= h) /\ (h + k) - h = k
        /\ Len(book'[b]) - n + k = base + (h + k)
    BY <1>1, <1>3
  <2>2. book'[b][base + (h + k)] = added[h + k]
    BY <1>1, <1>3, <2>1
  <2>3. added[h + k] = ThePages!RowOf(run, k)
    BY <1>3, <2>1
  <2>4. ThePages!RowOf(run, k) = ThePages!RowOf(measured'[i], k)
    BY <1>4 DEF ThePages!RowOf, ThePages!TotalOf
  <2> QED BY <2>1, <2>2, <2>3, <2>4
<1>6. n <= Len(book'[b]) /\ n = Len(measured'[i].rows)
  BY <1>1, <1>3, <1>4 DEF n
<1> QED BY <1>5, <1>6 DEF EndsWhole

LEMMA WroteKeeps ==
  ASSUME BooksInv, NEW i, NEW b, NEW added, NEW to, Wrote(i, b, added, to)
  PROVE  BooksInv'
<1> DEFINE n == Len(order[b])
<1>1. /\ i \in DOMAIN measured /\ b \in DOMAIN Measured /\ BookInv(b)
      /\ Base(b) \in Nat /\ Len(book[b]) \in Nat /\ Len(book[b]) <= Base(b) + 1
      /\ Base(b) <= Len(book[b]) /\ DOMAIN book[b] = 1..Len(book[b])
      /\ IsList(book'[b]) /\ Len(book'[b]) = Base(b) + Len(added)
      /\ DOMAIN book'[b] = 1..(Base(b) + Len(added))
      /\ \A p \in 1..Base(b) : book'[b][p] = book[b][p]
      /\ Len(added) \in Nat /\ Len(added) # 0
  BY WroteLines
<1>2. RunsInv' /\ RunsGoOn /\ measured'[i].at = to /\ measured'[i].book = b
      /\ measured[i].book = b /\ ~IsIn(i) /\ to \in {"written", "torn"}
      /\ DOMAIN measured' = DOMAIN measured
  BY RunMoves, <1>1 DEF BooksInv, Wrote, Moved
<1>3. ASSUME NEW c \in DOMAIN Measured, c # b PROVE BookInv(c)'
  <2>1. book'[c] = book[c] /\ order'[c] = order[c]
    BY <1>3, WroteLines
  <2>2. c \in open' => c \in open
    BY <1>3 DEF Wrote
  <2>3. BookInv(c)
    BY DEF BooksInv
  <2> QED BY <1>2, <2>1, <2>2, <2>3, BookStays
<1>4. /\ IsList(order[b]) /\ n \in Nat /\ DOMAIN order[b] = 1..n
      /\ order'[b] = Append(order[b], i)
      /\ IsList(order'[b]) /\ Len(order'[b]) = n + 1 /\ DOMAIN order'[b] = 1..(n + 1)
      /\ \A m \in 1..(n + 1) : order'[b][m] = IF m <= n THEN order[b][m] ELSE i
  <2>1. IsList(order[b])
    BY <1>1 DEF BookInv
  <2>2. order'[b] = Append(order[b], i)
    BY WroteLines
  <2> QED BY <2>1, <2>2, Listed, Appended
<1> HIDE DEF n
<1>5. \A m \in 1..n : /\ order'[b][m] = order[b][m] /\ order[b][m] \in DOMAIN measured
                      /\ IsIn(order[b][m]) /\ measured[order[b][m]].book = b /\ order[b][m] # i
                      /\ measured'[order[b][m]] = measured[order[b][m]]
  BY <1>1, <1>2, <1>4 DEF BookInv, RunsGoOn
<1>6. order'[b][n + 1] = i
  BY <1>4
<1>7. ASSUME NEW m \in 1..(n + 1)
      PROVE  /\ order'[b][m] \in DOMAIN measured' /\ IsIn(order[b][m])'
             /\ measured'[order'[b][m]].book = b
             /\ \E off \in 0..Len(book'[b]) : StandsFrom(order[b][m], b, off)'
             /\ CutBefore(b, m)'
  <2>1. CASE m = n + 1
    <3>0. CutBefore(b, m)'
      BY <2>1, NewCuts DEF n
    <3>1. \E off \in 0..Len(book'[b]) : StandsFrom(i, b, off)'
      BY <1>1, NewStand
    <3>2. IsIn(i)' /\ order'[b][m] = i
      BY <1>2, <1>6, <2>1 DEF IsIn
    <3>3. PICK j : j = i /\ j = order'[b][m]
      BY <3>2
    <3>4. \E off \in 0..Len(book'[b]) : StandsFrom(j, b, off)'
      BY <3>1, <3>3
    <3>5. \E off \in 0..Len(book'[b]) : StandsFrom(order[b][m], b, off)'
      BY <3>3, <3>4
    <3> QED BY <1>1, <1>2, <3>0, <3>2, <3>5 DEF IsIn
  <2>2. CASE m # n + 1
    <3>1. m \in 1..n /\ m \in DOMAIN order[b]
      BY <1>4, <2>2
    <3>2. PICK j \in DOMAIN measured : j = order[b][m]
      BY <1>5, <3>1
    <3>3. PICK off \in 0..Len(book[b]) : StandsFrom(j, b, off)
      BY <1>1, <3>1, <3>2 DEF BookInv
    <3>4. StandsFrom(j, b, off)'
      BY <1>5, <3>1, <3>2, <3>3, OldStand
    <3>a. CutBefore(b, m)'
      BY <1>5, <3>1, OldCuts
    <3>5. off \in 0..Len(book'[b])
      BY <1>1
    <3>6. order'[b][m] = j /\ IsIn(j)' /\ measured'[j].book = b /\ j \in DOMAIN measured'
      BY <1>2, <1>5, <3>1, <3>2 DEF IsIn
    <3>7. \E from \in 0..Len(book'[b]) : StandsFrom(order[b][m], b, from)'
      BY <3>4, <3>5, <3>6
    <3> QED BY <3>6, <3>7, <3>a DEF IsIn
  <2> QED BY <2>1, <2>2
<1>8. ASSUME NEW p \in DOMAIN book'[b], book'[b][p].is = "row"
      PROVE  \E m \in DOMAIN order'[b] : p \in Its(order[b][m], b)'
  <2>1. CASE p \in 1..Base(b)
    <3>1. p \in DOMAIN book[b] /\ book[b][p].is = "row"
      BY <1>1, <1>8, <2>1
    <3>2. PICK m \in DOMAIN order[b] : p \in Its(order[b][m], b)
      BY <1>1, <3>1 DEF BookInv
    <3>3. m \in 1..n /\ m \in DOMAIN order'[b]
      BY <1>4
    <3>4. PICK j \in DOMAIN measured : j = order[b][m] /\ j # i /\ j = order'[b][m]
      BY <1>5, <3>3
    <3>5. p \in Its(j, b)'
      BY <2>1, <3>2, <3>4, OldRows
    <3> QED BY <3>3, <3>4, <3>5 DEF Its
  <2>2. CASE p \notin 1..Base(b)
    <3>1. PICK q \in 1..Len(added) : p = Base(b) + q
      <4>1. p - Base(b) \in 1..Len(added) /\ p = Base(b) + (p - Base(b))
        BY <1>1, <1>8, <2>2
      <4> QED BY <4>1
    <3>2. CASE OwnLine(i, b, q, added, to)
      <4>1. book'[b][p].stamp = measured[i].stamp /\ book'[b][p].host = measured[i].host
        BY <3>1, <3>2 DEF OwnLine
      <4>2. measured'[i].stamp = measured[i].stamp /\ measured'[i].host = measured[i].host
        BY <1>1, RunMoves DEF BooksInv, Wrote
      <4>3. p \in Its(i, b)'
        BY <1>8, <4>1, <4>2 DEF Its
      <4>4. n + 1 \in DOMAIN order'[b]
        BY <1>4
      <4> QED BY <1>6, <4>3, <4>4 DEF Its
    <3>3. CASE LongerLine(b, q, added)
      <4>1. /\ p \in DOMAIN book[b] /\ book[b][p].is = "row"
            /\ book'[b][p].stamp = book[b][p].stamp /\ book'[b][p].host = book[b][p].host
        BY <3>1, <3>3 DEF LongerLine
      <4>2. PICK m \in DOMAIN order[b] : p \in Its(order[b][m], b)
        BY <1>1, <4>1 DEF BookInv
      <4>3. m \in 1..n /\ m \in DOMAIN order'[b]
        BY <1>4
      <4>4. PICK j \in DOMAIN measured : j = order[b][m] /\ j = order'[b][m] /\ measured'[j] = measured[j]
        BY <1>5, <4>3
      <4>5. p \in Its(j, b)'
        BY <1>8, <4>1, <4>2, <4>4 DEF Its
      <4> QED BY <4>3, <4>4, <4>5 DEF Its
    <3> QED BY <1>8, <3>1, <3>2, <3>3, WroteRows
  <2> QED BY <2>1, <2>2
<1>9. b \in open' => Len(book'[b]) # 0 /\ \E m \in DOMAIN order'[b] : measured'[order'[b][m]].at = "torn"
  <2> SUFFICES ASSUME b \in open' PROVE Len(book'[b]) # 0 /\ \E m \in DOMAIN order'[b] : measured'[order'[b][m]].at = "torn"
    OBVIOUS
  <2>1. to = "torn"
    BY <1>2 DEF Wrote
  <2>2. n + 1 \in DOMAIN order'[b] /\ Len(book'[b]) # 0
    BY <1>1, <1>4
  <2> QED BY <1>2, <1>6, <2>1, <2>2
<1>10. ASSUME \A m \in DOMAIN order'[b] : measured'[order'[b][m]].at = "written"
       PROVE  EndsWhole(order[b][Len(order[b])], b)'
  <2>1. n + 1 \in DOMAIN order'[b] /\ 1..n \subseteq DOMAIN order'[b]
    BY <1>4
  <2>2. to = "written"
    BY <1>2, <1>6, <1>10, <2>1
  <2>3. \A m \in DOMAIN order[b] : measured[order[b][m]].at = "written"
    BY <1>4, <1>5, <1>10, <2>1
  <2>4. b \notin open
    <3> SUFFICES ASSUME b \in open PROVE FALSE
      OBVIOUS
    <3>1. PICK m \in DOMAIN order[b] : measured[order[b][m]].at = "torn"
      BY <1>1 DEF BookInv
    <3> QED BY <2>3, <3>1
  <2>5. EndsWhole(i, b)'
    BY <2>2, <2>4, NewEnds
  <2>6. order'[b][Len(order'[b])] = i
    BY <1>4, <1>6
  <2> QED BY <2>5, <2>6 DEF EndsWhole
<1>11. BookInv(b)'
  BY <1>1, <1>4, <1>7, <1>8, <1>9, <1>10 DEF BookInv
<1>12. /\ book' \in [DOMAIN Measured -> Range(book')] /\ order' \in [DOMAIN Measured -> Range(order')]
  <2>1. DOMAIN book = DOMAIN Measured /\ DOMAIN order = DOMAIN Measured
    BY DEF BooksInv
  <2>2. book' = [book EXCEPT ![b] = ThePages!Onto(book[b], b \notin open, added)]
        /\ order' = [order EXCEPT ![b] = Append(order[b], i)]
    BY DEF Wrote
  <2>3. ASSUME NEW f, NEW x, DOMAIN f = DOMAIN Measured, f \in [DOMAIN Measured -> Range(f)]
        PROVE  [f EXCEPT ![b] = x] \in [DOMAIN Measured -> Range([f EXCEPT ![b] = x])]
    <3> DEFINE g == [f EXCEPT ![b] = x]
    <3>1. g = [c \in DOMAIN Measured |-> g[c]] /\ DOMAIN g = DOMAIN Measured
      BY <2>3
    <3> HIDE DEF g
    <3>2. \A c \in DOMAIN Measured : g[c] \in Range(g)
      BY <3>1 DEF Range
    <3>3. g \in [DOMAIN Measured -> Range(g)]
      BY <3>1, <3>2
    <3> QED BY <3>3 DEF g
  <2> QED BY <2>1, <2>2, <2>3 DEF BooksInv
<1> QED BY <1>2, <1>3, <1>11, <1>12 DEF BooksInv

\* Moving some numbers keeps how many they are.
LEMMA SameCount ==
  ASSUME NEW S, IsFiniteSet(S), S \subseteq Int, NEW off \in Int
  PROVE  IsFiniteSet({x - off : x \in S}) /\ Cardinality({x - off : x \in S}) = Cardinality(S)
<1> DEFINE T == {x - off : x \in S}
           f == [x \in S |-> x - off]
<1>1. f \in [S -> T]
  OBVIOUS
<1>2. \A x, y \in S : f[x] = f[y] => x = y
  <2> TAKE x, y \in S
  <2>1. x \in Int /\ y \in Int /\ f[x] = x - off /\ f[y] = y - off
    OBVIOUS
  <2> QED BY <2>1
<1>3. \A t \in T : \E x \in S : f[x] = t
  OBVIOUS
<1> HIDE DEF f, T
<1>4. f \in Bijection(S, T)
  BY <1>1, <1>2, <1>3 DEF Bijection, Injection, Surjection, IsInjective
<1> QED BY <1>4, FS_Bijection DEF ExistsBijection, T

\* Numbers that are others moved, with none of those left out between two of them, are a
\* stretch of those.
Moves(K, T, off) ==
  /\ \A p \in K : p - off \in T
  /\ \A p, q \in K : \A t \in T : p - off <= t /\ t <= q - off => t + off \in K

Lie(K, T, off, from) ==
  /\ from + Cardinality(K) - 1 <= Cardinality(T)
  /\ \A m \in 1..Cardinality(K) : /\ from + m - 1 \in 1..Cardinality(T)
                                  /\ Nth(T, from + m - 1) = Nth(K, m) - off

LEMMA Shifts ==
  ASSUME NEW K, IsFiniteSet(K), K \subseteq Nat, NEW T, IsFiniteSet(T), T \subseteq Nat,
         NEW off \in Nat, Moves(K, T, off)
  PROVE  \E from \in 1..(Cardinality(T) + 1) : Lie(K, T, off, from)
<1>a. \A p \in K : p - off \in T
  BY DEF Moves
<1>b. \A p, q \in K : \A t \in T : p - off <= t /\ t <= q - off => t + off \in K
  BY DEF Moves
<1> DEFINE n == Cardinality(K)
           c == Cardinality(T)
<1>1. /\ n \in Nat
      /\ \A m \in 1..n : Nth(K, m) \in K /\ Cardinality(Before(K, Nth(K, m))) = m - 1
      /\ \A p \in K : \E m \in 1..n : Nth(K, m) = p
      /\ \A k, m \in 1..n : k < m <=> Nth(K, k) < Nth(K, m)
  BY NthIs
<1>2. /\ c \in Nat
      /\ \A m \in 1..c : Nth(T, m) \in T /\ Cardinality(Before(T, Nth(T, m))) = m - 1
      /\ \A t \in T : \E m \in 1..c : Nth(T, m) = t
  BY NthIs
<1> HIDE DEF n, c
<1>3. CASE n = 0
  <2>1. 1 \in 1..(c + 1) /\ 1 + n - 1 <= c /\ \A m \in 1..n : FALSE
    BY <1>2, <1>3
  <2> QED BY <2>1 DEF n, c, Lie
<1>4. CASE n # 0
  <2> DEFINE p0 == Nth(K, 1)
             lo == p0 - off
             b == Cardinality(Before(T, lo))
  <2>1. 1 \in 1..n /\ n \in 1..n
    BY <1>1, <1>4
  <2>2. p0 \in K /\ lo \in T /\ p0 \in Nat /\ lo \in Nat
    BY <1>a, <1>1, <2>1
  <2>3. \A p \in K : p0 <= p
    <3> TAKE p \in K
    <3>1. PICK m \in 1..n : Nth(K, m) = p
      BY <1>1
    <3>2. ~(m < 1) /\ (m < 1 <=> p < p0)
      BY <1>1, <2>1, <3>1
    <3> QED BY <2>2, <3>2
  <2> HIDE DEF p0
  <2>4. ASSUME NEW m \in 1..n
        PROVE  b + m \in 1..c /\ Nth(T, b + m) = Nth(K, m) - off /\ b \in Nat
    <3> DEFINE x == Nth(K, m)
               t == x - off
               moved == {p - off : p \in Before(K, x)}
    <3>1. x \in K /\ t \in T /\ x \in Nat /\ t \in Nat /\ Cardinality(Before(K, x)) = m - 1
      BY <1>a, <1>1
    <3> HIDE DEF x
    <3>2. IsFiniteSet(Before(T, lo)) /\ IsFiniteSet(Before(K, x))
      <4>1. Before(T, lo) \subseteq T /\ Before(K, x) \subseteq K
        BY DEF Before
      <4> QED BY <4>1, FS_Subset
    <3>3. IsFiniteSet(moved) /\ Cardinality(moved) = m - 1
      <4>1. Before(K, x) \subseteq Int
        <5>1. \A j \in Before(K, x) : j \in K
          BY DEF Before
        <5>2. \A j \in K : j \in Int
          OBVIOUS
        <5> QED BY <5>1, <5>2
      <4> QED BY <3>1, <3>2, <4>1, SameCount
    <3>4. Before(T, t) = Before(T, lo) \cup moved
      <4>1. ASSUME NEW u \in Before(T, t) PROVE u \in Before(T, lo) \cup moved
        <5>1. u \in T /\ u < t /\ u \in Nat
          BY <4>1 DEF Before
        <5>2. CASE u < lo
          BY <5>1, <5>2 DEF Before
        <5>3. CASE ~(u < lo)
          <6>1. p0 - off <= u /\ u <= x - off
            BY <2>2, <3>1, <5>1, <5>3
          <6>2. u + off \in K
            BY <1>b, <2>2, <3>1, <5>1, <6>1
          <6>3. u + off < x /\ u = (u + off) - off
            BY <3>1, <5>1
          <6>4. u + off \in Before(K, x)
            BY <6>2, <6>3 DEF Before
          <6> QED BY <6>3, <6>4
        <5> QED BY <5>2, <5>3
      <4>2. ASSUME NEW u \in Before(T, lo) PROVE u \in Before(T, t)
        <5>1. u \in T /\ u < lo /\ u \in Nat
          BY <4>2 DEF Before
        <5>2. lo <= t
          BY <2>2, <2>3, <3>1
        <5>3. u < t
          BY <2>2, <3>1, <5>1, <5>2
        <5> QED BY <5>1, <5>3 DEF Before
      <4>3. ASSUME NEW u \in moved PROVE u \in Before(T, t)
        <5>1. PICK p \in Before(K, x) : u = p - off
          BY <4>3
        <5>2. p \in K /\ p < x /\ p \in Nat /\ u \in T
          BY <1>a, <5>1 DEF Before
        <5>3. u < t
          BY <3>1, <5>1, <5>2
        <5> QED BY <5>2, <5>3 DEF Before
      <4> QED BY <4>1, <4>2, <4>3
    <3>5. Before(T, lo) \cap moved = {}
      <4> SUFFICES ASSUME NEW u \in Before(T, lo), u \in moved PROVE FALSE
        OBVIOUS
      <4>1. PICK p \in Before(K, x) : u = p - off
        OBVIOUS
      <4>2. p \in K /\ p \in Nat /\ u < lo
        BY <4>1 DEF Before
      <4>3. p0 <= p
        BY <2>3, <4>2
      <4> QED BY <2>2, <4>1, <4>2, <4>3
    <3> HIDE DEF moved
    <3>6. Cardinality(Before(T, t)) = b + (m - 1) /\ b \in Nat
      <4>1. Cardinality(Before(T, lo) \cap moved) = 0
        BY <3>5, FS_EmptySet
      <4>2. Cardinality(Before(T, lo) \cup moved) = b + (m - 1) - 0
        BY <3>2, <3>3, <4>1, FS_Union
      <4>3. b \in Nat
        BY <3>2, FS_CardinalityType
      <4>4. m \in Nat
        BY <1>1
      <4>5. Cardinality(Before(T, t)) = Cardinality(Before(T, lo) \cup moved)
        BY <3>4
      <4> DEFINE size == Cardinality(Before(T, lo) \cup moved)
      <4>6. size = b + (m - 1) - 0
        BY <4>2
      <4> HIDE DEF b, size
      <4>7. size = b + (m - 1)
        BY <4>3, <4>4, <4>6
      <4> QED BY <4>3, <4>5, <4>7 DEF size
    <3>7. PICK k \in 1..c : Nth(T, k) = t
      BY <1>2, <3>1
    <3>8. k - 1 = b + (m - 1)
      BY <1>2, <3>6, <3>7
    <3> HIDE DEF b, t
    <3>9. k = b + m
      BY <1>1, <1>2, <3>6, <3>8
    <3> QED BY <3>6, <3>7, <3>9 DEF x, t
  <2> HIDE DEF b
  <2>5. b \in Nat /\ b + n <= c
    <3>1. b \in Nat /\ b + n \in 1..c
      BY <2>1, <2>4
    <3> QED BY <1>2, <3>1
  <2>6. b + 1 \in 1..(c + 1) /\ (b + 1) + n - 1 <= c
    BY <1>1, <1>2, <1>4, <2>5
  <2>7. ASSUME NEW m \in 1..n
        PROVE  (b + 1) + m - 1 \in 1..c /\ Nth(T, (b + 1) + m - 1) = Nth(K, m) - off
    <3>1. (b + 1) + m - 1 = b + m
      BY <1>1, <2>5
    <3> QED BY <2>4, <3>1
  <2> QED BY <2>6, <2>7 DEF n, c, Lie
<1> QED BY <1>3, <1>4

\* Of the rows of a run those are read together that parse and have nothing in front of
\* their stamps, or the one that has.
Seen(i, b, behind) ==
  {p \in Its(i, b) : ThePages!Parses(book[b][p]) /\ book[b][p].behind = behind}

Lies(b, i, K, off) ==
  /\ K \subseteq Its(i, b)
  /\ \A p \in K : p - off \in Nat /\ IsRowOf(book[b][p], measured[i], p - off)
  /\ \A p, q \in K : \A r \in p..q : r \in K

LEMMA SeenLies ==
  ASSUME NEW b, IsList(book[b]), NEW i, NEW off, StandsFrom(i, b, off), NEW behind \in BOOLEAN
  PROVE  /\ Lies(b, i, Seen(i, b, behind), off)
         /\ behind = TRUE => \A p, q \in Seen(i, b, behind) : p = q
<1> DEFINE K == Seen(i, b, behind)
<1>1. \A p \in K : /\ p \in Its(i, b) /\ p \in Nat /\ ThePages!Parses(book[b][p])
                   /\ book[b][p].behind = behind
  BY Listed DEF Seen, Its
<1>2. \A p \in K : p - off \in Nat /\ IsRowOf(book[b][p], measured[i], p - off)
  BY <1>1 DEF StandsFrom
<1> HIDE DEF K
<1>3. ASSUME behind = TRUE, NEW p \in K, NEW q \in K PROVE p = q
  <2>1. p <= q /\ q <= p
    BY <1>1, <1>3 DEF StandsFrom
  <2> QED BY <1>1, <2>1
<1>4. ASSUME NEW p \in K, NEW q \in K, NEW r \in p..q PROVE r \in K
  <2>1. p \in Its(i, b) /\ q \in Its(i, b) /\ p \in Nat /\ q \in Nat /\ r \in Nat
    BY <1>1
  <2>2. r \in Its(i, b)
    BY <2>1 DEF StandsFrom
  <2>3. CASE r = p \/ r = q
    BY <2>3
  <2>4. CASE r # p /\ r # q
    <3>1. ~(r <= p) /\ ~(q <= r)
      BY <2>1, <2>4
    <3>2. ThePages!Parses(book[b][r]) /\ book[b][r].behind # TRUE
      BY <2>1, <2>2, <3>1 DEF StandsFrom
    <3>3. book[b][r].behind \in BOOLEAN
      BY <2>2 DEF StandsFrom, IsRowOf
    <3>4. behind # TRUE
      <4>1. ASSUME p = q PROVE FALSE
        BY <2>1, <2>4, <4>1
      <4> QED BY <1>3, <4>1, Zenon
    <3>5. book[b][r].behind = behind
      BY <3>2, <3>3, <3>4
    <3> QED BY <2>2, <3>2, <3>5 DEF K, Seen
  <2> QED BY <2>3, <2>4
<1>5. K \subseteq Its(i, b)
  BY <1>1
<1> QED BY <1>2, <1>3, <1>4, <1>5 DEF Lies, K

\* The rows of one scope, in what is read and in the run.
Kept(b, K, scope) == {p \in K : book[b][p].scope = scope}
Had(run, scope) == {k \in DOMAIN run.rows : run.rows[k][1] = scope}
Read(b, K, scope) ==
  LET of == Sublist(book[b], Kept(b, K, scope)) IN [k \in DOMAIN of |-> of[k].ratio]

LEMMA RatioIs ==
  ASSUME NEW run, IsList(run.rows), NEW scope
  PROVE  /\ IsList(ThePages!Ratio(run, scope))
         /\ IsFiniteSet(Had(run, scope)) /\ Had(run, scope) \subseteq Nat
         /\ Len(ThePages!Ratio(run, scope)) = Cardinality(Had(run, scope))
         /\ Cardinality(Had(run, scope)) \in Nat
         /\ \A k \in 1..Cardinality(Had(run, scope)) :
              /\ Nth(Had(run, scope), k) \in Had(run, scope)
              /\ ThePages!Ratio(run, scope)[k] = run.rows[Nth(Had(run, scope), k)][2]
<1> DEFINE I == Had(run, scope)
           of == Sublist(run.rows, I)
<1>1. I \subseteq DOMAIN run.rows /\ DOMAIN run.rows = 1..Len(run.rows) /\ Len(run.rows) \in Nat
  BY Listed DEF Had
<1>2. I \subseteq Nat
  BY <1>1
<1>3. ThePages!Ratio(run, scope) = [k \in DOMAIN of |-> of[k][2]]
  BY SameSublist DEF ThePages!Ratio, Had
<1> HIDE DEF I
<1>4. /\ Len(of) = Cardinality(I) /\ Cardinality(I) \in Nat /\ IsFiniteSet(I)
      /\ IsList(of)
      /\ \A k \in 1..Cardinality(I) : Nth(I, k) \in I /\ of[k] = run.rows[Nth(I, k)]
  BY <1>1, SublistIs
<1> DEFINE n == Cardinality(I)
           list == [k \in 1..n |-> of[k][2]]
           E == {of[k][2] : k \in 1..n}
<1>5. DOMAIN of = 1..n
  BY <1>4, Listed
<1> HIDE DEF n, of
<1>6. list \in Seq(E) /\ Len(list) = n /\ \A k \in 1..n : list[k] = of[k][2]
  <2>1. n \in Nat /\ \A k \in 1..n : of[k][2] \in E
    BY <1>4 DEF n
  <2> HIDE DEF E
  <2> QED BY <2>1
<1>7. ThePages!Ratio(run, scope) = list
  BY <1>3, <1>5
<1> HIDE DEF list, E
<1> QED BY <1>2, <1>4, <1>6, <1>7, IsListOf DEF n, I

LEMMA ReadIs ==
  ASSUME NEW b, IsList(book[b]), NEW K, K \subseteq DOMAIN book[b], NEW scope
  PROVE  /\ IsList(Read(b, K, scope))
         /\ IsFiniteSet(Kept(b, K, scope)) /\ Kept(b, K, scope) \subseteq Nat
         /\ Len(Read(b, K, scope)) = Cardinality(Kept(b, K, scope))
         /\ Cardinality(Kept(b, K, scope)) \in Nat
         /\ \A k \in 1..Cardinality(Kept(b, K, scope)) :
              /\ Nth(Kept(b, K, scope), k) \in Kept(b, K, scope)
              /\ Read(b, K, scope)[k] = book[b][Nth(Kept(b, K, scope), k)].ratio
<1> DEFINE I == Kept(b, K, scope)
           of == Sublist(book[b], I)
<1>1. I \subseteq DOMAIN book[b] /\ DOMAIN book[b] = 1..Len(book[b]) /\ Len(book[b]) \in Nat
  BY Listed DEF Kept
<1>2. I \subseteq Nat
  BY <1>1
<1>3. Read(b, K, scope) = [k \in DOMAIN of |-> of[k].ratio]
  BY DEF Read
<1> HIDE DEF I
<1>4. /\ Len(of) = Cardinality(I) /\ Cardinality(I) \in Nat /\ IsFiniteSet(I)
      /\ IsList(of)
      /\ \A k \in 1..Cardinality(I) : Nth(I, k) \in I /\ of[k] = book[b][Nth(I, k)]
  BY <1>1, SublistIs
<1> DEFINE n == Cardinality(I)
           list == [k \in 1..n |-> of[k].ratio]
           E == {of[k].ratio : k \in 1..n}
<1>5. DOMAIN of = 1..n
  BY <1>4, Listed
<1> HIDE DEF n, of
<1>6. list \in Seq(E) /\ Len(list) = n /\ \A k \in 1..n : list[k] = of[k].ratio
  <2>1. n \in Nat /\ \A k \in 1..n : of[k].ratio \in E
    BY <1>4 DEF n
  <2> HIDE DEF E
  <2> QED BY <2>1
<1>7. Read(b, K, scope) = list
  BY <1>3, <1>5
<1> HIDE DEF list, E
<1> QED BY <1>2, <1>4, <1>6, <1>7, IsListOf DEF n, I

\* What is read of a scope is a stretch of what the run had of it, and all of it when
\* there is as much.
LEMMA ScopesAreStretches ==
  ASSUME NEW b, IsList(book[b]), NEW i, IsList(measured[i].rows),
         NEW S, NEW off \in Nat, Lies(b, i, S, off), NEW scope
  PROVE  /\ ThePages!Stretch(Read(b, S, scope), ThePages!Ratio(measured[i], scope))
         /\ Cardinality(Kept(b, S, scope)) = Cardinality(Had(measured[i], scope))
              => Read(b, S, scope) = ThePages!Ratio(measured[i], scope)
<1> DEFINE K == Kept(b, S, scope)
           T == Had(measured[i], scope)
           list == Read(b, S, scope)
           of == ThePages!Ratio(measured[i], scope)
           n == Cardinality(K)
           c == Cardinality(T)
<1>1. /\ IsList(list) /\ IsFiniteSet(K) /\ K \subseteq Nat /\ Len(list) = n /\ n \in Nat
      /\ \A k \in 1..n : Nth(K, k) \in K /\ list[k] = book[b][Nth(K, k)].ratio
  <2>1. S \subseteq DOMAIN book[b]
    BY DEF Lies, Its
  <2>2. /\ IsList(list) /\ IsFiniteSet(K) /\ K \subseteq Nat /\ Len(list) = n /\ n \in Nat
    BY <2>1, ReadIs, Zenon
  <2>3. ASSUME NEW k \in 1..Cardinality(Kept(b, S, scope))
        PROVE  /\ Nth(Kept(b, S, scope), k) \in Kept(b, S, scope)
               /\ Read(b, S, scope)[k] = book[b][Nth(Kept(b, S, scope), k)].ratio
    BY <2>1, ReadIs
  <2> QED BY <2>2, <2>3
<1>2. /\ IsList(of) /\ IsFiniteSet(T) /\ T \subseteq Nat /\ Len(of) = c /\ c \in Nat
      /\ \A k \in 1..c : Nth(T, k) \in T /\ of[k] = measured[i].rows[Nth(T, k)][2]
  BY RatioIs
<1>3. \A p \in K : /\ p - off \in T
                   /\ book[b][p].ratio = measured[i].rows[p - off][2]
  <2> TAKE p \in K
  <2>1. IsRowOf(book[b][p], measured[i], p - off) /\ book[b][p].scope = scope
    BY DEF Lies, Kept
  <2>2. /\ book[b][p].scope = measured[i].rows[p - off][1]
        /\ book[b][p].ratio = measured[i].rows[p - off][2]
    BY <2>1, RowHas
  <2>3. p - off \in DOMAIN measured[i].rows
    BY <2>1 DEF IsRowOf
  <2>4. measured[i].rows[p - off][1] = scope
    BY <2>1, <2>2
  <2>5. p - off \in T
    BY <2>3, <2>4 DEF Had
  <2> QED BY <2>2, <2>5
<1>4. \A p, q \in K : \A t \in T : p - off <= t /\ t <= q - off => t + off \in K
  <2> TAKE p, q \in K
  <2> TAKE t \in T
  <2> HAVE p - off <= t /\ t <= q - off
  <2>1. p \in Nat /\ q \in Nat /\ t \in Nat
    BY <1>1, <1>2
  <2>2. t + off \in p..q /\ (t + off) - off = t
    BY <2>1
  <2>3. t + off \in S
    BY <2>2 DEF Lies, Kept
  <2>4. IsRowOf(book[b][t + off], measured[i], t)
    BY <2>2, <2>3 DEF Lies
  <2>5. book[b][t + off].scope = measured[i].rows[t][1]
    BY <2>4, RowHas
  <2> QED BY <2>3, <2>5 DEF Kept, Had
<1> HIDE DEF K, T
<1>5. PICK from \in 1..(c + 1) :
        /\ from + n - 1 <= c
        /\ \A m \in 1..n : from + m - 1 \in 1..c /\ Nth(T, from + m - 1) = Nth(K, m) - off
  <2>1. Moves(K, T, off)
    BY <1>3, <1>4 DEF Moves
  <2>2. \E from \in 1..(Cardinality(T) + 1) : Lie(K, T, off, from)
    BY <1>1, <1>2, <2>1, Shifts
  <2> QED BY <2>2 DEF n, c, Lie
<1>6. ASSUME NEW m \in 1..n PROVE list[m] = of[from + m - 1] /\ from + m - 1 \in 1..c
  BY <1>1, <1>2, <1>3, <1>5
<1> HIDE DEF n, c, list, of
<1>7. list = SubSeq(of, from, from + Len(list) - 1)
  <2> DEFINE E == Range(of)
             to == from + n - 1
  <2>1. of \in Seq(E) /\ from \in Nat /\ from # 0 /\ n \in Nat /\ c \in Nat
    BY <1>1, <1>2, <1>5 DEF IsList
  <2>2. \A x \in from..to : x \in 1..Len(of)
    BY <1>2, <1>5, <2>1
  <2>3. \A x \in from..to : of[x] \in E
    BY <2>1, <2>2
  <2> HIDE DEF E
  <2>4. /\ SubSeq(of, from, to) \in Seq(E)
        /\ Len(SubSeq(of, from, to)) = IF from <= to THEN to - from + 1 ELSE 0
        /\ \A x \in 1..(to - from + 1) : SubSeq(of, from, to)[x] = of[from + x - 1]
    <3>1. from \in Int /\ to \in Int
      BY <2>1
    <3> HIDE DEF to
    <3> QED BY <2>3, <3>1, SubSeqProperties
  <2>5. to - from + 1 = n /\ (from <= to <=> n # 0)
    BY <2>1
  <2>6. Len(SubSeq(of, from, to)) = n
    <3> HIDE DEF to
    <3> QED BY <2>1, <2>4, <2>5
  <2> HIDE DEF to
  <2> DEFINE sub == SubSeq(of, from, to)
  <2>7. /\ sub \in Seq(E) /\ Len(sub) = n /\ \A x \in 1..n : sub[x] = list[x]
    BY <1>6, <2>4, <2>5, <2>6
  <2>8. IsList(sub)
    BY <2>7, IsListOf
  <2> HIDE DEF sub
  <2>9. list = [x \in 1..n |-> list[x]] /\ sub = [x \in 1..n |-> sub[x]]
    BY <1>1, <2>7, <2>8, Listed
  <2>10. list = sub
    BY <2>7, <2>9
  <2> QED BY <1>1, <2>10 DEF sub, to
<1>8. from \in 1..(Len(of) + 1)
  BY <1>2, <1>5
<1>9. ASSUME n = c PROVE list = of
  <2>1. from = 1
    BY <1>2, <1>5, <1>9
  <2>2. \A m \in 1..n : 1 + m - 1 = m
    BY <1>1
  <2>3. \A m \in 1..n : list[m] = of[m]
    BY <1>6, <2>1, <2>2
  <2>4. list = [x \in 1..n |-> list[x]] /\ of = [x \in 1..n |-> of[x]]
    BY <1>1, <1>2, <1>9, Listed
  <2> QED BY <2>3, <2>4
<1> QED BY <1>7, <1>8, <1>9 DEF ThePages!Stretch, n, c, list, of, K, T

LEMMA EmptyList ==
  ASSUME NEW s, IsList(s)
  PROVE  s = <<>> <=> Len(s) = 0
<1>1. Len(<<>>) = 0 /\ Len(s) \in Nat /\ s = [i \in 1..Len(s) |-> s[i]]
  BY Listed
<1>2. ASSUME Len(s) = 0 PROVE s = <<>>
  <2>1. 1..Len(s) = {}
    BY <1>2
  <2>2. s = [i \in {} |-> s[i]]
    BY <1>1, <2>1
  <2> QED BY <2>2
<1> QED BY <1>1, <1>2

\* The first places that are one run's are read as a run, whose overall ratio is the
\* one of its first row or none.
LEMMA AssembledIs ==
  ASSUME NEW b, IsList(book[b]), NEW i, IsList(measured[i].rows),
         \A k \in DOMAIN measured[i].rows : measured[i].rows[k][1] = "corpus" => k = 1,
         NEW K, NEW off \in Nat, Lies(b, i, K, off), K # {}
  PROVE  LET read == ThePages!Assembled(book[b], K)
             run == measured[i]
         IN  /\ read = [behind |-> book[b][Nth(K, 1)].behind,
                        stamp |-> run.stamp, host |-> run.host, commit |-> run.commit,
                        total |-> book[b][Nth(K, 1)].total, overall |-> read.overall,
                        groups |-> Read(b, K, "group"), worst |-> Read(b, K, "worst")]
             /\ Nth(K, 1) \in K
             /\ read.overall = 0 \/ read.overall = ThePages!AsMeasured(run).overall
             /\ Read(b, K, "corpus") = ThePages!Ratio(run, "corpus")
                  => read.overall = ThePages!AsMeasured(run).overall
<1> DEFINE run == measured[i]
           first == book[b][Nth(K, 1)]
           of == Sublist(book[b], Kept(b, K, "corpus"))
           overall == IF of = <<>> THEN 0 ELSE of[Len(of)].ratio
           read == ThePages!Assembled(book[b], K)
           list == Read(b, K, "corpus")
           ratio == ThePages!Ratio(run, "corpus")
<1>1. read = [behind |-> first.behind, stamp |-> first.stamp, host |-> first.host, commit |-> first.commit,
              total |-> first.total, overall |-> overall,
              groups |-> Read(b, K, "group"), worst |-> Read(b, K, "worst")]
  <2>1. \A scope : ThePages!Sublist(book[b], {p \in K : book[b][p].scope = scope})
                     = Sublist(book[b], Kept(b, K, scope))
    BY SameSublist DEF Kept
  <2>2. ThePages!Nth(K, 1) = Nth(K, 1)
    BY SameSublist
  <2> QED BY <2>1, <2>2 DEF ThePages!Assembled, Read
<1>2. Nth(K, 1) \in K
  <2>1. DOMAIN book[b] = 1..Len(book[b]) /\ Len(book[b]) \in Nat
    BY Listed
  <2>2. IsFiniteSet(K) /\ K \subseteq Nat
    <3>1. IsFiniteSet(1..Len(book[b]))
      <4>1. 1 \in Int /\ Len(book[b]) \in Int
        BY <2>1
      <4> QED BY <4>1, FS_Interval, Zenon
    <3>2. K \subseteq 1..Len(book[b]) /\ 1..Len(book[b]) \subseteq Nat
      BY <2>1 DEF Lies, Its
    <3>3. IsFiniteSet(K)
      BY <3>1, <3>2, FS_Subset, Zenon
    <3> QED BY <3>2, <3>3
  <2>3. Cardinality(K) \in Nat /\ Cardinality(K) # 0
    BY <2>2, FS_CardinalityType, FS_EmptySet
  <2>4. 1 \in 1..Cardinality(K)
    BY <2>3
  <2> QED BY <2>2, <2>4, NthIs
<1>3. first.stamp = run.stamp /\ first.host = run.host /\ first.commit = run.commit
  <2>1. IsRowOf(first, run, Nth(K, 1) - off)
    BY <1>2 DEF Lies
  <2> HIDE DEF first, run
  <2> QED BY <2>1, RowHas
<1>4. /\ IsList(of) /\ Len(of) = Cardinality(Kept(b, K, "corpus"))
      /\ Cardinality(Kept(b, K, "corpus")) \in Nat /\ IsFiniteSet(Kept(b, K, "corpus"))
  <2>1. Kept(b, K, "corpus") \subseteq DOMAIN book[b]
    BY DEF Kept, Lies, Its
  <2> QED BY <2>1, SublistIs
<1>5. /\ IsList(list) /\ Len(list) = Len(of)
      /\ IsList(ratio) /\ Len(ratio) = Cardinality(Had(run, "corpus"))
  <2>1. K \subseteq DOMAIN book[b]
    BY DEF Lies, Its
  <2>2. IsList(list) /\ Len(list) = Cardinality(Kept(b, K, "corpus"))
    BY <2>1, ReadIs, Zenon
  <2>3. IsList(ratio) /\ Len(ratio) = Cardinality(Had(run, "corpus"))
    BY RatioIs, Zenon
  <2> QED BY <1>4, <2>2, <2>3
<1>6. ThePages!AsMeasured(run).overall = IF ratio = <<>> THEN 0 ELSE ratio[Len(ratio)]
  BY DEF ThePages!AsMeasured
<1>7. overall = IF list = <<>> THEN 0 ELSE list[Len(list)]
  <2>1. list = <<>> <=> of = <<>>
    BY <1>4, <1>5, EmptyList
  <2>2. ASSUME of # <<>> PROVE of[Len(of)].ratio = list[Len(list)]
    <3>1. Len(of) \in DOMAIN of
      <4>1. Len(of) # 0 /\ DOMAIN of = 1..Len(of) /\ Len(of) \in Nat
        BY <1>4, <2>2, EmptyList, Listed
      <4> HIDE DEF of
      <4> QED BY <4>1
    <3>2. list = [k \in DOMAIN of |-> of[k].ratio]
      BY DEF Read
    <3>3. list[Len(of)] = of[Len(of)].ratio
      BY <3>1, <3>2
    <3> QED BY <1>5, <3>3
  <2> QED BY <2>1, <2>2
<1>8. ASSUME list = ratio PROVE overall = ThePages!AsMeasured(run).overall
  BY <1>6, <1>7, <1>8
<1>9. ASSUME list # <<>> PROVE list = ratio
  <2>1. Cardinality(Kept(b, K, "corpus")) # 0
    BY <1>5, <1>4, <1>9, EmptyList
  <2>2. Kept(b, K, "corpus") # {}
    BY <2>1, FS_EmptySet
  <2>3. PICK p \in Kept(b, K, "corpus") : TRUE
    BY <2>2
  <2>4. \A q \in Kept(b, K, "corpus") : q - off \in Had(run, "corpus") /\ q \in Nat
    <3>1. DOMAIN book[b] = 1..Len(book[b]) /\ Len(book[b]) \in Nat
      BY Listed
    <3> TAKE q \in Kept(b, K, "corpus")
    <3>2. q \in K /\ book[b][q].scope = "corpus"
      BY DEF Kept
    <3>3. IsRowOf(book[b][q], run, q - off)
      BY <3>2 DEF Lies
    <3>4. q \in Nat
      BY <3>1, <3>2 DEF Lies, Its
    <3>5. run.rows[q - off][1] = "corpus" /\ q - off \in DOMAIN run.rows
      BY <3>2, <3>3 DEF IsRowOf, AsRow
    <3> QED BY <3>4, <3>5 DEF Had
  <2>5. \A k \in Had(run, "corpus") : k = 1
    BY DEF Had
  <2>6. Had(run, "corpus") = {1}
    BY <2>3, <2>4, <2>5
  <2>7. Kept(b, K, "corpus") = {p}
    <3>1. \A q \in Kept(b, K, "corpus") : q = p
      <4> TAKE q \in Kept(b, K, "corpus")
      <4>1. q - off = 1 /\ p - off = 1 /\ q \in Nat /\ p \in Nat
        BY <2>3, <2>4, <2>5
      <4> QED BY <4>1
    <3> QED BY <2>3, <3>1
  <2>8. Cardinality(Had(run, "corpus")) = 1 /\ Cardinality(Kept(b, K, "corpus")) = 1
    BY <2>6, <2>7, FS_Singleton
  <2> QED BY <2>8, ScopesAreStretches
<1>10. overall = 0 \/ overall = ThePages!AsMeasured(run).overall
  BY <1>7, <1>8, <1>9
<1>11. read.overall = overall
  BY <1>1
<1> HIDE DEF read, overall, first, run, of, list, ratio
<1>12. read = [behind |-> first.behind, stamp |-> run.stamp, host |-> run.host, commit |-> run.commit,
               total |-> first.total, overall |-> read.overall,
               groups |-> Read(b, K, "group"), worst |-> Read(b, K, "worst")]
  BY <1>1, <1>3, <1>11
<1> QED BY <1>2, <1>8, <1>10, <1>11, <1>12 DEF read, first, run, list, ratio

\* What is read of a book is of the run of its last row that is one.
LEMMA NewestIs ==
  ASSUME BooksInv, NEW b \in DOMAIN Measured
  PROVE  \/ /\ \A p \in DOMAIN book[b] : ~ThePages!Parses(book[b][p])
            /\ ThePages!Latest(book[b]) = ThePages!NoRun
         \/ \E n \in DOMAIN order[b], behind \in BOOLEAN :
              /\ \E last \in Seen(order[b][n], b, behind) :
                   \A p \in DOMAIN book[b] : ThePages!Parses(book[b][p]) => p <= last
              /\ ThePages!Latest(book[b]) =
                   ThePages!Assembled(book[b], Seen(order[b][n], b, behind))
<1> DEFINE lines == book[b]
           R == {p \in DOMAIN lines : ThePages!Parses(lines[p])}
           last == Nth(R, Cardinality(R))
<1>1. BookInv(b) /\ IsList(lines) /\ DOMAIN lines = 1..Len(lines) /\ Len(lines) \in Nat
  BY Listed DEF BooksInv, BookInv
<1>2. ThePages!Latest(lines) =
        IF R = {} THEN ThePages!NoRun
        ELSE ThePages!Assembled(lines, {p \in R : ThePages!SameRun(lines[p], lines[last])})
  <2>1. ThePages!Cardinality(R) = Cardinality(R) /\ \A k : ThePages!Nth(R, k) = Nth(R, k)
    BY SameCardinality, SameSublist
  <2> QED BY <2>1 DEF ThePages!Latest
<1>3. CASE R = {}
  BY <1>2, <1>3
<1>4. CASE R # {}
  <2>1. IsFiniteSet(R) /\ R \subseteq Nat
    <3>1. IsFiniteSet(1..Len(lines)) /\ R \subseteq 1..Len(lines)
      BY <1>1, FS_Interval
    <3> QED BY <1>1, <3>1, FS_Subset
  <2>2. Cardinality(R) \in Nat /\ Cardinality(R) # 0
    BY <1>4, <2>1, FS_CardinalityType, FS_EmptySet
  <2>3. last \in R /\ \A p \in R : p <= last
    <3> HIDE DEF R
    <3> DEFINE c == Cardinality(R)
    <3>1. c \in Nat /\ c # 0
      BY <2>2
    <3>2. /\ \A k \in 1..c : Nth(R, k) \in R
          /\ \A p \in R : \E k \in 1..c : Nth(R, k) = p
          /\ \A k, m \in 1..c : k < m <=> Nth(R, k) < Nth(R, m)
      BY <2>1, NthIs
    <3> HIDE DEF c
    <3>3. c \in 1..c
      BY <3>1
    <3>4. last \in R /\ last \in Nat
      BY <2>1, <3>2, <3>3 DEF c
    <3>5. ASSUME NEW p \in R PROVE p <= last
      <4>1. PICK k \in 1..c : Nth(R, k) = p
        BY <3>2
      <4>2. ~(c < k) /\ (c < k <=> last < p)
        BY <3>1, <3>2, <3>3, <4>1 DEF c
      <4>3. p \in Nat
        BY <2>1
      <4> HIDE DEF last
      <4> QED BY <3>4, <4>2, <4>3
    <3> QED BY <3>4, <3>5
  <2> HIDE DEF last
  <2>4. last \in DOMAIN lines /\ lines[last].is = "row"
    BY <2>3 DEF ThePages!Parses
  <2>5. PICK n, k :
          /\ n \in DOMAIN order[b] /\ last \in Its(order[b][n], b)
          /\ IsRowOf(lines[last], measured[order[b][n]], k)
    BY <1>1, <2>4, RowsOfBooks
  <2>6. PICK behind \in BOOLEAN : behind = lines[last].behind
    BY <2>5 DEF IsRowOf
  <2>7. {p \in R : ThePages!SameRun(lines[p], lines[last])} = Seen(order[b][n], b, behind)
    <3>1. /\ lines[last].stamp = measured[order[b][n]].stamp
          /\ lines[last].host = measured[order[b][n]].host
      BY <2>5 DEF Its
    <3>2. ASSUME NEW p \in DOMAIN lines
          PROVE  (ThePages!Parses(lines[p]) /\ ThePages!SameRun(lines[p], lines[last]))
                   <=> p \in Seen(order[b][n], b, behind)
      <4>1. ThePages!Parses(lines[p]) => lines[p].is = "row"
        BY DEF ThePages!Parses
      <4>2. p \in Seen(order[b][n], b, behind) <=>
              /\ lines[p].is = "row" /\ lines[p].stamp = measured[order[b][n]].stamp
              /\ lines[p].host = measured[order[b][n]].host
              /\ ThePages!Parses(lines[p]) /\ lines[p].behind = behind
        BY Zenon DEF Seen, Its
      <4>3. ThePages!SameRun(lines[p], lines[last]) <=>
              /\ lines[p].behind = lines[last].behind /\ lines[p].stamp = lines[last].stamp
              /\ lines[p].host = lines[last].host
        BY Zenon DEF ThePages!SameRun
      <4> HIDE DEF lines
      <4> QED BY <2>6, <3>1, <4>1, <4>2, <4>3, Zenon
    <3>3. Seen(order[b][n], b, behind) \subseteq DOMAIN lines
      BY DEF Seen, Its
    <3> HIDE DEF lines
    <3> QED BY <3>2, <3>3, Zenon
  <2>8. last \in Seen(order[b][n], b, behind)
    BY <2>3, <2>5, <2>6 DEF Seen
  <2>9. \A p \in DOMAIN lines : ThePages!Parses(lines[p]) => p <= last
    BY <2>3
  <2>10. ThePages!Latest(lines) = ThePages!Assembled(lines, Seen(order[b][n], b, behind))
    <3> HIDE DEF lines, R, last
    <3> QED BY <1>2, <1>4, <2>7, Zenon
  <2>11. n \in DOMAIN order[b]
    BY <2>5
  <2> HIDE DEF last
  <2> QED BY <2>8, <2>9, <2>10, <2>11, Zenon
<1> HIDE DEF R
<1> QED BY <1>3, <1>4, Zenon

\* In a book nothing was cut off in, that is all of the newest run.
LEMMA WholeIs ==
  ASSUME BooksInv, NEW b \in DOMAIN Measured, Len(order[b]) # 0,
         \A n \in DOMAIN order[b] : measured[order[b][n]].at = "written"
  PROVE  ThePages!Latest(book[b]) = ThePages!AsMeasured(measured[order[b][Len(order[b])]])
<1>1. BookInv(b) /\ RunsInv
  BY DEF BooksInv
<1>2. /\ IsList(book[b]) /\ DOMAIN book[b] = 1..Len(book[b]) /\ Len(book[b]) \in Nat
      /\ Len(order[b]) \in DOMAIN order[b]
  <2>1. IsList(book[b]) /\ IsList(order[b])
    BY <1>1 DEF BookInv
  <2>2. DOMAIN order[b] = 1..Len(order[b]) /\ Len(order[b]) \in Nat
    BY <2>1, Listed
  <2>3. Len(order[b]) \in DOMAIN order[b]
    BY <2>2
  <2> QED BY <2>1, <2>3, Listed
<1>3. PICK j \in DOMAIN measured : j = order[b][Len(order[b])]
  BY <1>1, <1>2 DEF BookInv
<1> DEFINE run == measured[j]
           n == Len(run.rows)
           L == Len(book[b])
           K == Seen(j, b, FALSE)
<1>4. /\ IsIn(j) /\ run.book = b /\ run.rows \in Measured[b] /\ run.rows # <<>>
  <2>1. IsIn(j) /\ run.book = b
    BY <1>1, <1>2, <1>3 DEF BookInv
  <2>2. run.at # "refused"
    BY <2>1 DEF IsIn
  <2> QED BY <1>1, <2>1, <2>2 DEF RunsInv
<1>5. /\ IsList(run.rows) /\ n \in Nat /\ n # 0 /\ DOMAIN run.rows = 1..n
      /\ \A k \in DOMAIN run.rows : run.rows[k][1] = "corpus" => k = 1
  <2>1. IsList(run.rows) /\ \A k \in DOMAIN run.rows : run.rows[k][1] = "corpus" => k = 1
    BY <1>4, BooksAssumption
  <2> QED BY <1>4, <2>1, Listed, EmptyList
<1>6. PICK off \in 0..L : StandsFrom(j, b, off)
  BY <1>1, <1>2, <1>3 DEF BookInv
<1>7. n <= L /\ \A k \in 1..n : book[b][L - n + k] = ThePages!RowOf(run, k)
  <2>1. EndsWhole(j, b)
    BY <1>1, <1>3 DEF BookInv
  <2> QED BY <2>1 DEF EndsWhole
<1>a. L \in Nat /\ off \in Nat
  BY <1>2 DEF L
<1>b. Lies(b, j, K, off)
  BY <1>2, <1>6, SeenLies
<1> HIDE DEF n, L, run
<1>8. \A k \in 1..n : /\ L - n + k \in K
                      /\ book[b][L - n + k].total = ThePages!TotalOf(run)
                      /\ book[b][L - n + k].behind = FALSE
                      /\ book[b][L - n + k].scope = run.rows[k][1]
  <2> TAKE k \in 1..n
  <2>1. L - n + k \in DOMAIN book[b]
    BY <1>2, <1>5, <1>7 DEF L
  <2>2. book[b][L - n + k] = ThePages!RowOf(run, k)
    BY <1>7
  <2>3. k \in DOMAIN run.rows
    BY <1>5
  <2> DEFINE line == book[b][L - n + k]
  <2> HIDE DEF line
  <2>4. /\ IsRowOf(ThePages!RowOf(run, k), run, k) /\ ThePages!Parses(ThePages!RowOf(run, k))
        /\ ThePages!RowOf(run, k).behind = FALSE
        /\ ThePages!RowOf(run, k).total = ThePages!TotalOf(run)
    BY <1>5, <2>3, FirstRow
  <2>5. /\ line.is = "row" /\ line.stamp = run.stamp /\ line.host = run.host
        /\ line.scope = run.rows[k][1]
    BY <2>2, <2>4, RowHas DEF line
  <2>6. ThePages!Parses(line) /\ line.behind = FALSE /\ line.total = ThePages!TotalOf(run)
    BY <2>2, <2>4, Zenon DEF line
  <2>7. L - n + k \in Its(j, b)
    BY <2>1, <2>5 DEF Its, line, run
  <2> QED BY <2>5, <2>6, <2>7 DEF Seen, line
<1>10. \A p \in K : p - off \in 1..n /\ p \in 1..L
  <2> TAKE p \in K
  <2>1. p - off \in DOMAIN run.rows
    BY <1>b DEF Lies, IsRowOf, run
  <2>2. p \in 1..L
    BY <1>2 DEF Seen, Its, L
  <2> QED BY <1>5, <2>1, <2>2
<1> HIDE DEF K
<1>11. off = L - n
  <2>1. 1 \in 1..n /\ n \in 1..n
    BY <1>5
  <2>2. L - n + 1 \in K /\ L - n + n \in K
    BY <1>8, <2>1
  <2>3. (L - n + 1) - off \in 1..n /\ (L - n + n) - off \in 1..n
    BY <1>10, <2>2
  <2> QED BY <1>5, <1>7, <1>a, <2>3
<1>12. \A p \in K : \E k \in 1..n : p = L - n + k
  <2> TAKE p \in K
  <2>1. p - off \in 1..n /\ p = L - n + (p - off)
    BY <1>5, <1>a, <1>10, <1>11
  <2> QED BY <2>1
<1>c. K \subseteq DOMAIN book[b]
  BY <1>2, <1>10 DEF L
<1>13. \A scope : Cardinality(Kept(b, K, scope)) = Cardinality(Had(run, scope))
  <2> TAKE scope
  <2>1. Kept(b, K, scope) \subseteq Int /\ IsFiniteSet(Kept(b, K, scope))
    <3>1. IsFiniteSet(Kept(b, K, scope)) /\ Kept(b, K, scope) \subseteq Nat
      BY <1>2, <1>c, ReadIs, Zenon
    <3> QED BY <3>1
  <2>2. Had(run, scope) = {p - off : p \in Kept(b, K, scope)}
    <3>1. ASSUME NEW k \in Had(run, scope) PROVE k \in {p - off : p \in Kept(b, K, scope)}
      <4>1. k \in 1..n /\ run.rows[k][1] = scope
        BY <1>5, <3>1 DEF Had
      <4>2. L - n + k \in K /\ book[b][L - n + k].scope = scope
        BY <1>8, <4>1
      <4>3. L - n + k \in Kept(b, K, scope)
        BY <4>2 DEF Kept
      <4>4. k = (L - n + k) - off
        BY <1>5, <1>a, <1>11, <4>1
      <4> QED BY <4>3, <4>4
    <3>2. ASSUME NEW p \in Kept(b, K, scope) PROVE p - off \in Had(run, scope)
      <4>1. p \in K /\ book[b][p].scope = scope
        BY DEF Kept
      <4>2. PICK k \in 1..n : p = L - n + k
        BY <1>12, <4>1
      <4>3. p - off = k
        BY <1>5, <1>a, <1>11, <4>2
      <4>4. run.rows[k][1] = scope
        BY <1>8, <4>1, <4>2
      <4> QED BY <1>5, <4>3, <4>4 DEF Had
    <3> QED BY <3>1, <3>2
  <2>3. off \in Int
    BY <1>a
  <2> QED BY <2>1, <2>2, <2>3, SameCount
<1>14. \A scope : Read(b, K, scope) = ThePages!Ratio(run, scope)
  <2> TAKE scope
  <2>1. Cardinality(Kept(b, K, scope)) = Cardinality(Had(measured[j], scope))
    BY <1>13 DEF run
  <2>2. IsList(measured[j].rows)
    BY <1>5 DEF run
  <2>3. IsList(book[b]) /\ off \in Nat
    BY <1>2, <1>a
  <2>4. Read(b, K, scope) = ThePages!Ratio(measured[j], scope)
    BY <1>b, <2>1, <2>2, <2>3, ScopesAreStretches
  <2> QED BY <2>4 DEF run
<1>15. K # {} /\ L \in K
  <2>1. n \in 1..n /\ L - n + n = L
    BY <1>5, <1>a
  <2>2. L - n + n \in K
    BY <1>8, <2>1
  <2> QED BY <2>1, <2>2
<1> DEFINE read == ThePages!Assembled(book[b], K)
<1>16. ThePages!Latest(book[b]) = read
  <2>1. L \in DOMAIN book[b] /\ ThePages!Parses(book[b][L]) /\ L \in Its(j, b)
    BY <1>15 DEF Seen, Its, K
  <2>2. PICK m \in DOMAIN order[b], behind \in BOOLEAN :
          /\ \E last \in Seen(order[b][m], b, behind) :
               \A p \in DOMAIN book[b] : ThePages!Parses(book[b][p]) => p <= last
          /\ ThePages!Latest(book[b]) = ThePages!Assembled(book[b], Seen(order[b][m], b, behind))
    BY <2>1, NewestIs
  <2>3. PICK last \in Seen(order[b][m], b, behind) :
          \A p \in DOMAIN book[b] : ThePages!Parses(book[b][p]) => p <= last
    BY <2>2
  <2>4. last \in 1..L /\ L <= last
    BY <1>2, <2>1, <2>3 DEF Seen, Its, L
  <2>5. last = L
    BY <1>a, <2>4
  <2>6. L \in Its(order[b][m], b) /\ book[b][L].behind = behind
    BY <2>3, <2>5 DEF Seen
  <2>7. /\ measured[order[b][m]].stamp = measured[j].stamp
        /\ measured[order[b][m]].host = measured[j].host
    BY <2>1, <2>6 DEF Its
  <2>8. order[b][m] = j
    BY <1>1, <2>7 DEF BookInv, RunsInv
  <2>9. book[b][L].behind = FALSE
    BY <1>15, Zenon DEF K, Seen
  <2>10. behind = FALSE
    BY <2>6, <2>9, Zenon
  <2> QED BY <2>2, <2>8, <2>10 DEF K
<1>17. /\ read = [behind |-> book[b][Nth(K, 1)].behind,
                  stamp |-> run.stamp, host |-> run.host, commit |-> run.commit,
                  total |-> book[b][Nth(K, 1)].total, overall |-> read.overall,
                  groups |-> Read(b, K, "group"), worst |-> Read(b, K, "worst")]
       /\ Nth(K, 1) \in K
       /\ read.overall = ThePages!AsMeasured(run).overall
  <2>1. Read(b, K, "corpus") = ThePages!Ratio(measured[j], "corpus")
    BY <1>14 DEF run
  <2>2. /\ IsList(book[b]) /\ off \in Nat /\ K # {} /\ IsList(measured[j].rows)
        /\ \A k \in DOMAIN measured[j].rows : measured[j].rows[k][1] = "corpus" => k = 1
    BY <1>2, <1>5, <1>a, <1>15 DEF run
  <2> QED BY <1>b, <2>1, <2>2, AssembledIs DEF run
<1>18. book[b][Nth(K, 1)].total = ThePages!TotalOf(run) /\ book[b][Nth(K, 1)].behind = FALSE
  BY <1>8, <1>12, <1>17, Zenon
<1> HIDE DEF read, K
<1> DEFINE overall == IF ThePages!Ratio(run, "corpus") = <<>> THEN 0
                      ELSE ThePages!Ratio(run, "corpus")[Len(ThePages!Ratio(run, "corpus"))]
<1>19. ThePages!AsMeasured(run) =
         [behind |-> FALSE, stamp |-> run.stamp, host |-> run.host, commit |-> run.commit,
          total |-> ThePages!TotalOf(run), overall |-> overall,
          groups |-> ThePages!Ratio(run, "group"), worst |-> ThePages!Ratio(run, "worst")]
  BY DEF ThePages!AsMeasured
<1> HIDE DEF overall
<1>20. ThePages!AsMeasured(run).overall = overall
  BY <1>19
<1>21. read = ThePages!AsMeasured(run)
  BY <1>14, <1>17, <1>18, <1>19, <1>20, Zenon
<1> QED BY <1>3, <1>16, <1>21 DEF run

\* Of one row there is at most one to read, in all the scopes together.
LEMMA OneRowIsRead ==
  ASSUME NEW b, IsList(book[b]), NEW K, K \subseteq DOMAIN book[b],
         \A p, q \in K : p = q
  PROVE  Len(Read(b, K, "group")) + Len(Read(b, K, "worst")) <= 1
<1> DEFINE G == Kept(b, K, "group")
           W == Kept(b, K, "worst")
<1>1. Len(Read(b, K, "group")) = Cardinality(G) /\ Len(Read(b, K, "worst")) = Cardinality(W)
  BY ReadIs, Zenon
<1>2. G = {} \/ W = {}
  BY DEF Kept
<1>3. \A p, q \in G : p = q
  BY DEF Kept
<1>4. \A p, q \in W : p = q
  BY DEF Kept
<1>5. ASSUME NEW S, \A p, q \in S : p = q PROVE S = {} \/ \E p : S = {p}
  <2>1. \A p \in S : S = {p}
    BY <1>5
  <2> QED BY <2>1
<1> HIDE DEF G, W
<1>6. Cardinality({}) = 0 /\ \A p : Cardinality({p}) = 1
  BY FS_EmptySet, FS_Singleton
<1>7. /\ G = {} \/ \E p : G = {p}
      /\ W = {} \/ \E p : W = {p}
  BY <1>3, <1>4, <1>5
<1>8. Cardinality(G) \in {0, 1} /\ Cardinality(W) \in {0, 1}
  BY <1>6, <1>7
<1>9. Cardinality(G) = 0 \/ Cardinality(W) = 0
  BY <1>2, <1>6
<1> QED BY <1>1, <1>8, <1>9

\* What is read of a book, and the run of it that it is of.
IsOfRun(read, before, k) ==
  LET run == measured[before[k]]
      full == ThePages!AsMeasured(run)
  IN  /\ run.stamp = read.stamp /\ run.host = read.host /\ run.commit = read.commit
      /\ read.overall \in {0, full.overall}
      /\ ThePages!Stretch(read.groups, full.groups) /\ ThePages!Stretch(read.worst, full.worst)
      /\ run.at = "written" => read.total = full.total
      /\ read.behind =>
           /\ \E m \in 1..(k - 1) : measured[before[m]].at = "torn"
           /\ Len(read.groups) + Len(read.worst) <= 1

LEMMA ReadsOneRun ==
  ASSUME BooksInv, NEW b \in DOMAIN Measured
  PROVE  LET read == ThePages!Latest(book[b])
             before == order[b]
         IN  /\ (\A k \in DOMAIN before : measured[before[k]].at = "written") =>
                  read = IF before = <<>> THEN ThePages!NoRun
                         ELSE ThePages!AsMeasured(measured[before[Len(before)]])
             /\ read # ThePages!NoRun => \E k \in DOMAIN before : IsOfRun(read, before, k)
<1> DEFINE read == ThePages!Latest(book[b])
           before == order[b]
<1>1. BookInv(b) /\ RunsInv
  BY DEF BooksInv
<1>2. IsList(before) /\ (before = <<>> <=> Len(before) = 0) /\ DOMAIN before = 1..Len(before)
  BY <1>1, EmptyList, Listed DEF BookInv
<1>3. ASSUME \A k \in DOMAIN before : measured[before[k]].at = "written"
      PROVE  read = IF before = <<>> THEN ThePages!NoRun
                    ELSE ThePages!AsMeasured(measured[before[Len(before)]])
  <2>1. CASE before = <<>>
    <3>1. DOMAIN before = {}
      BY <2>1
    <3>2. read = ThePages!NoRun
      BY <3>1, NewestIs
    <3> QED BY <2>1, <3>2
  <2>2. CASE before # <<>>
    <3>1. Len(order[b]) # 0
      BY <1>2, <2>2
    <3>2. read = ThePages!AsMeasured(measured[order[b][Len(order[b])]])
      BY <1>3, <3>1, WholeIs
    <3> QED BY <2>2, <3>2
  <2> QED BY <2>1, <2>2
<1>4. ASSUME read # ThePages!NoRun
      PROVE  \E k \in DOMAIN before : IsOfRun(read, before, k)
  <2>1. PICK k \in DOMAIN before, behind \in BOOLEAN :
          /\ Seen(before[k], b, behind) # {}
          /\ read = ThePages!Assembled(book[b], Seen(before[k], b, behind))
    BY <1>4, NewestIs
  <2>2. PICK j \in DOMAIN measured : j = before[k]
    BY <1>1 DEF BookInv
  <2> DEFINE run == measured[j]
             K == Seen(j, b, behind)
             first == Nth(K, 1)
  <2>3. /\ IsList(run.rows) /\ IsList(book[b])
        /\ \A n \in DOMAIN run.rows : run.rows[n][1] = "corpus" => n = 1
    <3>1. run.rows \in Measured[b] /\ IsList(book[b])
      BY <1>1, <2>2 DEF BookInv, RunsInv
    <3> QED BY <3>1, BooksAssumption
  <2>4. PICK off \in 0..Len(book[b]) : StandsFrom(j, b, off)
    BY <1>1, <2>2 DEF BookInv
  <2>5. off \in Nat
    BY <2>3, Listed
  <2>6. Lies(b, j, K, off) /\ (behind = TRUE => \A p, q \in K : p = q)
    BY <2>3, <2>4, SeenLies
  <2>7. K # {} /\ \A p \in K : p \in Its(j, b) /\ book[b][p].behind = behind
    BY <2>1, <2>2, Zenon DEF Seen
  <2> HIDE DEF K
  <2>8. /\ read = [behind |-> book[b][first].behind,
                   stamp |-> run.stamp, host |-> run.host, commit |-> run.commit,
                   total |-> book[b][first].total, overall |-> read.overall,
                   groups |-> Read(b, K, "group"), worst |-> Read(b, K, "worst")]
        /\ first \in K
        /\ read.overall = 0 \/ read.overall = ThePages!AsMeasured(run).overall
    BY <2>1, <2>2, <2>3, <2>5, <2>6, <2>7, AssembledIs DEF K
  <2>9. /\ ThePages!Stretch(Read(b, K, "group"), ThePages!Ratio(run, "group"))
        /\ ThePages!Stretch(Read(b, K, "worst"), ThePages!Ratio(run, "worst"))
    BY <2>3, <2>5, <2>6, ScopesAreStretches
  <2>10. /\ ThePages!AsMeasured(run).groups = ThePages!Ratio(run, "group")
         /\ ThePages!AsMeasured(run).worst = ThePages!Ratio(run, "worst")
         /\ ThePages!AsMeasured(run).total = ThePages!TotalOf(run)
    BY DEF ThePages!AsMeasured
  <2>11. run.at = "written" => book[b][first].total = ThePages!TotalOf(run)
    BY <2>4, <2>7, <2>8 DEF StandsFrom
  <2>12. ASSUME book[b][first].behind = TRUE
         PROVE  /\ \E m \in 1..(k - 1) : measured[before[m]].at = "torn"
                /\ Len(Read(b, K, "group")) + Len(Read(b, K, "worst")) <= 1
    <3>1. first \in Its(before[k], b) /\ book[b][first].behind = behind
      BY <2>2, <2>7, <2>8, Zenon
    <3>2. CutBefore(b, k)
      BY <1>1 DEF BookInv
    <3>3. \E m \in 1..(k - 1) : measured[before[m]].at = "torn"
      BY <2>12, <3>1, <3>2, Zenon DEF CutBefore
    <3>4. behind = TRUE
      BY <2>12, <3>1, Zenon
    <3>5. K \subseteq DOMAIN book[b]
      BY <2>7 DEF Its
    <3>6. Len(Read(b, K, "group")) + Len(Read(b, K, "worst")) <= 1
      BY <2>3, <2>6, <3>4, <3>5, OneRowIsRead
    <3> QED BY <3>3, <3>6
  <2>13. book[b][first].behind \in BOOLEAN
    BY <2>7, <2>8
  <2> HIDE DEF read, run, first
  <2>14. /\ read.stamp = run.stamp /\ read.host = run.host /\ read.commit = run.commit
         /\ read.groups = Read(b, K, "group") /\ read.worst = Read(b, K, "worst")
         /\ read.total = book[b][first].total
    BY <2>8
  <2>15. read.behind = book[b][first].behind
    <3> DEFINE x == book[b][first].behind
               total == book[b][first].total
               groups == Read(b, K, "group")
               worst == Read(b, K, "worst")
    <3>1. read = [behind |-> x, stamp |-> run.stamp, host |-> run.host, commit |-> run.commit,
                  total |-> total, overall |-> read.overall, groups |-> groups, worst |-> worst]
      BY <2>8
    <3> HIDE DEF x, total, groups, worst
    <3>2. read.behind = x
      BY <3>1
    <3> QED BY <3>2 DEF x
  <2>16. read.behind => book[b][first].behind = TRUE
    BY <2>13, <2>15
  <2>17. IsOfRun(read, before, k)
    <3>1. measured[before[k]] = run
      BY <2>2 DEF run
    <3>2. /\ run.stamp = read.stamp /\ run.host = read.host /\ run.commit = read.commit
          /\ read.overall \in {0, ThePages!AsMeasured(run).overall}
          /\ ThePages!Stretch(read.groups, ThePages!AsMeasured(run).groups)
          /\ ThePages!Stretch(read.worst, ThePages!AsMeasured(run).worst)
          /\ run.at = "written" => read.total = ThePages!AsMeasured(run).total
      BY <2>8, <2>9, <2>10, <2>11, <2>14
    <3>3. read.behind => /\ \E m \in 1..(k - 1) : measured[before[m]].at = "torn"
                         /\ Len(read.groups) + Len(read.worst) <= 1
      BY <2>12, <2>14, <2>16
    <3> HIDE DEF before
    <3> QED BY <3>1, <3>2, <3>3, Zenon DEF IsOfRun
  <2> QED BY <2>17
<1> QED BY <1>3, <1>4

\* What a page carries of a book, when the runs are these.
Carries(runs, p, b) ==
  LET read   == p.carried[b]
      before == p.before[b]
  IN  /\ (\A k \in DOMAIN before : runs[before[k]].at = "written") =>
           read = IF before = <<>> THEN ThePages!NoRun
                  ELSE ThePages!AsMeasured(runs[before[Len(before)]])
      /\ read # ThePages!NoRun =>
           \E k \in DOMAIN before :
             LET run  == runs[before[k]]
                 full == ThePages!AsMeasured(run)
             IN
             /\ run.stamp = read.stamp /\ run.host = read.host
             /\ read.overall \in {0, full.overall}
             /\ ThePages!Stretch(read.groups, full.groups)
             /\ ThePages!Stretch(read.worst, full.worst)
             /\ run.at = "written" => read.total = full.total
             /\ read.behind =>
                  /\ \E m \in 1..(k - 1) : runs[before[m]].at = "torn"
                  /\ Len(read.groups) + Len(read.worst) <= 1
             /\ (b \in p.apart) = (run.commit # p.commit \/ run.host # p.host)

LEMMA EachIsCarried ==
  /\ ThePages!PageCarriesOneRun <=>
       (page.at = "read" => \A b \in DOMAIN Measured : Carries(measured, page, b))
  /\ ThePages!PageCarriesOneRun' <=>
       (page'.at = "read" => \A b \in DOMAIN Measured : Carries(measured', page', b))
BY ZenonT(60) DEF ThePages!PageCarriesOneRun, ThePages!BOOKS, Carries

LEMMA CarriesStays ==
  ASSUME NEW runs, NEW new, NEW p, NEW b, IsList(p.before[b]), Carries(runs, p, b),
         \A k \in DOMAIN p.before[b] : new[p.before[b][k]] = runs[p.before[b][k]]
  PROVE  Carries(new, p, b)
<1> DEFINE read == p.carried[b]
           before == p.before[b]
<1>1. /\ DOMAIN before = 1..Len(before) /\ Len(before) \in Nat
      /\ before = <<>> <=> Len(before) = 0
  BY EmptyList, Listed
<1>2. \A k \in DOMAIN before : new[before[k]] = runs[before[k]]
  OBVIOUS
<1> HIDE DEF before, read
<1>3. before # <<>> => new[before[Len(before)]] = runs[before[Len(before)]]
  <2>1. before # <<>> => Len(before) \in DOMAIN before
    BY <1>1
  <2> QED BY <1>2, <2>1
<1>4. (\A k \in DOMAIN before : new[before[k]].at = "written") =>
        read = IF before = <<>> THEN ThePages!NoRun
               ELSE ThePages!AsMeasured(new[before[Len(before)]])
  BY <1>2, <1>3 DEF Carries, read, before
<1>5. ASSUME read # ThePages!NoRun, NEW k \in DOMAIN before
      PROVE  (\E m \in 1..(k - 1) : runs[before[m]].at = "torn")
               => \E m \in 1..(k - 1) : new[before[m]].at = "torn"
  <2>1. \A m \in 1..(k - 1) : m \in DOMAIN before
    BY <1>1
  <2> QED BY <1>2, <2>1
<1> DEFINE Of(run, k, torn) ==
             LET full == ThePages!AsMeasured(run)
             IN  /\ run.stamp = read.stamp /\ run.host = read.host
                 /\ read.overall \in {0, full.overall}
                 /\ ThePages!Stretch(read.groups, full.groups)
                 /\ ThePages!Stretch(read.worst, full.worst)
                 /\ run.at = "written" => read.total = full.total
                 /\ read.behind => torn /\ Len(read.groups) + Len(read.worst) <= 1
                 /\ (b \in p.apart) = (run.commit # p.commit \/ run.host # p.host)
<1>6. read # ThePages!NoRun => \E k \in DOMAIN before :
         Of(new[before[k]], k, \E m \in 1..(k - 1) : new[before[m]].at = "torn")
  <2> SUFFICES ASSUME read # ThePages!NoRun
               PROVE  \E k \in DOMAIN before :
                        Of(new[before[k]], k, \E m \in 1..(k - 1) : new[before[m]].at = "torn")
    OBVIOUS
  <2>1. PICK k \in DOMAIN before :
          Of(runs[before[k]], k, \E m \in 1..(k - 1) : runs[before[m]].at = "torn")
    BY Zenon DEF Carries, read, before
  <2>2. (\E m \in 1..(k - 1) : runs[before[m]].at = "torn")
          => \E m \in 1..(k - 1) : new[before[m]].at = "torn"
    BY <1>5
  <2>3. new[before[k]] = runs[before[k]]
    BY <1>2
  <2> QED BY <2>1, <2>2, <2>3, Zenon
<1> QED BY <1>4, <1>6, Zenon DEF Carries, read, before

LEMMA PageStays ==
  ASSUME ReadInv, ThePages!PageCarriesOneRun, RunsGoOn, page' = page
  PROVE  ReadInv' /\ ThePages!PageCarriesOneRun'
<1>1. CASE page.at # "read"
  BY <1>1 DEF ReadInv, ThePages!PageCarriesOneRun
<1>2. CASE page.at = "read"
  <2>1. \A b \in DOMAIN Measured : \A n \in DOMAIN page.before[b] :
          /\ page.before[b][n] \in DOMAIN measured' /\ IsIn(page.before[b][n])
          /\ measured'[page.before[b][n]] = measured[page.before[b][n]]
    BY <1>2 DEF ReadInv, RunsGoOn
  <2>2. ReadInv'
    BY <2>1 DEF ReadInv, IsIn
  <2>3. ASSUME NEW b \in DOMAIN Measured PROVE Carries(measured', page, b)
    <3>1. Carries(measured, page, b)
      BY <1>2, EachIsCarried
    <3>2. IsList(page.before[b])
      BY <1>2 DEF ReadInv
    <3>3. PICK new : new = measured'
      OBVIOUS
    <3>4. Carries(new, page, b)
      BY <2>1, <3>1, <3>2, <3>3, CarriesStays
    <3> QED BY <3>3, <3>4
  <2>4. ThePages!PageCarriesOneRun'
    BY <2>3, EachIsCarried
  <2> QED BY <2>2, <2>4
<1> QED BY <1>1, <1>2

LEMMA PageIsNot ==
  ASSUME "at" \in DOMAIN page', page'.at # "read"
  PROVE  ReadInv' /\ ThePages!PageCarriesOneRun'
BY DEF ReadInv, ThePages!PageCarriesOneRun

LEMMA BooksStay ==
  ASSUME BooksInv, RunsInv', RunsGoOn, UNCHANGED <<book, order, open>>
  PROVE  BooksInv'
<1>1. \A b \in DOMAIN Measured : BookInv(b)'
  <2> TAKE b \in DOMAIN Measured
  <2>1. BookInv(b) /\ book'[b] = book[b] /\ order'[b] = order[b] /\ (b \in open' => b \in open)
    BY DEF BooksInv
  <2> QED BY <2>1, BookStays
<1> QED BY <1>1 DEF BooksInv

LEMMA SameRuns ==
  ASSUME RunsInv, measured' = measured
  PROVE  RunsInv' /\ RunsGoOn
BY DEF RunsInv, RunsGoOn

LEMMA MeasuringKeeps == ASSUME PagesInv, ThePages!Measure PROVE PagesInv'
<1>1. PICK b \in DOMAIN Measured, m \in Machines : \E list \in Measured[b] :
        /\ \A i \in DOMAIN measured : ~(measured[i].stamp = clock /\ measured[i].host = m)
        /\ measured' = Append(measured,
             [book |-> b, stamp |-> clock, host |-> m, commit |-> commit, rows |-> list,
              fresh |-> FALSE, at |-> IF list = <<>> THEN "refused" ELSE "measured"])
  BY DEF ThePages!Measure, ThePages!BOOKS
<1>2. PICK list \in Measured[b] :
        /\ \A i \in DOMAIN measured : ~(measured[i].stamp = clock /\ measured[i].host = m)
        /\ measured' = Append(measured,
             [book |-> b, stamp |-> clock, host |-> m, commit |-> commit, rows |-> list,
              fresh |-> FALSE, at |-> IF list = <<>> THEN "refused" ELSE "measured"])
  BY <1>1
<1> DEFINE at == IF list = <<>> THEN "refused" ELSE "measured"
           run == [book |-> b, stamp |-> clock, host |-> m, commit |-> commit, rows |-> list,
                   fresh |-> FALSE, at |-> at]
           n == Len(measured)
<1>3. RunsInv
  BY DEF PagesInv, BooksInv
<1> HIDE DEF at
<1>4. /\ run.book = b /\ run.stamp = clock /\ run.host = m /\ run.rows = list /\ run.at = at
      /\ run = [book |-> run.book, stamp |-> run.stamp, host |-> run.host, commit |-> run.commit,
                rows |-> run.rows, fresh |-> run.fresh, at |-> run.at]
      /\ (run.at # "refused" => list # <<>>)
  BY DEF at
<1>5. measured' = Append(measured, run)
  BY <1>2 DEF at
<1> HIDE DEF run
<1>6. /\ IsList(measured') /\ n \in Nat /\ DOMAIN measured = 1..n
      /\ DOMAIN measured' = 1..(n + 1)
      /\ \A i \in 1..(n + 1) : measured'[i] = IF i <= n THEN measured[i] ELSE run
  <2>1. IsList(measured)
    BY <1>3 DEF RunsInv
  <2>2. n \in Nat /\ DOMAIN measured = 1..n
    BY <2>1, Listed
  <2>3. /\ IsList(Append(measured, run)) /\ DOMAIN Append(measured, run) = 1..(n + 1)
        /\ \A i \in 1..(n + 1) : Append(measured, run)[i] = IF i <= n THEN measured[i] ELSE run
    <3> HIDE DEF n
    <3>1. n = Len(measured)
      BY DEF n
    <3> QED BY <2>1, <3>1, Appended
  <2> QED BY <1>5, <2>2, <2>3
<1> HIDE DEF n
<1>7. \A i \in 1..n : i \in 1..(n + 1) /\ measured'[i] = measured[i]
  BY <1>6
<1>8. \A i \in 1..(n + 1) : i \in 1..n \/ (measured'[i] = run /\ i = n + 1)
  BY <1>6
<1>9. ASSUME NEW i \in DOMAIN measured'
      PROVE  /\ measured'[i] = [book |-> measured'[i].book, stamp |-> measured'[i].stamp,
                                host |-> measured'[i].host, commit |-> measured'[i].commit,
                                rows |-> measured'[i].rows, fresh |-> measured'[i].fresh,
                                at |-> measured'[i].at]
             /\ measured'[i].book \in DOMAIN Measured
             /\ measured'[i].rows \in Measured[measured'[i].book]
             /\ measured'[i].at # "refused" => measured'[i].rows # <<>>
  <2>1. CASE i \in 1..n
    BY <1>3, <1>6, <1>7, <2>1 DEF RunsInv
  <2>2. CASE i \notin 1..n
    <3>1. measured'[i] = run
      BY <1>6, <1>8, <2>2
    <3> QED BY <1>4, <3>1
  <2> QED BY <2>1, <2>2
<1>10. ASSUME NEW i \in DOMAIN measured', NEW j \in DOMAIN measured',
              measured'[i].stamp = measured'[j].stamp, measured'[i].host = measured'[j].host
       PROVE  i = j
  <2>1. CASE i \in 1..n /\ j \in 1..n
    BY <1>3, <1>6, <1>7, <1>10, <2>1 DEF RunsInv
  <2>2. CASE i \in 1..n /\ j \notin 1..n
    <3>1. measured'[j] = run /\ measured'[i] = measured[i] /\ i \in DOMAIN measured
      BY <1>6, <1>7, <1>8, <2>2
    <3> QED BY <1>2, <1>4, <1>10, <3>1
  <2>3. CASE i \notin 1..n /\ j \in 1..n
    <3>1. measured'[i] = run /\ measured'[j] = measured[j] /\ j \in DOMAIN measured
      BY <1>6, <1>7, <1>8, <2>3
    <3> QED BY <1>2, <1>4, <1>10, <3>1
  <2>4. CASE i \notin 1..n /\ j \notin 1..n
    BY <1>6, <1>8, <2>4
  <2> QED BY <2>1, <2>2, <2>3, <2>4
<1>11. RunsInv' /\ RunsGoOn
  <2>1. RunsGoOn
    BY <1>6, <1>7 DEF RunsGoOn
  <2> QED BY <1>6, <1>9, <1>10, <2>1 DEF RunsInv
<1> QED BY <1>11, BooksStay, PageStays DEF PagesInv, ThePages!Measure

LEMMA LookingKeeps == ASSUME PagesInv, ThePages!LookForBook PROVE PagesInv'
<1>1. PICK i \in DOMAIN measured :
        /\ measured[i].at = "measured"
        /\ measured' = [measured EXCEPT ![i].at = "looked",
                                        ![i].fresh = order[measured[i].book] = <<>>]
  BY DEF ThePages!LookForBook
<1> DEFINE fresh == order[measured[i].book] = <<>>
<1>2. RunsInv
  BY DEF PagesInv, BooksInv
<1>3. IsRun(measured[i]) /\ IsList(measured)
  BY <1>2 DEF RunsInv, IsRun
<1>4. Differ(measured, measured', i, With(measured[i], "looked", fresh))
  BY <1>1, <1>3, TwoFieldsChange, Zenon
<1> HIDE DEF fresh
<1>5. Moved(i, "looked")
  <2>1. measured'[i].fresh = fresh
    BY <1>4 DEF With, Differ
  <2>2. ~IsIn(i) /\ measured[i].at # "refused"
    BY <1>1 DEF IsIn
  <2> QED BY <1>4, <2>1, <2>2 DEF Moved, With, Differ
<1>6. RunsInv' /\ RunsGoOn
  BY <1>2, <1>5, RunMoves
<1> QED BY <1>6, BooksStay, PageStays DEF PagesInv, ThePages!LookForBook

LEMMA WrittenKeeps ==
  ASSUME PagesInv, NEW i, NEW b, NEW added, NEW to, Wrote(i, b, added, to), page' = page
  PROVE  PagesInv'
<1>1. BooksInv'
  BY WroteKeeps DEF PagesInv
<1>2. RunsGoOn
  BY RunMoves DEF PagesInv, BooksInv, Wrote
<1> QED BY <1>1, <1>2, PageStays DEF PagesInv

\* Only how far a run is changes when it is written.
LEMMA WritingMoves ==
  ASSUME RunsInv, NEW i \in DOMAIN measured, measured[i].at = "looked",
         NEW to, to \in {"written", "torn"}, measured' = [measured EXCEPT ![i].at = to]
  PROVE  Moved(i, to)
<1>1. IsRun(measured[i]) /\ IsList(measured)
  BY DEF RunsInv, IsRun
<1>2. Differ(measured, measured', i, With(measured[i], to, measured[i].fresh))
  BY <1>1, FieldChanges, Zenon
<1>3. measured'[i].fresh = measured[i].fresh
  BY <1>2 DEF With, Differ
<1>4. ~IsIn(i) /\ measured[i].at # "refused" /\ to # "refused"
  BY DEF IsIn
<1> QED BY <1>2, <1>3, <1>4 DEF Moved, With, Differ

LEMMA TextOfARun ==
  ASSUME RunsInv, NEW i \in DOMAIN measured, measured[i].at = "looked"
  PROVE  /\ IsList(ThePages!Text(measured[i])) /\ Len(ThePages!Text(measured[i])) \in Nat
         /\ Len(ThePages!Text(measured[i])) # 0
         /\ DOMAIN ThePages!Text(measured[i]) = 1..Len(ThePages!Text(measured[i]))
<1>1. IsList(measured[i].rows) /\ measured[i].rows # <<>>
  BY BooksAssumption DEF RunsInv
<1>2. Len(measured[i].rows) # 0 /\ Len(measured[i].rows) \in Nat
  BY <1>1, EmptyList, Listed
<1>3. /\ IsList(ThePages!Text(measured[i]))
      /\ Len(ThePages!Text(measured[i])) = Above(measured[i]) + Len(measured[i].rows)
      /\ Above(measured[i]) \in {0, 1}
  BY <1>1, TextIs
<1> QED BY <1>2, <1>3, Listed

LEMMA AppendingKeeps == ASSUME PagesInv, ThePages!AppendRows PROVE PagesInv'
<1>1. PICK i \in DOMAIN measured :
        /\ measured[i].at = "looked"
        /\ book' = [book EXCEPT ![measured[i].book] =
                      ThePages!Onto(@, measured[i].book \notin open, ThePages!Text(measured[i]))]
        /\ open' = open \ {measured[i].book}
        /\ measured' = [measured EXCEPT ![i].at = "written"]
        /\ order' = [order EXCEPT ![measured[i].book] = Append(@, i)]
  BY DEF ThePages!AppendRows
<1> DEFINE b == measured[i].book
           added == ThePages!Text(measured[i])
<1>2. RunsInv
  BY DEF PagesInv, BooksInv
<1>3. IsList(added) /\ Len(added) \in Nat /\ Len(added) # 0
  BY <1>1, <1>2, TextOfARun
<1>4. IsPartOf(added, measured[i])
  <2>1. added[Len(added)] \in ThePages!Cut(added[Len(added)])
    BY DEF ThePages!Cut
  <2>2. Len(added) \in 1..Len(added)
    BY <1>3
  <2> QED BY <1>3, <2>1, <2>2 DEF IsPartOf
<1>5. Moved(i, "written")
  BY <1>1, <1>2, WritingMoves
<1>6. Wrote(i, b, added, "written")
  BY <1>1, <1>4, <1>5 DEF Wrote
<1> QED BY <1>6, WrittenKeeps DEF ThePages!AppendRows

\* The first lines of a text.
LEMMA FrontIs ==
  ASSUME NEW s, IsList(s), NEW k \in 0..Len(s)
  PROVE  /\ IsList(SubSeq(s, 1, k)) /\ Len(SubSeq(s, 1, k)) = k
         /\ \A q \in 1..k : SubSeq(s, 1, k)[q] = s[q]
<1> DEFINE E == Range(s)
           front == SubSeq(s, 1, k)
<1>1. s \in Seq(E) /\ DOMAIN s = 1..Len(s) /\ Len(s) \in Nat
  BY Listed DEF IsList
<1>2. k \in Nat /\ k <= Len(s)
  BY <1>1
<1> HIDE DEF E
<1>3. \A x \in 1..k : s[x] \in E
  BY <1>1, <1>2
<1>4. /\ front \in Seq(E) /\ Len(front) = IF 1 <= k THEN k - 1 + 1 ELSE 0
      /\ \A x \in 1..(k - 1 + 1) : front[x] = s[1 + x - 1]
  <2>1. 1 \in Int /\ k \in Int
    BY <1>2
  <2> QED BY <1>3, <2>1, SubSeqProperties
<1> HIDE DEF front
<1>5. Len(front) = k
  BY <1>2, <1>4
<1>6. ASSUME NEW q \in 1..k PROVE front[q] = s[q]
  <2>1. q \in 1..(k - 1 + 1) /\ 1 + q - 1 = q
    BY <1>2
  <2> QED BY <1>4, <2>1
<1>7. IsList(front)
  BY <1>4, IsListOf
<1> QED BY <1>5, <1>6, <1>7 DEF front

LEMMA TearingKeeps == ASSUME PagesInv, ThePages!TearRows PROVE PagesInv'
<1>1. PICK i \in DOMAIN measured :
        /\ measured[i].at = "looked"
        /\ \E k \in DOMAIN ThePages!Text(measured[i]) :
             \E cut \in ThePages!Cut(ThePages!Text(measured[i])[k]) :
               book' = [book EXCEPT ![measured[i].book] =
                          ThePages!Onto(@, measured[i].book \notin open,
                                        Append(SubSeq(ThePages!Text(measured[i]), 1, k - 1), cut))]
        /\ open' = open \cup {measured[i].book}
        /\ measured' = [measured EXCEPT ![i].at = "torn"]
        /\ order' = [order EXCEPT ![measured[i].book] = Append(@, i)]
  BY DEF ThePages!TearRows
<1> DEFINE b == measured[i].book
           whole == ThePages!Text(measured[i])
<1>11. PICK k \in DOMAIN whole : \E cut \in ThePages!Cut(whole[k]) :
        book' = [book EXCEPT ![b] =
                   ThePages!Onto(@, b \notin open, Append(SubSeq(whole, 1, k - 1), cut))]
  BY <1>1
<1>2. PICK cut \in ThePages!Cut(whole[k]) :
        book' = [book EXCEPT ![b] =
                   ThePages!Onto(@, b \notin open, Append(SubSeq(whole, 1, k - 1), cut))]
  BY <1>11
<1>3. RunsInv
  BY DEF PagesInv, BooksInv
<1>4. IsList(whole) /\ Len(whole) \in Nat /\ DOMAIN whole = 1..Len(whole)
  BY <1>1, <1>3, TextOfARun
<1> DEFINE front == SubSeq(whole, 1, k - 1)
           added == Append(front, cut)
<1>5. /\ IsList(front) /\ Len(front) = k - 1 /\ k \in Nat /\ k # 0
      /\ \A q \in 1..(k - 1) : front[q] = whole[q]
  <2>1. k \in Nat /\ k # 0 /\ k - 1 \in 0..Len(whole)
    BY <1>4
  <2> QED BY <1>4, <2>1, FrontIs
<1> HIDE DEF front
<1>6. /\ IsList(added) /\ Len(added) = k
      /\ \A q \in 1..k : added[q] = IF q <= k - 1 THEN front[q] ELSE cut
  <2>1. /\ IsList(added) /\ Len(added) = Len(front) + 1
        /\ \A q \in 1..(Len(front) + 1) : added[q] = IF q <= Len(front) THEN front[q] ELSE cut
    BY <1>5, Appended
  <2>2. Len(front) + 1 = k
    BY <1>5
  <2> QED BY <1>5, <2>1, <2>2
<1> HIDE DEF added
<1>7. IsPartOf(added, measured[i])
  <2>1. Len(added) \in 1..Len(whole)
    BY <1>4, <1>6
  <2>2. \A q \in 1..(Len(added) - 1) : added[q] = whole[q]
    BY <1>5, <1>6
  <2>3. added[Len(added)] \in ThePages!Cut(whole[Len(added)])
    <3>1. added[k] = cut
      BY <1>5, <1>6
    <3> QED BY <1>6, <3>1
  <2> QED BY <1>6, <2>1, <2>2, <2>3 DEF IsPartOf
<1>8. Moved(i, "torn")
  BY <1>1, <1>3, WritingMoves
<1>9. book' = [book EXCEPT ![b] = ThePages!Onto(book[b], b \notin open, added)]
  BY <1>2 DEF added, front
<1>10. Wrote(i, b, added, "torn")
  BY <1>1, <1>7, <1>8, <1>9 DEF Wrote
<1> QED BY <1>10, WrittenKeeps DEF ThePages!TearRows

\* A run of which nothing was written is in its book all the same, and has no rows there.
LEMMA NothingWritten ==
  ASSUME BooksInv, NEW i, NEW b, Moved(i, "torn"), measured[i].book = b,
         book' = book, open' = open, order' = [order EXCEPT ![b] = Append(order[b], i)]
  PROVE  BooksInv'
<1> DEFINE n == Len(order[b])
<1>1. /\ RunsInv' /\ RunsGoOn /\ measured'[i].at = "torn" /\ measured'[i].book = b
      /\ ~IsIn(i) /\ DOMAIN measured' = DOMAIN measured /\ i \in DOMAIN measured
      /\ measured'[i].stamp = measured[i].stamp /\ measured'[i].host = measured[i].host
  BY RunMoves DEF BooksInv, Moved
<1>2. b \in DOMAIN Measured /\ BookInv(b) /\ IsList(book[b])
  BY <1>1 DEF BooksInv, RunsInv, BookInv
<1>3. order'[b] = Append(order[b], i) /\ \A c \in DOMAIN Measured : c # b => order'[c] = order[c]
  BY <1>2 DEF BooksInv
<1>4. ASSUME NEW c \in DOMAIN Measured, c # b PROVE BookInv(c)'
  <2>1. BookInv(c)
    BY DEF BooksInv
  <2> QED BY <1>1, <1>3, <1>4, <2>1, BookStays
<1>5. /\ IsList(order[b]) /\ n \in Nat /\ DOMAIN order[b] = 1..n
      /\ IsList(order'[b]) /\ Len(order'[b]) = n + 1 /\ DOMAIN order'[b] = 1..(n + 1)
      /\ \A m \in 1..(n + 1) : order'[b][m] = IF m <= n THEN order[b][m] ELSE i
  <2>1. IsList(order[b])
    BY <1>2 DEF BookInv
  <2> QED BY <1>3, <2>1, Listed, Appended
<1> HIDE DEF n
<1>6. \A m \in 1..n : /\ order'[b][m] = order[b][m] /\ order[b][m] \in DOMAIN measured
                      /\ IsIn(order[b][m]) /\ measured[order[b][m]].book = b /\ order[b][m] # i
                      /\ measured'[order[b][m]] = measured[order[b][m]]
  BY <1>1, <1>2, <1>5 DEF BookInv, RunsGoOn
<1>7. order'[b][n + 1] = i /\ n + 1 \in DOMAIN order'[b]
  BY <1>5
<1>8. ASSUME NEW m \in 1..n, NEW j, j = order[b][m]
      PROVE  /\ j = order'[b][m] /\ j \in DOMAIN measured' /\ IsIn(j)'
             /\ measured'[j] = measured[j] /\ measured'[j].book = b /\ Its(j, b)' = Its(j, b)
             /\ \A off : StandsFrom(j, b, off)' <=> StandsFrom(j, b, off)
  <2>1. /\ j = order'[b][m] /\ j \in DOMAIN measured' /\ IsIn(j)
        /\ measured'[j] = measured[j] /\ measured'[j].book = b
    BY <1>1, <1>6, <1>8
  <2>2. j \in DOMAIN measured
    BY <1>6, <1>8
  <2>3. /\ IsIn(j)' /\ Its(j, b)' = Its(j, b)
        /\ \A off : StandsFrom(j, b, off)' <=> StandsFrom(j, b, off)
    BY <1>1, <2>1, <2>2, StandStays
  <2> QED BY <2>1, <2>2, <2>3
<1>9. Its(i, b)' = {}
  <2> SUFFICES ASSUME NEW p \in Its(i, b)' PROVE FALSE
    OBVIOUS
  <2>1. /\ p \in DOMAIN book[b] /\ book[b][p].is = "row"
        /\ book[b][p].stamp = measured[i].stamp /\ book[b][p].host = measured[i].host
    BY <1>1 DEF Its
  <2>2. PICK m \in DOMAIN order[b] : p \in Its(order[b][m], b)
    BY <1>2, <2>1 DEF BookInv
  <2>3. order[b][m] \in DOMAIN measured /\ order[b][m] # i
    BY <1>5, <1>6, <2>2
  <2>4. /\ measured[order[b][m]].stamp = measured[i].stamp
        /\ measured[order[b][m]].host = measured[i].host
    BY <2>1, <2>2 DEF Its
  <2> QED BY <1>1, <2>3, <2>4 DEF BooksInv, RunsInv
<1>10. ASSUME NEW m \in 1..(n + 1)
       PROVE  /\ order'[b][m] \in DOMAIN measured' /\ IsIn(order[b][m])'
              /\ measured'[order'[b][m]].book = b
              /\ \E off \in 0..Len(book'[b]) : StandsFrom(order[b][m], b, off)'
              /\ CutBefore(b, m)'
  <2>1. CASE m = n + 1
    <3>1. PICK j : j = i /\ j = order'[b][m]
      BY <1>7, <2>1
    <3>2. Its(j, b)' = {} /\ measured'[j].at = "torn"
      BY <1>1, <1>9, <3>1
    <3>3. StandsFrom(j, b, 0)'
      BY <3>2 DEF StandsFrom
    <3>4. 0 \in 0..Len(book'[b])
      BY <1>2, Listed
    <3>5. CutBefore(b, m)'
      BY <3>1, <3>2 DEF CutBefore
    <3> QED BY <1>1, <3>1, <3>2, <3>3, <3>4, <3>5 DEF IsIn
  <2>2. CASE m # n + 1
    <3>1. m \in 1..n /\ m \in DOMAIN order[b]
      BY <1>5, <2>2
    <3>2. PICK j : j = order[b][m]
      OBVIOUS
    <3>3. /\ j = order'[b][m] /\ j \in DOMAIN measured' /\ IsIn(j)'
          /\ measured'[j] = measured[j] /\ measured'[j].book = b /\ Its(j, b)' = Its(j, b)
          /\ \A off : StandsFrom(j, b, off)' <=> StandsFrom(j, b, off)
      BY <1>8, <3>1, <3>2
    <3>4. PICK off \in 0..Len(book[b]) : StandsFrom(j, b, off)
      BY <1>2, <3>1, <3>2 DEF BookInv
    <3>5. CutBefore(b, m)
      BY <1>2, <3>1 DEF BookInv
    <3>6. \A k \in 1..(m - 1) : k \in 1..n
      BY <1>5, <3>1
    <3>7. CutBefore(b, m)'
      <4>1. ASSUME NEW p \in Its(order[b][m], b), book[b][p].behind = TRUE
            PROVE  \E k \in 1..(m - 1) : measured'[order'[b][k]].at = "torn"
        <5>1. PICK k \in 1..(m - 1) : measured[order[b][k]].at = "torn"
          BY <3>5, <4>1 DEF CutBefore
        <5> QED BY <1>6, <3>6, <5>1
      <4>2. b \in open' /\ Len(book'[b]) \in Its(order[b][m], b)
              => measured'[order'[b][m]].at = "torn"
        BY <3>2, <3>3, <3>5 DEF CutBefore
      <4>3. Its(order[b][m], b)' = Its(order[b][m], b)
        BY <3>2, <3>3
      <4> QED BY <4>1, <4>2, <4>3 DEF CutBefore
    <3>8. \E from \in 0..Len(book'[b]) : StandsFrom(order[b][m], b, from)'
      BY <3>3, <3>4
    <3>9. IsIn(order[b][m])'
      BY <3>3
    <3> QED BY <3>3, <3>7, <3>8, <3>9
  <2> QED BY <2>1, <2>2
<1>11. ASSUME NEW p \in DOMAIN book'[b], book'[b][p].is = "row"
       PROVE  \E m \in DOMAIN order'[b] : p \in Its(order[b][m], b)'
  <2>1. PICK m \in DOMAIN order[b] : p \in Its(order[b][m], b)
    BY <1>2, <1>11 DEF BookInv
  <2>2. m \in 1..n /\ m \in DOMAIN order'[b]
    BY <1>5, <2>1
  <2>3. PICK j : j = order[b][m]
    OBVIOUS
  <2>4. j = order'[b][m] /\ Its(j, b)' = Its(j, b)
    BY <1>8, <2>2, <2>3
  <2>5. p \in Its(order[b][m], b)'
    BY <2>1, <2>3, <2>4
  <2> QED BY <2>2, <2>5
<1>12. b \in open' => Len(book'[b]) # 0 /\ \E m \in DOMAIN order'[b] : measured'[order'[b][m]].at = "torn"
  BY <1>1, <1>2, <1>7 DEF BookInv
<1>13. ~(\A m \in DOMAIN order'[b] : measured'[order'[b][m]].at = "written")
  BY <1>1, <1>7
<1>14. BookInv(b)'
  BY <1>2, <1>5, <1>10, <1>11, <1>12, <1>13 DEF BookInv
<1>15. book' \in [DOMAIN Measured -> Range(book')] /\ order' \in [DOMAIN Measured -> Range(order')]
  <2>1. DOMAIN order = DOMAIN Measured /\ order \in [DOMAIN Measured -> Range(order)]
    BY DEF BooksInv
  <2> DEFINE new == [order EXCEPT ![b] = Append(order[b], i)]
  <2>2. new = [c \in DOMAIN Measured |-> new[c]] /\ DOMAIN new = DOMAIN Measured
    BY <2>1
  <2> HIDE DEF new
  <2>3. \A c \in DOMAIN Measured : new[c] \in Range(new)
    BY <2>2 DEF Range
  <2>4. new \in [DOMAIN Measured -> Range(new)]
    BY <2>2, <2>3
  <2> QED BY <2>4 DEF new, BooksInv
<1> QED BY <1>1, <1>4, <1>14, <1>15 DEF BooksInv

LEMMA StoppingKeeps == ASSUME PagesInv, ThePages!StopRows PROVE PagesInv'
<1>1. PICK i \in DOMAIN measured :
        /\ measured[i].at = "looked"
        /\ \E k \in 0..(Len(ThePages!Text(measured[i])) - 1) :
             /\ book' = [book EXCEPT ![measured[i].book] =
                           ThePages!Onto(@, measured[i].book \notin open,
                                         SubSeq(ThePages!Text(measured[i]), 1, k))]
             /\ open' = IF k = 0 THEN open ELSE open \ {measured[i].book}
        /\ measured' = [measured EXCEPT ![i].at = "torn"]
        /\ order' = [order EXCEPT ![measured[i].book] = Append(@, i)]
  BY DEF ThePages!StopRows
<1> DEFINE b == measured[i].book
           whole == ThePages!Text(measured[i])
<1>2. PICK k \in 0..(Len(whole) - 1) :
        /\ book' = [book EXCEPT ![b] = ThePages!Onto(@, b \notin open, SubSeq(whole, 1, k))]
        /\ open' = IF k = 0 THEN open ELSE open \ {b}
  BY <1>1
<1>3. BooksInv /\ RunsInv /\ b \in DOMAIN Measured /\ IsList(book[b])
  BY DEF PagesInv, BooksInv, BookInv, RunsInv
<1>4. IsList(whole) /\ Len(whole) \in Nat /\ DOMAIN whole = 1..Len(whole)
  BY <1>1, <1>3, TextOfARun
<1> DEFINE added == SubSeq(whole, 1, k)
<1>5. /\ IsList(added) /\ Len(added) = k /\ k \in 0..Len(whole) /\ k \in Nat
      /\ \A q \in 1..k : added[q] = whole[q]
  <2>1. k \in 0..Len(whole) /\ k \in Nat
    BY <1>4
  <2> QED BY <1>4, <2>1, FrontIs
<1>6. Moved(i, "torn")
  BY <1>1, <1>3, WritingMoves
<1>7. /\ book' = [book EXCEPT ![b] = ThePages!Onto(book[b], b \notin open, added)]
      /\ order' = [order EXCEPT ![b] = Append(order[b], i)]
  BY <1>1, <1>2
<1> HIDE DEF added, whole
<1>8. CASE k = 0
  <2>1. added = <<>>
    BY <1>5, <1>8, EmptyList
  <2>2. ThePages!Onto(book[b], b \notin open, added) = book[b]
    <3>1. ThePages!Onto(book[b], b \notin open, added) = book[b] \o <<>>
      BY <2>1 DEF ThePages!Onto
    <3>2. book[b] \in Seq(Range(book[b]))
      BY <1>3 DEF IsList
    <3>3. book[b] \o <<>> = book[b]
      BY <3>2, ConcatEmptySeq, Zenon
    <3> QED BY <3>1, <3>3
  <2>3. book' = book
    BY <1>3, <1>7, <2>2 DEF BooksInv
  <2>4. BooksInv' /\ RunsGoOn
    <3>1. BooksInv'
      BY <1>2, <1>3, <1>6, <1>7, <1>8, <2>3, NothingWritten
    <3> QED BY <1>3, <1>6, <3>1, RunMoves
  <2> QED BY <2>4, PageStays DEF PagesInv, ThePages!StopRows
<1>9. CASE k # 0
  <2>1. IsPartOf(added, measured[i])
    <3>1. Len(added) \in 1..Len(whole)
      BY <1>4, <1>5, <1>9
    <3>2. \A q \in 1..(Len(added) - 1) : added[q] = whole[q]
      BY <1>5
    <3>3. added[Len(added)] \in ThePages!Cut(whole[Len(added)])
      <4>1. added[k] = whole[k]
        BY <1>5, <1>9
      <4>2. whole[k] \in ThePages!Cut(whole[k])
        BY DEF ThePages!Cut
      <4> QED BY <1>5, <4>1, <4>2
    <3> QED BY <1>5, <3>1, <3>2, <3>3 DEF IsPartOf, whole
  <2>2. Wrote(i, b, added, "torn")
    BY <1>2, <1>6, <1>7, <1>9, <2>1 DEF Wrote
  <2> QED BY <2>2, WrittenKeeps DEF ThePages!StopRows
<1> QED BY <1>8, <1>9

LEMMA TickKeeps == ASSUME PagesInv, ThePages!Tick PROVE PagesInv'
<1>1. RunsInv' /\ RunsGoOn
  BY SameRuns DEF PagesInv, BooksInv, ThePages!Tick
<1> QED BY <1>1, BooksStay, PageStays DEF PagesInv, ThePages!Tick

\* What leaves the books alone, and is not a reading of them.
LEMMA ReportingKeeps ==
  ASSUME PagesInv, UNCHANGED <<book, open, measured, order>>, "at" \in DOMAIN page', page'.at # "read"
  PROVE  PagesInv'
<1>1. RunsInv' /\ RunsGoOn
  BY SameRuns DEF PagesInv, BooksInv
<1> QED BY <1>1, BooksStay, PageIsNot DEF PagesInv

LEMMA StartingKeeps == ASSUME PagesInv, ThePages!StartReport PROVE PagesInv'
<1>1. PICK m \in Machines :
        page' = [at |-> "gathered", stamp |-> clock, host |-> m, commit |-> commit]
  BY DEF ThePages!StartReport
<1>2. "at" \in DOMAIN page' /\ page'.at = "gathered"
  BY <1>1
<1> QED BY <1>2, ReportingKeeps DEF ThePages!StartReport

LEMMA PageWritingKeeps == ASSUME PagesInv, ThePages!WritePage PROVE PagesInv'
<1>1. "at" \in DOMAIN page /\ page' = [page EXCEPT !.at = "written"]
  BY DEF ThePages!WritePage, PagesInv, ReadInv
<1>2. "at" \in DOMAIN page' /\ page'.at = "written"
  BY <1>1
<1> QED BY <1>2, ReportingKeeps DEF ThePages!WritePage

LEMMA LeavingKeeps == ASSUME PagesInv, ThePages!WriteRow \/ ThePages!LoseReport PROVE PagesInv'
<1>1. page' = [at |-> "none"]
  BY DEF ThePages!WriteRow, ThePages!LoseReport, ThePages!NoPage
<1>2. "at" \in DOMAIN page' /\ page'.at = "none"
  BY <1>1
<1> QED BY <1>2, ReportingKeeps DEF ThePages!WriteRow, ThePages!LoseReport

LEMMA ReadingKeeps == ASSUME PagesInv, ThePages!ReadBooks PROVE PagesInv'
<1>1. BooksInv
  BY DEF PagesInv
<1>2. RunsInv' /\ RunsGoOn
  BY <1>1, SameRuns DEF BooksInv, ThePages!ReadBooks
<1>3. BooksInv'
  BY <1>1, <1>2, BooksStay DEF ThePages!ReadBooks
<1> DEFINE carried == [b \in DOMAIN Measured |-> ThePages!Latest(book[b])]
           apart == {b \in DOMAIN Measured :
                       carried[b] # ThePages!NoRun /\ ~ThePages!Matches(carried[b], page)}
<1>4. page' = [at |-> "read", stamp |-> page.stamp, host |-> page.host, commit |-> page.commit,
               carried |-> carried, before |-> order, apart |-> apart]
  BY DEF ThePages!ReadBooks, ThePages!BOOKS
<1> HIDE DEF carried, apart
<1>5. /\ "at" \in DOMAIN page' /\ page'.at = "read" /\ page'.carried = carried
      /\ page'.before = order /\ page'.apart = apart
      /\ page'.commit = page.commit /\ page'.host = page.host
  BY <1>4
<1>6. measured' = measured
  BY DEF ThePages!ReadBooks
<1>7. ReadInv'
  <2>1. \A b \in DOMAIN Measured : IsList(order[b]) /\ \A n \in DOMAIN order[b] :
          order[b][n] \in DOMAIN measured /\ IsIn(order[b][n])
    BY <1>1 DEF BooksInv, BookInv
  <2> QED BY <1>5, <1>6, <2>1 DEF ReadInv, IsIn
<1>8. ThePages!PageCarriesOneRun'
  <2>1. ASSUME NEW b \in DOMAIN Measured PROVE Carries(measured', page', b)
    <3> DEFINE read == carried[b]
               before == order[b]
    <3>1. read = ThePages!Latest(book[b])
      BY DEF carried
    <3>2. (b \in apart) <=> read # ThePages!NoRun /\ ~ThePages!Matches(read, page)
      BY DEF apart
    <3>3. /\ (\A k \in DOMAIN before : measured[before[k]].at = "written") =>
               read = IF before = <<>> THEN ThePages!NoRun
                      ELSE ThePages!AsMeasured(measured[before[Len(before)]])
          /\ read # ThePages!NoRun => \E k \in DOMAIN before : IsOfRun(read, before, k)
      BY <1>1, <3>1, ReadsOneRun
    <3>4. page'.carried[b] = read /\ page'.before[b] = before
      BY <1>5
    <3> HIDE DEF read, before
    <3>5. ASSUME read # ThePages!NoRun, NEW k \in DOMAIN before, IsOfRun(read, before, k)
          PROVE  (b \in page'.apart) =
                   (measured[before[k]].commit # page'.commit \/ measured[before[k]].host # page'.host)
      <4>1. measured[before[k]].host = read.host /\ measured[before[k]].commit = read.commit
        BY <3>5 DEF IsOfRun
      <4> QED BY <1>5, <3>2, <3>5, <4>1 DEF ThePages!Matches
    <3> QED BY <1>6, <3>3, <3>4, <3>5, ZenonT(60) DEF Carries, IsOfRun
  <2> QED BY <2>1, EachIsCarried
<1> QED BY <1>3, <1>7, <1>8 DEF PagesInv

LEMMA PublishingKeeps == ASSUME PagesInv, ThePages!Next PROVE PagesInv'
BY TickKeeps, MeasuringKeeps, LookingKeeps, AppendingKeeps, TearingKeeps, StoppingKeeps,
   StartingKeeps, ReadingKeeps, PageWritingKeeps, LeavingKeeps
   DEF ThePages!Next

LEMMA PagesBegin == ASSUME ThePages!Init PROVE PagesInv
<1>1. measured = <<>> /\ RunsInv
  BY NothingListed DEF RunsInv, ThePages!Init
<1>2. ASSUME NEW b \in DOMAIN Measured PROVE BookInv(b)
  <2>1. book[b] = <<>> /\ order[b] = <<>> /\ b \notin open
    BY DEF ThePages!Init, ThePages!BOOKS
  <2> QED BY <2>1, NothingListed DEF BookInv
<1>3. book \in [DOMAIN Measured -> Range(book)] /\ order \in [DOMAIN Measured -> Range(order)]
  BY DEF ThePages!Init, ThePages!BOOKS, Range
<1>4. "at" \in DOMAIN page /\ page.at = "none"
  BY DEF ThePages!Init, ThePages!NoPage
<1> QED BY <1>1, <1>2, <1>3, <1>4
        DEF PagesInv, BooksInv, ReadInv, ThePages!PageCarriesOneRun

LEMMA PagesStay == ASSUME PagesInv, UNCHANGED pageVars PROVE PagesInv'
<1>1. RunsInv' /\ RunsGoOn
  BY SameRuns DEF PagesInv, BooksInv, pageVars
<1> QED BY <1>1, BooksStay, PageStays DEF PagesInv, pageVars

-----------------------------------------------------------------------------
(***************************************************************************)
(* The invariant of the whole: each work keeps its own part, and leaves    *)
(* alone what the others are about.                                        *)
(***************************************************************************)
IInv == CoverInv /\ SpendInv /\ SuiteInv /\ BenchInv /\ PagesInv

LEMMA BooksBegin == ASSUME Init PROVE IInv
BY CoverBegins, SpendBegins, SuiteBegins, BenchBegins, PagesBegin DEF Init, IInv

LEMMA WorkKeeps == ASSUME IInv, [Next]_vars PROVE IInv'
<1>1. CoverInv'
  <2>1. CASE Covering
    BY <2>1, CoverSteps DEF IInv, Covering
  <2>2. CASE UNCHANGED coverVars
    BY <2>2, CoverStays DEF IInv
  <2> QED BY <2>1, <2>2 DEF Next, vars, Comparing, Spending, Benchmarking, Publishing
<1>2. SpendInv'
  <2>1. CASE Spending
    BY <2>1, SpendingKeeps DEF IInv, Spending
  <2>2. CASE UNCHANGED spendVars
    BY <2>2, SpendStays DEF IInv
  <2> QED BY <2>1, <2>2 DEF Next, vars, Comparing, Covering, Benchmarking, Publishing
<1>3. SuiteInv'
  <2>1. CASE Comparing
    BY <2>1, ComparingKeeps DEF IInv, Comparing
  <2>2. CASE UNCHANGED suiteVars
    BY <2>2, SuiteStays DEF IInv
  <2> QED BY <2>1, <2>2 DEF Next, vars, Spending, Covering, Benchmarking, Publishing
<1>4. BenchInv'
  <2>1. CASE Benchmarking
    BY <2>1, BenchmarkingKeeps DEF IInv, Benchmarking
  <2>2. CASE UNCHANGED benchVars
    BY <2>2, BenchStays DEF IInv
  <2> QED BY <2>1, <2>2 DEF Next, vars, Comparing, Spending, Covering, Publishing
<1>5. PagesInv'
  <2>1. CASE Publishing
    BY <2>1, PublishingKeeps DEF IInv, Publishing
  <2>2. CASE UNCHANGED pageVars
    BY <2>2, PagesStay DEF IInv
  <2> QED BY <2>1, <2>2 DEF Next, vars, Comparing, Spending, Covering, Benchmarking
<1> QED BY <1>1, <1>2, <1>3, <1>4, <1>5 DEF IInv

THEOREM WhatIsCountedIsKept == Spec => []IInv
<1>1. Init => IInv
  BY BooksBegin
<1>2. IInv /\ [Next]_vars => IInv'
  BY WorkKeeps
<1> QED BY <1>1, <1>2, PTL DEF Spec

\* For every function table, every set of edges and whatever the engines differ about
\* or panic on, coverage.rs claims what it asked: a row that passed was asked about
\* every edge, NULL and wrong type of its arguments, and what it records is over the
\* whole catalog.
THEOREM NumbersOfFunctionsAreEarned == Spec => []PassedIsEarned
<1>1. IInv => PassedIsEarned
  BY NumbersAreEarned DEF IInv, PassedIsEarned
<1> QED BY <1>1, WhatIsCountedIsKept, PTL

\* For every corpus, however often a loop takes a record and whatever it costs, spend.rs
\* counts every record either engine could time once, and the number of one that both
\* could is a run of that record on that engine with no more than half of its runs on
\* either side of it.
THEOREM RecordsArePairedOnce == Spec => []SpendsPair
<1>1. IInv => SpendsPair
  BY RecordsArePaired DEF IInv, SpendsPair
<1> QED BY <1>1, WhatIsCountedIsKept, PTL

\* For every list of statements and whatever an engine answers, suite.rs tells both
\* engines the same statements in the same order, the runs for the timing included: the
\* left one is ahead by the statement that is being put to the right one, and by no more.
THEOREM EnginesHearTheSame == Spec => []ToldTheSame
<1>1. IInv => ToldTheSame
  BY TheSuiteIsFair DEF IInv, ToldTheSame
<1> QED BY <1>1, WhatIsCountedIsKept, PTL

\* For every list of statements, every outcome and whatever a run costs, a statement that
\* suite.rs publishes with a cost has the middle one of all its runs on each engine; and
\* the ratio is ours over theirs whichever side is which: when every timed run of ours was
\* the slower one, the quantiles of the ratios are one or more, in order, and so is every
\* one of the worst.
THEOREM CostsOfASuiteAreFair == Spec => []CostsAreFair
<1>1. IInv => CostsAreFair
  BY TheSuiteIsFair DEF IInv, CostsAreFair
<1> QED BY <1>1, WhatIsCountedIsKept, PTL

\* For every benchmark, every text of its load and whatever a process costs, cost.rs
\* hands both engines the same text equally often, the loads before the queries; it cuts
\* a number that is inside the brackets of a call that makes a table and no other one,
\* and every such number when the brackets match; and a share of a load is a share.
THEOREM BothEnginesAreMeasured == Spec => []BenchmarksAreFair
<1>1. IInv => BenchmarksAreFair
  BY BenchmarksWereFair DEF IInv, BenchmarksAreFair
<1> QED BY <1>1, WhatIsCountedIsKept, PTL

\* For any number of runs and reports on any machines, whatever rows a run has to write
\* and wherever a write ends, in the first field of a line or in front of its newline
\* too, what a report reads of a book is one run: all of the newest when nothing was cut
\* off, rows of one run in their order otherwise, under the run's own total if its write
\* was not the one cut off.  What is read under a stamp that no run has is one row of a
\* run, and a write was cut off before that run.  And the page says that it is another
\* measurement when the engine or the machine was another.
THEOREM PagesAreOfOneRun == Spec => []PageCarriesOneRun
<1>1. IInv => PageCarriesOneRun
  BY DEF IInv, PagesInv, PageCarriesOneRun
<1> QED BY <1>1, WhatIsCountedIsKept, PTL
=============================================================================
