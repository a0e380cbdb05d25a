---------------------------- MODULE PlacingProofs ----------------------------
(***************************************************************************)
(* What the placer answers, for every pool and every conference, and what  *)
(* the joins that ask it at once may do to the pool, for every number of   *)
(* joins and every ceiling.                                                *)
(*                                                                         *)
(* The provers have no induction over an operator. LeastNatural stands in  *)
(* for it: where something held of all n below and not of n, the least     *)
(* such n would be a contradiction.                                        *)
(***************************************************************************)
EXTENDS Placing, PoolProofs, FiniteSetTheorems, WellFoundedInduction

\* A set of numbers that is not empty has a least one.
LEMMA LeastNatural ==
    ASSUME NEW T, T \subseteq Nat, T # {}
    PROVE  \E x \in T : \A y \in T : x <= y
<1> DEFINE R == OpToRel(<, Nat)
<1>1. IsWellFoundedOn(R, Nat)
  BY NatLessThanWellFounded
<1>2. \A x, y \in Nat : x < y => <<x, y>> \in R
  BY DEF OpToRel
<1> HIDE DEF R
<1>3. PICK x \in T : \A y \in T : ~(<<y, x>> \in R)
  BY <1>1, WFMin
<1>4. ASSUME NEW y \in T PROVE x <= y
  <2>1. x \in Nat /\ y \in Nat
    BY <1>3
  <2>2. ~(y < x)
    BY <1>2, <1>3, <2>1
  <2> QED
    BY <2>1, <2>2
<1> QED
  BY <1>4

-----------------------------------------------------------------------------
(* The loop of lowest. *)

\* The i-th row is one the loop may choose.
MayTake(rows, consider, i) == Eligible(rows[i]) /\ rows[i].id \in consider

\* What the loop makes of the best row before it.
NextBest(rows, consider, i, before) ==
    IF /\ Eligible(rows[i]) /\ rows[i].id \in consider
       /\ before = 0 \/ Prefer(rows[i], rows[before])
    THEN i ELSE before

\* The first n rounds of the loop.
Rounds(rows, consider, n) ==
    {b \in [0..n -> Nat] :
        /\ b[0] = 0
        /\ \A i \in 1..n : b[i] = NextBest(rows, consider, i, b[i - 1])}

\* The loop runs for as long as there are rows.
LEMMA LoopRuns ==
    ASSUME NEW rows, NEW consider, NEW n \in Nat
    PROVE  Rounds(rows, consider, n) # {}
<1> DEFINE T == {m \in Nat : Rounds(rows, consider, m) = {}}
<1> SUFFICES ASSUME T # {} PROVE FALSE
  OBVIOUS
<1>1. PICK m \in T : \A y \in T : m <= y
  <2> HIDE DEF T
  <2>1. T \subseteq Nat
    BY DEF T
  <2> QED
    BY <2>1, LeastNatural
<1>2. m # 0
  <2>1. [i \in 0..0 |-> 0] \in Rounds(rows, consider, 0)
    BY DEF Rounds
  <2> QED
    BY <1>1, <2>1
<1>3. m - 1 \in Nat /\ m - 1 \notin T
  BY <1>1, <1>2
<1>4. PICK b \in [0..(m - 1) -> Nat] :
        /\ b[0] = 0
        /\ \A i \in 1..(m - 1) : b[i] = NextBest(rows, consider, i, b[i - 1])
  BY <1>3 DEF Rounds
<1> DEFINE last == NextBest(rows, consider, m, b[m - 1])
           d == [i \in 0..m |-> IF i = m THEN last ELSE b[i]]
<1>5. last \in Nat
  BY <1>1, <1>3, <1>4 DEF NextBest
<1> HIDE DEF last
<1>6. d \in [0..m -> Nat] /\ d[0] = 0
  BY <1>1, <1>2, <1>4, <1>5
<1>7. ASSUME NEW i \in 1..m PROVE d[i] = NextBest(rows, consider, i, d[i - 1])
  <2>1. CASE i = m
    <3>1. d[i] = last /\ d[i - 1] = b[m - 1]
      BY <1>1, <1>2, <2>1
    <3> QED
      BY <2>1, <3>1 DEF last
  <2>2. CASE i # m
    <3>1. i \in 1..(m - 1) /\ d[i] = b[i] /\ d[i - 1] = b[i - 1]
      BY <1>1, <2>2
    <3> QED
      BY <1>4, <3>1
  <2> QED
    BY <2>1, <2>2
<1>8. d \in Rounds(rows, consider, m)
  BY <1>6, <1>7 DEF Rounds
<1> QED
  BY <1>1, <1>8

\* Lowest is where the last round leaves the loop.
LEMMA LowestRuns ==
    ASSUME NEW rows, NEW consider, Len(rows) \in Nat
    PROVE  \E b : /\ b[0] = 0
                  /\ \A i \in 1..Len(rows) :
                        b[i] = NextBest(rows, consider, i, b[i - 1])
                  /\ Lowest(rows, consider) = b[Len(rows)]
<1> DEFINE best == CHOOSE best : best = [i \in 0..Len(rows) |->
                    IF i = 0 THEN 0
                    ELSE LET before == best[i - 1] IN
                         IF /\ Eligible(rows[i]) /\ rows[i].id \in consider
                            /\ before = 0 \/ Prefer(rows[i], rows[before])
                         THEN i ELSE before]
<1>1. Lowest(rows, consider) = best[Len(rows)]
  BY DEF Lowest
<1>2. PICK b : b \in Rounds(rows, consider, Len(rows))
  BY LoopRuns
<1>3. b = [i \in 0..Len(rows) |->
            IF i = 0 THEN 0
            ELSE LET before == b[i - 1] IN
                 IF /\ Eligible(rows[i]) /\ rows[i].id \in consider
                    /\ before = 0 \/ Prefer(rows[i], rows[before])
                 THEN i ELSE before]
  <2>1. \A i \in 0..Len(rows) : i # 0 => i \in 1..Len(rows)
    OBVIOUS
  <2> QED
    BY <1>2, <2>1 DEF Rounds, NextBest
<1>4. best = [i \in 0..Len(rows) |->
            IF i = 0 THEN 0
            ELSE LET before == best[i - 1] IN
                 IF /\ Eligible(rows[i]) /\ rows[i].id \in consider
                    /\ before = 0 \/ Prefer(rows[i], rows[before])
                 THEN i ELSE before]
  BY <1>3
<1> HIDE DEF best
<1>5. best[0] = 0
  BY <1>4
<1>6. ASSUME NEW i \in 1..Len(rows)
      PROVE  best[i] = NextBest(rows, consider, i, best[i - 1])
  <2>1. i \in 0..Len(rows) /\ i # 0
    OBVIOUS
  <2> QED
    BY <1>4, <2>1 DEF NextBest
<1> QED
  BY <1>1, <1>5, <1>6

-----------------------------------------------------------------------------
(* What the loop finds. *)

\* Rows as View has them: no two under one identifier.
Rows == [id : Int, load : Int, state : States]
AreRows(rows) ==
    /\ rows \in Seq(Rows)
    /\ \A i, j \in DOMAIN rows : rows[i].id = rows[j].id => i = j

\* What the rows of a sequence are.
LEMMA RowsAreRows ==
    ASSUME NEW rows, AreRows(rows)
    PROVE  /\ Len(rows) \in Nat /\ DOMAIN rows = 1..Len(rows)
           /\ \A i \in 1..Len(rows) : rows[i] \in Rows
           /\ \A i \in 1..Len(rows) : rows[i].id \in Int /\ rows[i].load \in Int
           /\ \A i, j \in 1..Len(rows) : rows[i].id = rows[j].id => i = j
<1>1. rows \in Seq(Rows) /\ \A i, j \in DOMAIN rows : rows[i].id = rows[j].id => i = j
  BY DEF AreRows
<1>2. \A row \in Rows : row.id \in Int /\ row.load \in Int
  BY DEF Rows
<1>3. /\ Len(rows) \in Nat /\ DOMAIN rows = 1..Len(rows)
      /\ \A i \in 1..Len(rows) : rows[i] \in Rows
  BY <1>1, ElementOfSeq
<1> QED
  BY <1>1, <1>2, <1>3

\* The best row of the first n is k: none may be taken, or it may and it is
\* preferred to every other that may.
IsBest(rows, consider, n, k) ==
    \/ k = 0 /\ \A i \in 1..n : ~MayTake(rows, consider, i)
    \/ /\ k \in 1..n
       /\ MayTake(rows, consider, k)
       /\ \A i \in 1..n : MayTake(rows, consider, i) /\ i # k => Prefer(rows[k], rows[i])

\* One more round keeps the best row the best.
LEMMA RoundKeepsTheBest ==
    ASSUME NEW rows, AreRows(rows), NEW consider, NEW n \in 1..Len(rows),
           NEW k, IsBest(rows, consider, n - 1, k)
    PROVE  IsBest(rows, consider, n, NextBest(rows, consider, n, k))
<1>1. /\ Len(rows) \in Nat /\ DOMAIN rows = 1..Len(rows)
      /\ \A i \in 1..Len(rows) : rows[i].id \in Int /\ rows[i].load \in Int
      /\ \A i, j \in 1..Len(rows) : rows[i].id = rows[j].id => i = j
  BY RowsAreRows
<1>2. n \in Int /\ n >= 1 /\ n <= Len(rows)
  BY <1>1
<1>3. CASE ~MayTake(rows, consider, n)
  <2>1. NextBest(rows, consider, n, k) = k
    BY <1>3 DEF NextBest, MayTake
  <2> QED
    BY <1>2, <1>3, <2>1 DEF IsBest
<1>4. CASE MayTake(rows, consider, n) /\ k = 0
  <2>1. NextBest(rows, consider, n, k) = n
    BY <1>4 DEF NextBest, MayTake
  <2>2. \A i \in 1..(n - 1) : ~MayTake(rows, consider, i)
    BY <1>4, <1>2 DEF IsBest
  <2> QED
    BY <1>2, <1>4, <2>1, <2>2 DEF IsBest
<1>5. CASE MayTake(rows, consider, n) /\ k # 0
  <2>1. /\ k \in 1..(n - 1)
        /\ MayTake(rows, consider, k)
        /\ \A i \in 1..(n - 1) :
             MayTake(rows, consider, i) /\ i # k => Prefer(rows[k], rows[i])
    BY <1>5 DEF IsBest
  <2>2. k # n /\ rows[k].id # rows[n].id
    BY <1>1, <1>2, <2>1
  <2>3. CASE Prefer(rows[n], rows[k])
    <3>1. NextBest(rows, consider, n, k) = n
      BY <1>5, <2>3 DEF NextBest, MayTake
    <3>2. ASSUME NEW i \in 1..n, MayTake(rows, consider, i), i # n
          PROVE  Prefer(rows[n], rows[i])
      <4>1. i \in 1..(n - 1)
        BY <1>2, <3>2
      <4>2. i = k \/ Prefer(rows[k], rows[i])
        BY <2>1, <3>2, <4>1
      <4>3. /\ rows[n].id \in Int /\ rows[n].load \in Int
            /\ rows[k].id \in Int /\ rows[k].load \in Int
            /\ rows[i].id \in Int /\ rows[i].load \in Int
        BY <1>1, <1>2, <2>1, <4>1
      <4> QED
        BY <2>3, <4>2, <4>3 DEF Prefer
    <3> QED
      BY <1>2, <1>5, <3>1, <3>2 DEF IsBest
  <2>4. CASE ~Prefer(rows[n], rows[k])
    <3>1. NextBest(rows, consider, n, k) = k
      BY <1>5, <2>4 DEF NextBest, MayTake
    <3>2. Prefer(rows[k], rows[n])
      <4>1. /\ rows[n].id \in Int /\ rows[n].load \in Int
            /\ rows[k].id \in Int /\ rows[k].load \in Int
        BY <1>1, <1>2, <2>1
      <4> QED
        BY <2>2, <2>4, <4>1 DEF Prefer
    <3> QED
      BY <1>2, <2>1, <3>1, <3>2 DEF IsBest
  <2> QED
    BY <2>3, <2>4
<1> QED
  BY <1>3, <1>4, <1>5

\* Lowest finds the best row there is to take, whatever the rows.
LEMMA LowestIsBest ==
    ASSUME NEW rows, AreRows(rows), NEW consider
    PROVE  IsBest(rows, consider, Len(rows), Lowest(rows, consider))
<1>1. Len(rows) \in Nat
  BY RowsAreRows
<1>2. PICK b : /\ b[0] = 0
               /\ \A i \in 1..Len(rows) :
                    b[i] = NextBest(rows, consider, i, b[i - 1])
               /\ Lowest(rows, consider) = b[Len(rows)]
  BY <1>1, LowestRuns
<1> DEFINE T == {n \in 0..Len(rows) : ~IsBest(rows, consider, n, b[n])}
<1>3. T = {}
  <2> SUFFICES ASSUME T # {} PROVE FALSE
    OBVIOUS
  <2>1. PICK n \in T : \A y \in T : n <= y
    <3>1. T \subseteq Nat
      BY <1>1
    <3> HIDE DEF T
    <3> QED
      BY <3>1, LeastNatural
  <2>2. n # 0
    BY <1>2, <2>1 DEF IsBest
  <2>3. n \in 1..Len(rows) /\ n - 1 \in 0..Len(rows) /\ n - 1 \notin T
    BY <1>1, <2>1, <2>2
  <2>4. IsBest(rows, consider, n - 1, b[n - 1])
    BY <2>3
  <2>5. IsBest(rows, consider, n, b[n])
    BY <1>2, <2>3, <2>4, RoundKeepsTheBest
  <2> QED
    BY <2>1, <2>5
<1> QED
  BY <1>1, <1>2, <1>3

-----------------------------------------------------------------------------
(* What an answer means: it depends on the set of the rows alone. *)

FitIn(R, S) == {r \in R : Eligible(r) /\ r.id \in S}

\* Under this identifier is the row that nothing else that fits is preferred
\* to.
IsTheBest(R, S, u) ==
    \E a \in FitIn(R, S) :
        a.id = u /\ \A b \in FitIn(R, S) \ {a} : Prefer(a, b)

TheBest(R, S) == CHOOSE u : IsTheBest(R, S, u)

\* The rows are these, in some order.
Lists(rows, R) == AreRows(rows) /\ R = {rows[i] : i \in 1..Len(rows)}

\* At most one row is the best.
LEMMA OneBest ==
    ASSUME NEW R \in SUBSET Rows, NEW S, NEW u, NEW v,
           IsTheBest(R, S, u), IsTheBest(R, S, v)
    PROVE  u = v
<1>1. PICK a \in FitIn(R, S) :
        a.id = u /\ \A b \in FitIn(R, S) \ {a} : Prefer(a, b)
  BY DEF IsTheBest
<1>2. PICK b \in FitIn(R, S) :
        b.id = v /\ \A c \in FitIn(R, S) \ {b} : Prefer(b, c)
  BY DEF IsTheBest
<1>3. a \in Rows /\ b \in Rows
  BY <1>1, <1>2 DEF FitIn
<1>4. CASE a = b
  BY <1>1, <1>2, <1>4
<1>5. CASE a # b
  <2>1. Prefer(a, b) /\ Prefer(b, a)
    BY <1>1, <1>2, <1>5
  <2>2. /\ a.id \in Int /\ a.load \in Int
        /\ b.id \in Int /\ b.load \in Int
    BY <1>3 DEF Rows
  <2> QED
    BY <2>1, <2>2 DEF Prefer
<1> QED
  BY <1>4, <1>5

\* Lowest answers with the best of the rows to consider, or there is none.
LEMMA LowestReadsTheSet ==
    ASSUME NEW rows, NEW R, Lists(rows, R), NEW S
    PROVE  LET k == Lowest(rows, S) IN
           \/ k = 0 /\ FitIn(R, S) = {}
           \/ /\ k # 0
              /\ k \in 1..Len(rows)
              /\ rows[k] \in FitIn(R, S)
              /\ IsTheBest(R, S, rows[k].id)
              /\ rows[k].id = TheBest(R, S)
<1> DEFINE k == Lowest(rows, S)
<1>1. /\ Len(rows) \in Nat
      /\ \A i \in 1..Len(rows) : rows[i] \in Rows
      /\ \A i, j \in 1..Len(rows) : rows[i].id = rows[j].id => i = j
  BY RowsAreRows DEF Lists
<1>2. IsBest(rows, S, Len(rows), k)
  BY LowestIsBest DEF Lists
<1>3. R = {rows[i] : i \in 1..Len(rows)}
  BY DEF Lists
<1> HIDE DEF k
<1>4. \A i \in 1..Len(rows) : MayTake(rows, S, i) <=> rows[i] \in FitIn(R, S)
  BY <1>3 DEF MayTake, FitIn
<1>5. \A r \in FitIn(R, S) : \E i \in 1..Len(rows) : r = rows[i]
  BY <1>3 DEF FitIn
<1>6. CASE k = 0 /\ \A i \in 1..Len(rows) : ~MayTake(rows, S, i)
  BY <1>4, <1>5, <1>6 DEF k
<1>7. CASE /\ k \in 1..Len(rows)
           /\ MayTake(rows, S, k)
           /\ \A i \in 1..Len(rows) :
                MayTake(rows, S, i) /\ i # k => Prefer(rows[k], rows[i])
  <2>1. k # 0 /\ rows[k] \in FitIn(R, S)
    BY <1>1, <1>4, <1>7
  <2>2. ASSUME NEW b \in FitIn(R, S) \ {rows[k]} PROVE Prefer(rows[k], b)
    <3>1. PICK i \in 1..Len(rows) : b = rows[i]
      BY <1>5
    <3> QED
      BY <1>4, <1>7, <2>2, <3>1
  <2>3. IsTheBest(R, S, rows[k].id)
    BY <2>1, <2>2 DEF IsTheBest
  <2>4. R \in SUBSET Rows
    BY <1>1, <1>3
  <2>5. rows[k].id = TheBest(R, S)
    <3>1. IsTheBest(R, S, TheBest(R, S))
      BY <2>3 DEF TheBest
    <3> QED
      BY <2>3, <2>4, <3>1, OneBest
  <2> QED
    BY <1>7, <2>1, <2>3, <2>5 DEF k
<1> QED
  BY <1>2, <1>6, <1>7 DEF IsBest

IdsOf(R) == {r.id : r \in R}

\* The answers, read off the set of the rows.
FirstAnswer(R) ==
    IF R = {} THEN Refuse("no units")
    ELSE IF FitIn(R, IdsOf(R)) = {} THEN Refuse("no eligible unit")
    ELSE Place(TheBest(R, IdsOf(R)))

NextAnswer(R, on, unitCeiling) ==
    IF R = {} THEN Refuse("no units")
    ELSE IF FitIn(R, on) # {} THEN Place(TheBest(R, on))
    ELSE IF Cardinality(on) >= unitCeiling THEN Refuse("reached unit ceiling")
    ELSE IF FitIn(R, IdsOf(R) \ on) # {} THEN Place(TheBest(R, IdsOf(R) \ on))
    ELSE Refuse("no eligible unit")

\* The placer's answers are these, whatever order it reads the rows in
\* (PlaceConference, PlaceParticipant).
LEMMA AnswersReadTheSet ==
    ASSUME NEW rows, NEW R, Lists(rows, R)
    PROVE  /\ PlaceConference(rows) = FirstAnswer(R)
           /\ \A on, unitCeiling :
                PlaceParticipant(rows, on, unitCeiling)
                    = NextAnswer(R, on, unitCeiling)
<1>1. rows = <<>> <=> R = {}
  <2>1. rows \in Seq(Rows) /\ R = {rows[i] : i \in 1..Len(rows)}
    BY DEF Lists, AreRows
  <2>2. rows = <<>> <=> Len(rows) = 0
    BY <2>1, EmptySeq
  <2>3. Len(rows) \in Nat
    BY <2>1, LenProperties
  <2>4. ASSUME Len(rows) # 0 PROVE R # {}
    BY <2>1, <2>3, <2>4
  <2>5. ASSUME Len(rows) = 0 PROVE R = {}
    BY <2>1, <2>5
  <2> QED
    BY <2>2, <2>4, <2>5
<1>2. RowIds(rows) = IdsOf(R)
  <2>1. DOMAIN rows = 1..Len(rows)
    BY RowsAreRows DEF Lists
  <2> QED
    BY <2>1 DEF RowIds, IdsOf, Lists
<1>3. PlaceConference(rows) = FirstAnswer(R)
  BY <1>1, <1>2, LowestReadsTheSet DEF PlaceConference, FirstAnswer
<1>4. ASSUME NEW on, NEW unitCeiling
      PROVE  PlaceParticipant(rows, on, unitCeiling)
                = NextAnswer(R, on, unitCeiling)
  <2> DEFINE carrier == Lowest(rows, on)
             other == Lowest(rows, RowIds(rows) \ on)
  <2>1. \/ carrier = 0 /\ FitIn(R, on) = {}
        \/ carrier # 0 /\ FitIn(R, on) # {} /\ rows[carrier].id = TheBest(R, on)
    BY LowestReadsTheSet
  <2>2. \/ other = 0 /\ FitIn(R, IdsOf(R) \ on) = {}
        \/ /\ other # 0 /\ FitIn(R, IdsOf(R) \ on) # {}
           /\ rows[other].id = TheBest(R, IdsOf(R) \ on)
    BY <1>2, LowestReadsTheSet
  <2>3. PlaceParticipant(rows, on, unitCeiling) =
            IF rows = <<>> THEN Refuse("no units")
            ELSE IF carrier # 0 THEN Place(rows[carrier].id)
            ELSE IF Cardinality(on) >= unitCeiling
                 THEN Refuse("reached unit ceiling")
            ELSE IF other # 0 THEN Place(rows[other].id)
            ELSE Refuse("no eligible unit")
    BY DEF PlaceParticipant
  <2> HIDE DEF carrier, other
  <2> QED
    BY <1>1, <2>1, <2>2, <2>3 DEF NextAnswer
<1> QED
  BY <1>3, <1>4

-----------------------------------------------------------------------------
(* The rows of View, in order. *)

\* A set of numbers in increasing order.
InOrder(D) ==
    {s \in [1..Cardinality(D) -> D] :
        \A i, j \in 1..Cardinality(D) : i < j => s[i] < s[j]}

\* Every finite set of numbers can be put in order.
LEMMA CanBeOrdered ==
    ASSUME NEW D, D \subseteq Nat, IsFiniteSet(D)
    PROVE  InOrder(D) # {}
<1> DEFINE Bad(n) == \E E \in SUBSET Nat :
                        IsFiniteSet(E) /\ Cardinality(E) = n /\ InOrder(E) = {}
           T == {n \in Nat : Bad(n)}
<1> SUFFICES ASSUME InOrder(D) = {} PROVE FALSE
  OBVIOUS
<1>1. Cardinality(D) \in T
  BY FS_CardinalityType
<1>2. PICK n \in T : \A y \in T : n <= y
  <2> HIDE DEF T
  <2>1. T \subseteq Nat
    BY DEF T
  <2> QED
    BY <1>1, <2>1, LeastNatural
<1>3. PICK E \in SUBSET Nat :
        IsFiniteSet(E) /\ Cardinality(E) = n /\ InOrder(E) = {}
  BY <1>2
<1> HIDE DEF T
<1>numbers. \A e \in E : e \in Int
  BY <1>3
<1>4. E # {}
  <2>1. ASSUME E = {} PROVE FALSE
    <3>1. Cardinality(E) = 0
      BY <2>1, FS_EmptySet
    <3>2. [i \in 1..0 |-> 0] \in InOrder(E)
      BY <2>1, <3>1 DEF InOrder
    <3> QED
      BY <1>3, <3>2
  <2> QED
    BY <2>1
<1>5. PICK least \in E : \A y \in E : least <= y
  BY <1>4, LeastNatural
<1> DEFINE F == E \ {least}
<1>6. IsFiniteSet(F) /\ Cardinality(F) = n - 1 /\ n - 1 \in Nat
  <2>1. IsFiniteSet(F) /\ Cardinality(F) = n - 1
    BY <1>3, <1>5, FS_RemoveElement
  <2> QED
    BY <2>1, FS_CardinalityType
<1>7. n \in Nat /\ n - 1 \notin T
  BY <1>2, <1>6 DEF T
<1>8. InOrder(F) # {}
  BY <1>3, <1>6, <1>7 DEF T
<1>9. PICK s \in [1..(n - 1) -> F] :
        \A i, j \in 1..(n - 1) : i < j => s[i] < s[j]
  BY <1>6, <1>8 DEF InOrder
<1> DEFINE t == [i \in 1..n |-> IF i = 1 THEN least ELSE s[i - 1]]
<1>10. n \in Nat /\ \A i \in 1..n : i # 1 => i - 1 \in 1..(n - 1)
  BY <1>7
<1>11. t \in [1..n -> E]
  BY <1>5, <1>9, <1>10
<1>12. ASSUME NEW i \in 1..n, NEW j \in 1..n, i < j PROVE t[i] < t[j]
  <2>1. j # 1 /\ j - 1 \in 1..(n - 1)
    BY <1>10, <1>12
  <2>2. t[j] = s[j - 1] /\ s[j - 1] \in F
    BY <1>9, <2>1
  <2>3. CASE i = 1
    <3>1. t[i] = least /\ least <= s[j - 1] /\ least # s[j - 1]
      BY <1>5, <2>2, <2>3
    <3>2. least \in Int /\ s[j - 1] \in Int
      BY <1>numbers, <1>5, <2>2
    <3> HIDE DEF t, F
    <3> QED
      BY <2>2, <3>1, <3>2
  <2>4. CASE i # 1
    <3>1. i - 1 \in 1..(n - 1) /\ i - 1 < j - 1 /\ t[i] = s[i - 1]
      BY <1>10, <1>12, <2>4
    <3> HIDE DEF t, F
    <3> QED
      BY <1>9, <2>1, <2>2, <3>1
  <2> QED
    BY <2>3, <2>4
<1>13. t \in InOrder(E)
  <2> HIDE DEF t
  <2> QED
    BY <1>3, <1>11, <1>12 DEF InOrder
<1> QED
  BY <1>3, <1>13

\* Sequences of as many as a set has, each different, hold the whole set.
LEMMA OrderedIsAll ==
    ASSUME NEW D, IsFiniteSet(D), NEW s \in [1..Cardinality(D) -> D],
           \A i, j \in 1..Cardinality(D) : s[i] = s[j] => i = j
    PROVE  \A d \in D : \E i \in 1..Cardinality(D) : s[i] = d
<1>1. Cardinality(D) \in Nat
  BY FS_CardinalityType
<1>2. /\ IsFiniteSet(1..Cardinality(D))
      /\ Cardinality(1..Cardinality(D)) = Cardinality(D)
  BY <1>1, FS_Interval
<1>3. s \in Injection(1..Cardinality(D), D)
  BY DEF Injection, IsInjective
<1>4. s \in Surjection(1..Cardinality(D), D)
  BY <1>2, <1>3, FS_Injection
<1> QED
  BY <1>4 DEF Surjection

-----------------------------------------------------------------------------
(* What View lists. *)

\* A row for a unit is a row, and says which unit it is.
LEMMA RowsOfView ==
    ASSUME TypeOK
    PROVE  /\ DOMAIN View \subseteq UnitIds
           /\ \A u \in UnitIds : u \in Nat
           /\ RowSet \subseteq Rows
           /\ \A u \in DOMAIN View : RowOf(u) \in RowSet /\ RowOf(u).id = u
           /\ \A r \in RowSet : r.id \in DOMAIN View /\ r = RowOf(r.id)
           /\ \A u \in DOMAIN View :
                /\ RowOf(u).load = EffectiveLoad(u)
                /\ RowOf(u).state = state[u]
<1>1. DOMAIN View \subseteq UnitIds /\ \A u \in UnitIds : u \in Nat
  BY PlacingAssumption DEF View
<1>2. ASSUME NEW u \in DOMAIN View
      PROVE  /\ RowOf(u).id = u
             /\ RowOf(u).load = EffectiveLoad(u)
             /\ RowOf(u).state = state[u]
             /\ RowOf(u) \in Rows
  <2>1. View[u].load = EffectiveLoad(u) /\ View[u].state = state[u]
    BY DEF View
  <2>2. u \in Int /\ EffectiveLoad(u) \in Int /\ state[u] \in States
    BY <1>1 DEF TypeOK, EffectiveLoad
  <2> QED
    BY <2>1, <2>2 DEF RowOf, Rows
<1> QED
  BY <1>1, <1>2 DEF RowSet

\* View's rows come sorted, and are all there are.
LEMMA ViewIsOrdered ==
    ASSUME TypeOK
    PROVE  /\ IsFiniteSet(DOMAIN View) /\ Cardinality(DOMAIN View) \in Nat
           /\ ViewRecord \in [1..Cardinality(DOMAIN View) -> RowSet]
           /\ \A i, j \in 1..Cardinality(DOMAIN View) :
                i < j => ViewRecord[i].id < ViewRecord[j].id
<1> DEFINE D == DOMAIN View
           n == Cardinality(D)
<1>1. D \subseteq Nat /\ IsFiniteSet(D) /\ n \in Nat
  <2>1. D \subseteq UnitIds /\ IsFiniteSet(UnitIds) /\ UnitIds \subseteq Nat
    BY RowsOfView, PlacingAssumption
  <2> HIDE DEF D
  <2> QED
    BY <2>1, FS_Subset, FS_CardinalityType
<1>2. PICK s \in [1..n -> D] : \A i, j \in 1..n : i < j => s[i] < s[j]
  <2> HIDE DEF D
  <2> QED
    BY <1>1, CanBeOrdered DEF InOrder
<1> DEFINE rows == [i \in 1..n |-> RowOf(s[i])]
<1>3. rows \in [1..n -> {RowOf(u) : u \in D}]
  BY <1>2
<1>4. \A i \in 1..n : rows[i].id = s[i]
  BY <1>2, RowsOfView
<1>5. \A i, j \in DOMAIN rows : i < j => rows[i].id < rows[j].id
  <2>1. DOMAIN rows = 1..n
    OBVIOUS
  <2> HIDE DEF rows, D
  <2> QED
    BY <1>2, <1>4, <2>1
<1>6. /\ ViewRecord \in [1..n -> {RowOf(u) : u \in D}]
      /\ \A i, j \in DOMAIN ViewRecord : i < j => ViewRecord[i].id < ViewRecord[j].id
  <2> HIDE DEF rows
  <2> QED
    BY <1>3, <1>5 DEF ViewRecord
<1> QED
  BY <1>1, <1>6 DEF RowSet

\* So they list the set of rows.
LEMMA ViewLists == ASSUME TypeOK PROVE Lists(ViewRecord, RowSet)
<1> DEFINE n == Cardinality(DOMAIN View)
           ids == [i \in 1..n |-> ViewRecord[i].id]
<1>1. /\ IsFiniteSet(DOMAIN View) /\ n \in Nat
      /\ ViewRecord \in [1..n -> RowSet]
      /\ \A i, j \in 1..n : i < j => ViewRecord[i].id < ViewRecord[j].id
  BY ViewIsOrdered
<1>2. ViewRecord \in [1..n -> Rows] /\ DOMAIN ViewRecord = 1..n
  BY <1>1, RowsOfView
<1>3. ViewRecord \in Seq(Rows) /\ Len(ViewRecord) = n
  <2> HIDE DEF n
  <2>1. ViewRecord \in Seq(Rows)
    BY <1>1, <1>2, SeqDef
  <2>2. Len(ViewRecord) \in Nat /\ DOMAIN ViewRecord = 1..Len(ViewRecord)
    BY <2>1, LenProperties
  <2> QED
    BY <1>1, <1>2, <2>2
<1>4. \A i, j \in 1..n : ViewRecord[i].id = ViewRecord[j].id => i = j
  <2> SUFFICES ASSUME NEW i \in 1..n, NEW j \in 1..n,
                      ViewRecord[i].id = ViewRecord[j].id
               PROVE  i = j
    OBVIOUS
  <2>1. \A r \in Rows : r.id \in Int
    BY DEF Rows
  <2>2. ViewRecord[i].id \in Int /\ ViewRecord[j].id \in Int
    BY <1>2, <2>1
  <2>3. i < j => ViewRecord[i].id < ViewRecord[j].id
    BY <1>1
  <2>4. j < i => ViewRecord[j].id < ViewRecord[i].id
    BY <1>1
  <2>5. ~(i < j) /\ ~(j < i)
    BY <2>2, <2>3, <2>4
  <2> HIDE DEF n
  <2> QED
    BY <1>1, <2>5
<1>5. ids \in [1..n -> DOMAIN View]
  BY <1>1, RowsOfView
<1>6. \A d \in DOMAIN View : \E i \in 1..n : ids[i] = d
  <2> HIDE DEF ids
  <2>1. \A i, j \in 1..n : ids[i] = ids[j] => i = j
    BY <1>4 DEF ids
  <2> QED
    BY <1>1, <1>5, <2>1, OrderedIsAll
<1>7. RowSet = {ViewRecord[i] : i \in 1..n}
  <2>1. ASSUME NEW r \in RowSet PROVE \E i \in 1..n : r = ViewRecord[i]
    <3>1. PICK i \in 1..n : ids[i] = r.id
      BY <1>6, RowsOfView
    <3>2. ViewRecord[i] \in RowSet /\ ViewRecord[i].id = r.id
      BY <1>1, <3>1
    <3>3. ViewRecord[i] = r
      BY <3>2, RowsOfView
    <3> QED
      BY <3>3
  <2> QED
    BY <1>1, <2>1
<1> HIDE DEF n
<1> QED
  BY <1>2, <1>3, <1>4, <1>7 DEF Lists, AreRows

\* A shuffle of the rows lists them too (PlaceConference, PlaceParticipant:
\* instances read the same rows in orders of their own).
LEMMA ShuffleLists ==
    ASSUME TypeOK, NEW rows \in Shuffles PROVE Lists(rows, RowSet)
<1>1. ViewRecord \in Seq(Rows)
      /\ \A i, j \in DOMAIN ViewRecord :
            ViewRecord[i].id = ViewRecord[j].id => i = j
  BY ViewLists DEF Lists, AreRows
<1> DEFINE n == Len(ViewRecord)
<1>2. /\ n \in Nat /\ DOMAIN ViewRecord = 1..n
      /\ \A i \in 1..n : ViewRecord[i] \in Rows
      /\ RowSet = {ViewRecord[i] : i \in 1..n}
  BY ViewLists, RowsAreRows DEF Lists
<1>3. PICK p \in Bijection(1..n, 1..n) : rows = [i \in 1..n |-> ViewRecord[p[i]]]
  BY <1>2 DEF Shuffles
<1>4. /\ p \in [1..n -> 1..n]
      /\ \A i, j \in 1..n : p[i] = p[j] => i = j
      /\ \A j \in 1..n : \E i \in 1..n : p[i] = j
  BY <1>3 DEF Bijection, Injection, IsInjective, Surjection
<1>5. rows \in [1..n -> Rows] /\ DOMAIN rows = 1..n
  BY <1>2, <1>3, <1>4
<1>6. rows \in Seq(Rows) /\ Len(rows) = n
  <2> HIDE DEF n
  <2>1. rows \in Seq(Rows)
    BY <1>2, <1>5, SeqDef
  <2>2. Len(rows) \in Nat /\ DOMAIN rows = 1..Len(rows)
    BY <2>1, LenProperties
  <2> QED
    BY <1>2, <1>5, <2>2
<1>7. ASSUME NEW i \in 1..n, NEW j \in 1..n, rows[i].id = rows[j].id
      PROVE  i = j
  <2> HIDE DEF n
  <2>1. p[i] \in 1..n /\ p[j] \in 1..n
    BY <1>4
  <2>2. rows[i] = ViewRecord[p[i]] /\ rows[j] = ViewRecord[p[j]]
    BY <1>3
  <2>3. p[i] = p[j]
    BY <1>1, <1>2, <1>7, <2>1, <2>2
  <2> QED
    BY <1>4, <2>3
<1>8. RowSet = {rows[i] : i \in 1..n}
  <2> HIDE DEF n
  <2>1. \A i \in 1..n : rows[i] \in RowSet
    BY <1>2, <1>3, <1>4
  <2>2. \A r \in RowSet : \E i \in 1..n : r = rows[i]
    BY <1>2, <1>3, <1>4
  <2> QED
    BY <2>1, <2>2
<1> HIDE DEF n
<1> QED
  BY <1>5, <1>6, <1>7, <1>8 DEF Lists, AreRows

\* A placement and the refusals can be told apart.
LEMMA AnswersDiffer ==
    /\ \A u, reason : Place(u) # Refuse(reason)
    /\ \A a, b : Refuse(a) = Refuse(b) => a = b
<1>1. ASSUME NEW u, NEW reason, Place(u) = Refuse(reason) PROVE FALSE
  <2>1. Place(u).placed = TRUE /\ Refuse(reason).placed = FALSE
    BY DEF Place, Refuse
  <2> QED
    BY <1>1, <2>1
<1>2. ASSUME NEW a, NEW b, Refuse(a) = Refuse(b) PROVE a = b
  <2>1. Refuse(a).reason = a /\ Refuse(b).reason = b
    BY DEF Refuse
  <2> QED
    BY <1>2, <2>1
<1> QED
  BY <1>1, <1>2

-----------------------------------------------------------------------------
(* The answers, for every pool in which the values are right. *)

\* The joins' values.
PlacingTypeOK ==
    /\ chosen \in [Joins -> UnitIds \cup {Nowhere}]
    /\ carrying \subseteq UnitIds
    /\ ceiling \in Nat \ {0}

\* What the placer is asked to consider it answers from.
LEMMA TheBestIsThere ==
    ASSUME TypeOK, NEW S, FitIn(RowSet, S) # {}
    PROVE  /\ IsTheBest(RowSet, S, TheBest(RowSet, S))
           /\ TheBest(RowSet, S) \in S
           /\ TheBest(RowSet, S) \in DOMAIN View
           /\ RowOf(TheBest(RowSet, S)) \in FitIn(RowSet, S)
<1>1. Lists(ViewRecord, RowSet)
  BY ViewLists
<1> DEFINE k == Lowest(ViewRecord, S)
<1>2. /\ ViewRecord[k] \in FitIn(RowSet, S)
      /\ IsTheBest(RowSet, S, ViewRecord[k].id)
      /\ ViewRecord[k].id = TheBest(RowSet, S)
  BY <1>1, LowestReadsTheSet
<1> HIDE DEF k
<1>3. ViewRecord[k] \in RowSet /\ ViewRecord[k].id \in S
  BY <1>2 DEF FitIn
<1>4. RowOf(ViewRecord[k].id) = ViewRecord[k]
      /\ ViewRecord[k].id \in DOMAIN View
  BY <1>3, RowsOfView
<1> QED
  BY <1>2, <1>3, <1>4

\* It is the only best, and what fits is what the run's operators say fits.
LEMMA BestIsTheBest ==
    ASSUME TypeOK, NEW S
    PROVE  /\ Fit(S) = FitIn(RowSet, S)
           /\ FitIn(RowSet, S) # {} => Best(S) = {TheBest(RowSet, S)}
<1>1. Fit(S) = FitIn(RowSet, S)
  BY DEF Fit, FitIn
<1>2. ASSUME FitIn(RowSet, S) # {} PROVE Best(S) = {TheBest(RowSet, S)}
  <2>1. \A u : u \in Best(S) <=> IsTheBest(RowSet, S, u)
    BY <1>1 DEF Best, IsTheBest
  <2>2. RowSet \in SUBSET Rows
    BY RowsOfView
  <2>3. IsTheBest(RowSet, S, TheBest(RowSet, S))
    BY <1>2, TheBestIsThere
  <2>4. \A u : IsTheBest(RowSet, S, u) => u = TheBest(RowSet, S)
    BY <2>2, <2>3, OneBest
  <2> QED
    BY <2>1, <2>3, <2>4
<1> QED
  BY <1>1, <1>2

\* Only the units there are rows for matter.
LEMMA FitInRows ==
    ASSUME TypeOK, NEW S, NEW T, S \cap IdsOf(RowSet) = T \cap IdsOf(RowSet)
    PROVE  /\ FitIn(RowSet, S) = FitIn(RowSet, T)
           /\ Fit(S) = Fit(T) /\ Best(S) = Best(T)
<1>1. \A r \in RowSet : r.id \in S <=> r.id \in T
  BY DEF IdsOf
<1>2. FitIn(RowSet, S) = FitIn(RowSet, T)
  BY <1>1 DEF FitIn
<1>3. Fit(S) = Fit(T)
  BY <1>2, BestIsTheBest
<1> QED
  BY <1>2, <1>3 DEF Best

\* The rows are of units, and what a join is answered is read off their set.
LEMMA AnswerReadsTheSet ==
    ASSUME TypeOK
    PROVE  /\ IdsOf(RowSet) \subseteq UnitIds
           /\ \A rows : Lists(rows, RowSet) =>
                /\ PlaceConference(rows) = FirstAnswer(RowSet)
                /\ Answer(rows) = IF carrying = {} THEN FirstAnswer(RowSet)
                                  ELSE NextAnswer(RowSet, carrying, ceiling)
<1>1. IdsOf(RowSet) \subseteq UnitIds
  BY RowsOfView DEF IdsOf
<1>2. ASSUME NEW rows, Lists(rows, RowSet)
      PROVE  /\ PlaceConference(rows) = FirstAnswer(RowSet)
             /\ Answer(rows) = IF carrying = {} THEN FirstAnswer(RowSet)
                               ELSE NextAnswer(RowSet, carrying, ceiling)
  <2>1. PlaceConference(rows) = FirstAnswer(RowSet)
    BY <1>2, AnswersReadTheSet
  <2>2. PlaceParticipant(rows, carrying, ceiling)
            = NextAnswer(RowSet, carrying, ceiling)
    BY <1>2, AnswersReadTheSet
  <2> QED
    BY <2>1, <2>2 DEF Answer
<1> QED
  BY <1>1, <1>2

\* In every pool, every order of the rows gets the same answer, and for a
\* conference on no unit it is the one best there is.
LEMMA OrderDoesNotMatterHere == TypeOK => OrderDoesNotMatter
<1> SUFFICES ASSUME TypeOK, NEW rows \in Shuffles
             PROVE  /\ Answer(rows) = Answer(ViewRecord)
                    /\ IF Fit(UnitIds) = {} THEN ~PlaceConference(rows).placed
                       ELSE Best(UnitIds) = {PlaceConference(rows).unit}
  BY DEF OrderDoesNotMatter
<1>1. Lists(rows, RowSet) /\ Lists(ViewRecord, RowSet)
  BY ShuffleLists, ViewLists
<1>2. Answer(rows) = Answer(ViewRecord)
  BY <1>1, AnswerReadsTheSet
<1>3. PlaceConference(rows) = FirstAnswer(RowSet)
  BY <1>1, AnswerReadsTheSet
<1>4. UnitIds \cap IdsOf(RowSet) = IdsOf(RowSet) \cap IdsOf(RowSet)
  BY AnswerReadsTheSet
<1>5. /\ Fit(UnitIds) = FitIn(RowSet, IdsOf(RowSet))
      /\ Best(UnitIds) = Best(IdsOf(RowSet))
  BY <1>4, FitInRows, BestIsTheBest
<1>6. CASE FitIn(RowSet, IdsOf(RowSet)) = {}
  <2>1. \/ PlaceConference(rows) = Refuse("no units")
        \/ PlaceConference(rows) = Refuse("no eligible unit")
    BY <1>3, <1>6 DEF FirstAnswer
  <2>2. \A reason : ~Refuse(reason).placed
    BY DEF Refuse
  <2>3. ~PlaceConference(rows).placed
    BY <2>1, <2>2
  <2>4. Fit(UnitIds) = {}
    BY <1>5, <1>6
  <2> QED
    BY <1>2, <2>3, <2>4
<1>7. CASE FitIn(RowSet, IdsOf(RowSet)) # {}
  <2>1. RowSet # {}
    BY <1>7 DEF FitIn
  <2>2. PlaceConference(rows) = Place(TheBest(RowSet, IdsOf(RowSet)))
    BY <1>3, <1>7, <2>1 DEF FirstAnswer
  <2> QED
    BY <1>2, <1>5, <1>7, <2>2, BestIsTheBest DEF Place
<1> QED
  BY <1>6, <1>7

\* A conference reaches for another unit last.
LEMMA SecondUnitIsLastHere ==
    TypeOK /\ PlacingTypeOK => SecondUnitIsTheLastResort
<1> DEFINE answered == Answer(ViewRecord)
<1> SUFFICES ASSUME TypeOK, PlacingTypeOK, carrying # {}, answered.placed
             PROVE  IF answered.unit \in carrying
                    THEN Best(carrying) = {answered.unit}
                    ELSE /\ Fit(carrying) = {}
                         /\ Cardinality(carrying) < ceiling
                         /\ Best(UnitIds \ carrying) = {answered.unit}
  BY DEF SecondUnitIsTheLastResort
<1>1. answered = NextAnswer(RowSet, carrying, ceiling)
  BY ViewLists, AnswerReadsTheSet
<1> HIDE DEF answered
<1>2. CASE FitIn(RowSet, carrying) # {}
  <2>1. RowSet # {}
    BY <1>2 DEF FitIn
  <2>2. answered = Place(TheBest(RowSet, carrying))
    BY <1>1, <1>2, <2>1 DEF NextAnswer
  <2>3. answered.unit = TheBest(RowSet, carrying)
    BY <2>2 DEF Place
  <2>4. answered.unit \in carrying
    BY <1>2, <2>3, TheBestIsThere
  <2>5. Best(carrying) = {answered.unit}
    BY <1>2, <2>3, BestIsTheBest
  <2> QED
    BY <2>4, <2>5
<1>3. CASE FitIn(RowSet, carrying) = {}
  <2> DEFINE others == IdsOf(RowSet) \ carrying
  <2>1. /\ ~(Cardinality(carrying) >= ceiling)
        /\ FitIn(RowSet, others) # {}
        /\ answered = Place(TheBest(RowSet, others))
    BY <1>1, <1>3 DEF NextAnswer, Refuse
  <2>2. answered.unit = TheBest(RowSet, others)
    BY <2>1 DEF Place
  <2>3. answered.unit \notin carrying
    BY <2>1, <2>2, TheBestIsThere
  <2>4. Best(others) = {answered.unit}
    BY <2>1, <2>2, BestIsTheBest
  <2>5. (UnitIds \ carrying) \cap IdsOf(RowSet) = others \cap IdsOf(RowSet)
    BY AnswerReadsTheSet
  <2>6. Best(UnitIds \ carrying) = Best(others)
    BY <2>5, FitInRows
  <2>7. Cardinality(carrying) \in Nat /\ ceiling \in Nat
    BY PlacingAssumption, FS_Subset, FS_CardinalityType DEF PlacingTypeOK
  <2> QED
    BY <1>3, <2>1, <2>3, <2>4, <2>6, <2>7, BestIsTheBest
<1> QED
  BY <1>2, <1>3

\* Another machine, empty and admitting, would have taken the arrival exactly
\* when the refusal was not the conference's ceiling.
LEMMA GrowingHelpsHere ==
    TypeOK /\ PlacingTypeOK => GrowingHelpsUnlessAtTheCeiling
<1> SUFFICES ASSUME TypeOK, PlacingTypeOK, NEW fresh \in Newcomers
             PROVE  LET machine == [id |-> fresh, load |-> 0, state |-> "admitting"]
                        answered == Answer(ViewRecord)
                        grown == Answer(Append(ViewRecord, machine))
                    IN  /\ answered = Refuse("no eligible unit") => grown = Place(fresh)
                        /\ answered = Refuse("reached unit ceiling") => grown = answered
  BY DEF GrowingHelpsUnlessAtTheCeiling
<1> DEFINE machine == [id |-> fresh, load |-> 0, state |-> "admitting"]
           rows == Append(ViewRecord, machine)
           R == RowSet \cup {machine}
<1>1. /\ machine \in Rows /\ machine.id = fresh
      /\ fresh \notin UnitIds /\ Eligible(machine)
  BY PlacingAssumption, PlacerAssumption DEF Rows, States, Eligible
<1>2. Lists(rows, R)
  <2> DEFINE n == Len(ViewRecord)
  <2>1. /\ ViewRecord \in Seq(Rows) /\ n \in Nat /\ DOMAIN ViewRecord = 1..n
        /\ RowSet = {ViewRecord[i] : i \in 1..n}
        /\ \A i, j \in 1..n : ViewRecord[i].id = ViewRecord[j].id => i = j
    BY ViewLists, RowsAreRows DEF Lists, AreRows
  <2> HIDE DEF machine
  <2>2. /\ rows \in Seq(Rows) /\ Len(rows) = n + 1 /\ DOMAIN rows = 1..(n + 1)
        /\ \A i \in 1..n : rows[i] = ViewRecord[i]
        /\ rows[n + 1] = machine
    BY <1>1, <2>1, AppendProperties, LenProperties
  <2> HIDE DEF rows, n
  <2>3. \A i \in 1..n : rows[i].id # fresh
    <3>1. \A r \in RowSet : r.id \in UnitIds
      BY RowsOfView
    <3> QED
      BY <1>1, <2>1, <2>2, <3>1
  <2>4. ASSUME NEW i \in 1..(n + 1), NEW j \in 1..(n + 1), rows[i].id = rows[j].id
        PROVE  i = j
    <3>1. (i \in 1..n \/ i = n + 1) /\ (j \in 1..n \/ j = n + 1)
      BY <2>1
    <3>2. CASE i \in 1..n /\ j \in 1..n
      BY <2>1, <2>2, <2>4, <3>2
    <3>3. CASE ~(i \in 1..n /\ j \in 1..n)
      BY <1>1, <2>2, <2>3, <2>4, <3>1, <3>3
    <3> QED
      BY <3>2, <3>3
  <2>5. R = {rows[i] : i \in 1..(n + 1)}
    <3>1. \A i \in 1..(n + 1) : i \in 1..n \/ i = n + 1
      BY <2>1
    <3>2. (\A i \in 1..n : i \in 1..(n + 1)) /\ n + 1 \in 1..(n + 1)
      BY <2>1
    <3> QED
      BY <2>1, <2>2, <3>1, <3>2
  <2> QED
    BY <2>2, <2>4, <2>5 DEF Lists, AreRows
<1>3. /\ PlaceConference(rows) = FirstAnswer(R)
      /\ PlaceParticipant(rows, carrying, ceiling)
            = NextAnswer(R, carrying, ceiling)
  BY <1>2, AnswersReadTheSet
<1>4. /\ Answer(rows) = IF carrying = {} THEN FirstAnswer(R)
                        ELSE NextAnswer(R, carrying, ceiling)
      /\ Answer(ViewRecord) = IF carrying = {} THEN FirstAnswer(RowSet)
                              ELSE NextAnswer(RowSet, carrying, ceiling)
  BY <1>3, ViewLists, AnswerReadsTheSet DEF Answer
<1>5. IdsOf(R) = IdsOf(RowSet) \cup {fresh}
  BY <1>1 DEF IdsOf
<1>6. R # {} /\ IdsOf(RowSet) \subseteq UnitIds
  BY AnswerReadsTheSet
<1>7. ASSUME NEW S, fresh \notin S PROVE FitIn(R, S) = FitIn(RowSet, S)
  BY <1>1, <1>7 DEF FitIn
<1>8. ASSUME NEW S, fresh \in S, FitIn(RowSet, S \ {fresh}) = {}
      PROVE  FitIn(R, S) # {} /\ TheBest(R, S) = fresh
  <2>1. FitIn(RowSet, S) = {}
    <3>1. \A r \in RowSet : r.id # fresh
      BY <1>1, <1>6 DEF IdsOf
    <3> QED
      BY <1>8, <3>1 DEF FitIn
  <2>2. FitIn(R, S) = {machine}
    BY <1>1, <1>8, <2>1 DEF FitIn
  <2> HIDE DEF machine, R
  <2>3. \A u : IsTheBest(R, S, u) <=> u = fresh
    BY <1>1, <2>2 DEF IsTheBest
  <2> QED
    BY <2>2, <2>3 DEF TheBest
<1> HIDE DEF machine, rows, R
<1>9. ASSUME Answer(ViewRecord) = Refuse("no eligible unit")
      PROVE  Answer(rows) = Place(fresh)
  <2>1. CASE carrying = {}
    <3>1. FitIn(RowSet, IdsOf(RowSet)) = {}
      BY <1>4, <1>9, <2>1, AnswersDiffer DEF FirstAnswer
    <3>2. IdsOf(R) \ {fresh} = IdsOf(RowSet)
      BY <1>1, <1>5, <1>6
    <3>3. FitIn(R, IdsOf(R)) # {} /\ TheBest(R, IdsOf(R)) = fresh
      BY <1>5, <1>8, <3>1, <3>2
    <3> QED
      BY <1>4, <1>6, <2>1, <3>3 DEF FirstAnswer
  <2>2. CASE carrying # {}
    <3>1. /\ FitIn(RowSet, carrying) = {}
          /\ ~(Cardinality(carrying) >= ceiling)
          /\ FitIn(RowSet, IdsOf(RowSet) \ carrying) = {}
      BY <1>4, <1>9, <2>2, AnswersDiffer DEF NextAnswer
    <3>2. fresh \notin carrying
      BY <1>1 DEF PlacingTypeOK
    <3>3. FitIn(R, carrying) = {}
      BY <1>7, <3>1, <3>2
    <3>4. (IdsOf(R) \ carrying) \ {fresh} = IdsOf(RowSet) \ carrying
      BY <1>1, <1>5, <1>6
    <3>5. /\ FitIn(R, IdsOf(R) \ carrying) # {}
          /\ TheBest(R, IdsOf(R) \ carrying) = fresh
      BY <1>5, <1>8, <3>1, <3>2, <3>4
    <3> QED
      BY <1>4, <1>6, <2>2, <3>1, <3>3, <3>5 DEF NextAnswer
  <2> QED
    BY <2>1, <2>2
<1>10. ASSUME Answer(ViewRecord) = Refuse("reached unit ceiling")
       PROVE  Answer(rows) = Answer(ViewRecord)
  <2>1. carrying # {}
    BY <1>4, <1>10, AnswersDiffer DEF FirstAnswer
  <2>2. FitIn(RowSet, carrying) = {} /\ Cardinality(carrying) >= ceiling
    BY <1>4, <1>10, <2>1, AnswersDiffer DEF NextAnswer
  <2>3. fresh \notin carrying
    BY <1>1 DEF PlacingTypeOK
  <2>4. FitIn(R, carrying) = {}
    BY <1>7, <2>2, <2>3
  <2> QED
    BY <1>4, <1>6, <1>10, <2>1, <2>2, <2>4 DEF NextAnswer
<1> QED
  BY <1>9, <1>10 DEF rows, machine

-----------------------------------------------------------------------------
(* What the joins in progress may do to the pool. *)

\* The joins about to commit to this unit, and those about to take the
\* conference to a unit it is not on.
WaitingFor(u) == {j \in Joins : chosen[j] = u}
Reaching      == {j \in Joins : chosen[j] \notin carrying \cup {Nowhere}}

\* What is still to be committed to a unit is counted with what was: a unit
\* was under the ceiling when the last of them asked, or all there is was
\* committed since its report.
LoadCovered ==
    \A u \in UnitIds :
        \/ EffectiveLoad(u) + Cardinality(WaitingFor(u))
                < EligibilityCeiling + Cardinality(Joins)
        \/ committed[u] + Cardinality(WaitingFor(u)) <= Cardinality(Joins)

\* And the units the conference is about to be on with those it is on.
CeilingCovered ==
    Cardinality(carrying) + Cardinality(Reaching) < ceiling + Cardinality(Joins)

PlacingInv == TypeOK /\ PlacingTypeOK /\ LoadCovered /\ CeilingCovered

\* The numbers these count are numbers, and no more than all joins wait.
LEMMA JoinsAreCounted ==
    /\ Cardinality(Joins) \in Nat
    /\ \A S \in SUBSET Joins : /\ IsFiniteSet(S) /\ Cardinality(S) \in Nat
                               /\ Cardinality(S) <= Cardinality(Joins)
    /\ \A S \in SUBSET Joins : \A j \in Joins \ S :
            /\ Cardinality(S \cup {j}) = Cardinality(S) + 1
            /\ Cardinality(S) + 1 <= Cardinality(Joins)
<1>1. \A S \in SUBSET Joins : /\ IsFiniteSet(S) /\ Cardinality(S) \in Nat
                              /\ Cardinality(S) <= Cardinality(Joins)
  BY PlacingAssumption, FS_Subset, FS_CardinalityType
<1>2. ASSUME NEW S \in SUBSET Joins, NEW j \in Joins \ S
      PROVE  /\ Cardinality(S \cup {j}) = Cardinality(S) + 1
             /\ Cardinality(S) + 1 <= Cardinality(Joins)
  <2>1. Cardinality(S \cup {j}) = Cardinality(S) + 1
    BY <1>1, FS_AddElement
  <2> QED
    BY <1>1, <2>1
<1> QED
  BY <1>1, <1>2, PlacingAssumption, FS_CardinalityType

\* What the placer answers is a unit with room, and for a conference on some
\* units one of these or one more below its ceiling.
LEMMA AnswerHasRoom ==
    ASSUME TypeOK, PlacingTypeOK, Answer(ViewRecord).placed
    PROVE  LET u == Answer(ViewRecord).unit IN
           /\ u \in UnitIds /\ EffectiveLoad(u) < EligibilityCeiling
           /\ u \notin carrying => Cardinality(carrying) < ceiling
<1> DEFINE u == Answer(ViewRecord).unit
<1>1. Answer(ViewRecord) = IF carrying = {} THEN FirstAnswer(RowSet)
                           ELSE NextAnswer(RowSet, carrying, ceiling)
  BY ViewLists, AnswerReadsTheSet
<1>2. \A reason : ~Refuse(reason).placed
  BY DEF Refuse
<1>3. \A v : Place(v).unit = v
  BY DEF Place
<1>4. Cardinality(carrying) \in Nat /\ ceiling \in Nat \ {0}
  BY PlacingAssumption, FS_Subset, FS_CardinalityType DEF PlacingTypeOK
<1>5. ASSUME NEW S, FitIn(RowSet, S) # {}, u = TheBest(RowSet, S)
      PROVE  u \in UnitIds /\ EffectiveLoad(u) < EligibilityCeiling /\ u \in S
  <2>1. u \in S /\ u \in DOMAIN View /\ RowOf(u) \in FitIn(RowSet, S)
    BY <1>5, TheBestIsThere
  <2>2. Eligible(RowOf(u))
    BY <2>1 DEF FitIn
  <2>3. u \in UnitIds /\ RowOf(u).load = EffectiveLoad(u)
    BY <2>1, RowsOfView
  <2> QED
    BY <2>1, <2>2, <2>3 DEF Eligible
<1> HIDE DEF u
<1>6. CASE carrying = {}
  <2>1. /\ FitIn(RowSet, IdsOf(RowSet)) # {}
        /\ Answer(ViewRecord) = Place(TheBest(RowSet, IdsOf(RowSet)))
    BY <1>1, <1>2, <1>6 DEF FirstAnswer
  <2>2. u = TheBest(RowSet, IdsOf(RowSet))
    BY <1>3, <2>1 DEF u
  <2>3. Cardinality(carrying) = 0
    BY <1>6, FS_EmptySet
  <2> QED
    BY <1>4, <1>5, <2>1, <2>2, <2>3 DEF u
<1>7. CASE carrying # {}
  <2>1. CASE FitIn(RowSet, carrying) # {}
    <3>1. Answer(ViewRecord) = Place(TheBest(RowSet, carrying))
      BY <1>1, <1>2, <1>7, <2>1 DEF NextAnswer
    <3>2. u = TheBest(RowSet, carrying)
      BY <1>3, <3>1 DEF u
    <3> QED
      BY <1>5, <2>1, <3>2 DEF u
  <2>2. CASE FitIn(RowSet, carrying) = {}
    <3> DEFINE others == IdsOf(RowSet) \ carrying
    <3>1. /\ ~(Cardinality(carrying) >= ceiling)
          /\ FitIn(RowSet, others) # {}
          /\ Answer(ViewRecord) = Place(TheBest(RowSet, others))
      BY <1>1, <1>2, <1>7, <2>2 DEF NextAnswer
    <3>2. u = TheBest(RowSet, others)
      BY <1>3, <3>1 DEF u
    <3>3. Cardinality(carrying) < ceiling
      BY <1>4, <3>1
    <3> HIDE DEF others
    <3> QED
      BY <1>5, <3>1, <3>2, <3>3 DEF u
  <2> QED
    BY <2>1, <2>2
<1> QED
  BY <1>6, <1>7

\* The joins begin with nothing committed and nobody waiting.
LEMMA PlacingBegins == PlacingInit => PlacingInv
<1> SUFFICES ASSUME PlacingInit PROVE PlacingInv
  OBVIOUS
<1>1. TypeOK
  <2>1. Cardinality(UnitIds) \in Nat
    BY PlacingAssumption, FS_CardinalityType
  <2>2. order \in Seq(UnitIds)
    BY <2>1, SeqDef DEF PlacingInit
  <2>3. /\ state \in [UnitIds -> States] /\ cause \in [UnitIds -> Causes]
        /\ reachable \in [UnitIds -> BOOLEAN]
        /\ healthy \in [UnitIds -> BOOLEAN]
        /\ registered \in [UnitIds -> BOOLEAN]
    BY DEF PlacingInit, States, Causes
  <2>4. /\ reported \in [UnitIds -> Nat] /\ committed \in [UnitIds -> Nat]
        /\ age \in [UnitIds -> {Never} \cup (0..AgeCap)]
    BY DEF PlacingInit
  <2>5. /\ asking \in [Collects -> SUBSET UnitIds]
        /\ answer \in [Collects -> Loads \cup {NoAnswer, NotALoad}]
    BY DEF PlacingInit
  <2> QED
    BY <2>2, <2>3, <2>4, <2>5 DEF TypeOK
<1>2. PlacingTypeOK
  BY PlacingAssumption DEF PlacingInit, PlacingTypeOK
<1>3. \A u \in UnitIds : WaitingFor(u) = {}
  <2>1. Nowhere \notin UnitIds
    BY PlacingAssumption DEF Nowhere
  <2> QED
    BY <2>1 DEF PlacingInit, WaitingFor
<1>4. Reaching = {}
  BY DEF PlacingInit, Reaching
<1>5. LoadCovered
  <2>1. ASSUME NEW u \in UnitIds
        PROVE  Cardinality(WaitingFor(u)) = 0 /\ committed[u] = 0
    <3>1. Cardinality({}) = 0
      BY FS_EmptySet
    <3>2. WaitingFor(u) = {}
      BY <1>3
    <3>3. Cardinality(WaitingFor(u)) = 0
      BY <3>1, <3>2
    <3> QED
      BY <3>3 DEF PlacingInit
  <2>2. Cardinality(Joins) \in Nat
    BY JoinsAreCounted
  <2>3. \A u \in UnitIds :
          committed[u] + Cardinality(WaitingFor(u)) <= Cardinality(Joins)
    <3> TAKE u \in UnitIds
    <3> DEFINE c == committed[u]
               w == Cardinality(WaitingFor(u))
               n == Cardinality(Joins)
    <3>1. c = 0 /\ w = 0 /\ n \in Nat
      BY <2>1, <2>2
    <3> HIDE DEF c, w, n
    <3>2. c + w <= n
      BY <3>1
    <3> QED
      BY <3>2 DEF c, w, n
  <2> QED
    BY <2>3 DEF LoadCovered
<1>6. CeilingCovered
  <2>1. Cardinality(carrying) = 0 /\ Cardinality(Reaching) = 0
    BY <1>4, FS_EmptySet DEF PlacingInit
  <2>2. ceiling \in Nat /\ ceiling > 0
    BY <1>2 DEF PlacingTypeOK
  <2> QED
    BY <2>1, <2>2, JoinsAreCounted DEF CeilingCovered
<1> QED
  BY <1>1, <1>2, <1>5, <1>6 DEF PlacingInv

\* Whoever is about to be committed to u and is no more, or is committed to
\* another unit, is one join.
LEMMA WaitingMoves ==
    ASSUME PlacingTypeOK, NEW j \in Joins, NEW to \in UnitIds \cup {Nowhere},
           chosen' = [chosen EXCEPT ![j] = to], NEW u \in UnitIds
    PROVE  /\ Cardinality(WaitingFor(u)) \in Nat
           /\ Cardinality(WaitingFor(u)') \in Nat
           /\ Cardinality(WaitingFor(u)') <= Cardinality(Joins)
           /\ to # u => Cardinality(WaitingFor(u)') <= Cardinality(WaitingFor(u))
           /\ to # u /\ chosen[j] = u =>
                Cardinality(WaitingFor(u)') + 1 = Cardinality(WaitingFor(u))
           /\ Cardinality(WaitingFor(u)') <= Cardinality(WaitingFor(u)) + 1
<1> DEFINE W == WaitingFor(u)
           V == {k \in Joins : chosen'[k] = u}
           A == W \ {j}
<1>0. WaitingFor(u)' = V
  BY DEF WaitingFor
<1>1. W \in SUBSET Joins /\ V \in SUBSET Joins /\ A \in SUBSET Joins
      /\ A \in SUBSET W /\ j \in Joins \ A /\ A \in SUBSET V
  BY DEF WaitingFor, PlacingTypeOK
<1>2. /\ to # u => V = A
      /\ chosen[j] = u => W = A \cup {j}
      /\ V = A \/ V = A \cup {j}
  BY DEF WaitingFor, PlacingTypeOK
<1> HIDE DEF W, V, A
<1>3. /\ Cardinality(W) \in Nat /\ Cardinality(V) \in Nat /\ Cardinality(A) \in Nat
      /\ Cardinality(V) <= Cardinality(Joins) /\ IsFiniteSet(W)
      /\ Cardinality(A \cup {j}) = Cardinality(A) + 1
  BY <1>1, JoinsAreCounted
<1>4. Cardinality(A) <= Cardinality(W)
  BY <1>1, <1>3, FS_Subset
<1>5. Cardinality(V) <= Cardinality(W) + 1
  BY <1>2, <1>3, <1>4
<1>6. to # u => Cardinality(V) <= Cardinality(W)
  BY <1>2, <1>4
<1>7. to # u /\ chosen[j] = u => Cardinality(V) + 1 = Cardinality(W)
  BY <1>2, <1>3
<1> QED
  BY <1>0, <1>3, <1>5, <1>6, <1>7 DEF W

\* What a join in progress does with its choice (Ask, Join, JoinRefused).
LEMMA AskStep ==
    ASSUME PlacingInv, NEW j \in Joins, Ask(j)
    PROVE  PlacingTypeOK' /\ LoadCovered' /\ CeilingCovered'
<1> DEFINE v == Answer(ViewRecord).unit
<1>1. /\ v \in UnitIds /\ EffectiveLoad(v) < EligibilityCeiling
      /\ v \notin carrying => Cardinality(carrying) < ceiling
      /\ TypeOK /\ PlacingTypeOK
  BY AnswerHasRoom DEF Ask, PlacingInv
<1>2. /\ chosen[j] = Nowhere /\ chosen' = [chosen EXCEPT ![j] = v]
      /\ UNCHANGED <<vars, carrying, ceiling>>
  BY DEF Ask
<1> HIDE DEF v
<1>3. PlacingTypeOK'
  BY <1>1, <1>2 DEF PlacingTypeOK
<1>4. \A u \in UnitIds : UNCHANGED <<committed[u], EffectiveLoad(u)>>
  BY <1>2 DEF vars, loadVars, EffectiveLoad
<1>5. \A u \in UnitIds : EffectiveLoad(u) \in Nat /\ committed[u] \in Nat
  BY <1>1 DEF TypeOK, EffectiveLoad
<1>n. EligibilityCeiling \in Nat /\ Cardinality(Joins) \in Nat
  BY PlacerAssumption, JoinsAreCounted
<1>6. ASSUME NEW u \in UnitIds
      PROVE  \/ EffectiveLoad(u)' + Cardinality(WaitingFor(u)')
                    < EligibilityCeiling + Cardinality(Joins)
             \/ committed'[u] + Cardinality(WaitingFor(u)') <= Cardinality(Joins)
  <2>1. /\ Cardinality(WaitingFor(u)) \in Nat
        /\ Cardinality(WaitingFor(u)') \in Nat
        /\ Cardinality(WaitingFor(u)') <= Cardinality(Joins)
        /\ v # u => Cardinality(WaitingFor(u)') <= Cardinality(WaitingFor(u))
    BY <1>1, <1>2, WaitingMoves
  <2>2. \/ EffectiveLoad(u) + Cardinality(WaitingFor(u))
                < EligibilityCeiling + Cardinality(Joins)
        \/ committed[u] + Cardinality(WaitingFor(u)) <= Cardinality(Joins)
    BY DEF PlacingInv, LoadCovered
  <2>3. EffectiveLoad(u)' = EffectiveLoad(u) /\ committed'[u] = committed[u]
    BY <1>4
  <2>4. EffectiveLoad(u) \in Nat /\ committed[u] \in Nat
    BY <1>5
  <2>5. CASE v = u
    <3>1. EffectiveLoad(u) < EligibilityCeiling
      BY <1>1, <2>5
    <3> QED
      BY <1>n, <2>1, <2>3, <2>4, <3>1
  <2>6. CASE v # u
    BY <1>n, <2>1, <2>2, <2>3, <2>4, <2>6
  <2> QED
    BY <2>5, <2>6
<1>7. LoadCovered'
  BY <1>6 DEF LoadCovered
<1>8. CeilingCovered'
  <2> DEFINE V == {k \in Joins : chosen'[k] \notin carrying \cup {Nowhere}}
  <2>0. Reaching' = V /\ Cardinality(carrying)' = Cardinality(carrying)
        /\ ceiling' = ceiling
    BY <1>2 DEF Reaching
  <2>1. Reaching \in SUBSET Joins /\ V \in SUBSET Joins
    BY DEF Reaching
  <2>2. /\ Cardinality(carrying) \in Nat /\ ceiling \in Nat
        /\ Cardinality(V) \in Nat /\ Cardinality(V) <= Cardinality(Joins)
    BY <1>1, <2>1, JoinsAreCounted, PlacingAssumption, FS_Subset,
       FS_CardinalityType DEF PlacingTypeOK
  <2>3. CASE v \in carrying
    <3>1. V = Reaching
      BY <1>1, <1>2, <2>3 DEF Reaching, PlacingTypeOK
    <3> QED
      BY <2>0, <3>1 DEF PlacingInv, CeilingCovered
  <2>4. CASE v \notin carrying
    <3>1. Cardinality(carrying) < ceiling
      BY <1>1, <2>4
    <3> HIDE DEF V
    <3>2. Cardinality(carrying) + Cardinality(V) < ceiling + Cardinality(Joins)
      BY <1>n, <2>2, <3>1
    <3> QED
      BY <2>0, <3>2 DEF CeilingCovered
  <2> QED
    BY <2>3, <2>4
<1> QED
  BY <1>3, <1>7, <1>8

\* A commitment is counted once: it was waited for before.
LEMMA JoinStep ==
    ASSUME PlacingInv, NEW j \in Joins, Join(j)
    PROVE  TypeOK' /\ PlacingTypeOK' /\ LoadCovered' /\ CeilingCovered'
<1> DEFINE v == chosen[j]
<1>1. /\ TypeOK /\ PlacingTypeOK /\ v \in UnitIds
      /\ chosen' = [chosen EXCEPT ![j] = Nowhere]
      /\ carrying' = carrying \cup {v} /\ ceiling' = ceiling
      /\ committed' = [committed EXCEPT ![v] = @ + 1]
      /\ UNCHANGED <<order, state, cause, registered, inputVars, reported, age,
                     collectVars>>
  BY DEF Join, Commit, Cost, PlacingInv, PlacingTypeOK
<1>2. v # Nowhere
  BY DEF Join
<1> HIDE DEF v
<1>3. TypeOK'
  <2>1. committed' \in [UnitIds -> Nat]
    BY <1>1 DEF TypeOK
  <2> QED
    BY <1>1, <2>1 DEF TypeOK, inputVars, collectVars
<1>4. PlacingTypeOK'
  BY <1>1 DEF PlacingTypeOK
<1>n. EligibilityCeiling \in Nat /\ Cardinality(Joins) \in Nat
  BY PlacerAssumption, JoinsAreCounted
<1>5. ASSUME NEW u \in UnitIds
      PROVE  \/ EffectiveLoad(u)' + Cardinality(WaitingFor(u)')
                    < EligibilityCeiling + Cardinality(Joins)
             \/ committed'[u] + Cardinality(WaitingFor(u)') <= Cardinality(Joins)
  <2>1. /\ Cardinality(WaitingFor(u)) \in Nat
        /\ Cardinality(WaitingFor(u)') \in Nat
        /\ Cardinality(WaitingFor(u)') <= Cardinality(WaitingFor(u))
        /\ v = u => Cardinality(WaitingFor(u)') + 1 = Cardinality(WaitingFor(u))
    <3>1. u # Nowhere
      BY PlacingAssumption DEF Nowhere
    <3> QED
      BY <1>1, <3>1, WaitingMoves DEF v
  <2>2. \/ EffectiveLoad(u) + Cardinality(WaitingFor(u))
                < EligibilityCeiling + Cardinality(Joins)
        \/ committed[u] + Cardinality(WaitingFor(u)) <= Cardinality(Joins)
    BY DEF PlacingInv, LoadCovered
  <2>3. reported[u] \in Nat /\ committed[u] \in Nat /\ reported'[u] = reported[u]
    BY <1>1 DEF TypeOK
  <2>4. /\ EffectiveLoad(u) = reported[u] + committed[u]
        /\ EffectiveLoad(u)' = reported'[u] + committed'[u]
    BY DEF EffectiveLoad
  <2>5. CASE v = u
    <3>1. committed'[u] = committed[u] + 1
      BY <1>1, <2>5 DEF TypeOK
    <3> QED
      BY <1>n, <2>1, <2>2, <2>3, <2>4, <2>5, <3>1
  <2>6. CASE v # u
    <3>1. committed'[u] = committed[u]
      BY <1>1, <2>6 DEF TypeOK
    <3> QED
      BY <1>n, <2>1, <2>2, <2>3, <2>4, <3>1
  <2> QED
    BY <2>5, <2>6
<1>6. LoadCovered'
  BY <1>5 DEF LoadCovered
<1>7. CeilingCovered'
  <2> DEFINE V == {k \in Joins : chosen'[k] \notin carrying' \cup {Nowhere}}
  <2>0. Reaching' = V
    BY DEF Reaching
  <2>1. Reaching \in SUBSET Joins /\ V \in SUBSET Joins /\ IsFiniteSet(carrying)
    BY <1>1, PlacingAssumption, FS_Subset DEF Reaching, PlacingTypeOK
  <2>2. /\ Cardinality(carrying) \in Nat /\ ceiling \in Nat
        /\ Cardinality(V) \in Nat /\ Cardinality(Reaching) \in Nat
    BY <1>1, <2>1, JoinsAreCounted, FS_CardinalityType DEF PlacingTypeOK
  <2>3. V \subseteq Reaching /\ j \notin V
    BY <1>1 DEF Reaching, PlacingTypeOK
  <2>4. Cardinality(carrying) + Cardinality(Reaching) < ceiling + Cardinality(Joins)
    BY DEF PlacingInv, CeilingCovered
  <2>5. CASE v \in carrying
    <3>1. carrying' = carrying
      BY <1>1, <2>5
    <3> HIDE DEF V
    <3>2. Cardinality(V) <= Cardinality(Reaching)
      BY <2>1, <2>3, JoinsAreCounted, FS_Subset
    <3>3. Cardinality(carrying) + Cardinality(V) < ceiling + Cardinality(Joins)
      BY <1>n, <2>2, <2>4, <3>2
    <3> QED
      BY <1>1, <2>0, <3>1, <3>3 DEF CeilingCovered
  <2>6. CASE v \notin carrying
    <3>1. j \in Reaching
      BY <1>2, <2>6 DEF Reaching, v
    <3> HIDE DEF V
    <3>2. Cardinality(carrying') = Cardinality(carrying) + 1
      BY <1>1, <2>1, <2>6, FS_AddElement
    <3>3. V \cup {j} \in SUBSET Reaching /\ IsFiniteSet(Reaching)
      BY <2>1, <2>3, <3>1, JoinsAreCounted
    <3>4. Cardinality(V) + 1 <= Cardinality(Reaching)
      <4>1. Cardinality(V \cup {j}) <= Cardinality(Reaching)
        BY <3>3, FS_Subset
      <4> QED
        BY <2>1, <2>3, <4>1, JoinsAreCounted
    <3>5. Cardinality(carrying') + Cardinality(V) < ceiling + Cardinality(Joins)
      BY <1>n, <2>2, <2>4, <3>2, <3>4
    <3> QED
      BY <1>1, <2>0, <3>5 DEF CeilingCovered
  <2> QED
    BY <2>5, <2>6
<1> QED
  BY <1>3, <1>4, <1>6, <1>7

\* A join that is refused is waited for no more.
LEMMA RefusedStep ==
    ASSUME PlacingInv, NEW j \in Joins, JoinRefused(j)
    PROVE  PlacingTypeOK' /\ LoadCovered' /\ CeilingCovered'
<1>1. /\ TypeOK /\ PlacingTypeOK
      /\ chosen' = [chosen EXCEPT ![j] = Nowhere]
      /\ UNCHANGED <<vars, carrying, ceiling>>
  BY DEF JoinRefused, PlacingInv
<1>2. PlacingTypeOK'
  BY <1>1 DEF PlacingTypeOK
<1>n. EligibilityCeiling \in Nat /\ Cardinality(Joins) \in Nat
  BY PlacerAssumption, JoinsAreCounted
<1>3. ASSUME NEW u \in UnitIds
      PROVE  \/ EffectiveLoad(u)' + Cardinality(WaitingFor(u)')
                    < EligibilityCeiling + Cardinality(Joins)
             \/ committed'[u] + Cardinality(WaitingFor(u)') <= Cardinality(Joins)
  <2>1. /\ Cardinality(WaitingFor(u)) \in Nat
        /\ Cardinality(WaitingFor(u)') \in Nat
        /\ Cardinality(WaitingFor(u)') <= Cardinality(WaitingFor(u))
    <3>1. u # Nowhere
      BY PlacingAssumption DEF Nowhere
    <3> QED
      BY <1>1, <3>1, WaitingMoves
  <2>2. \/ EffectiveLoad(u) + Cardinality(WaitingFor(u))
                < EligibilityCeiling + Cardinality(Joins)
        \/ committed[u] + Cardinality(WaitingFor(u)) <= Cardinality(Joins)
    BY DEF PlacingInv, LoadCovered
  <2>3. /\ EffectiveLoad(u) \in Nat /\ committed[u] \in Nat
        /\ EffectiveLoad(u)' = EffectiveLoad(u) /\ committed'[u] = committed[u]
    BY <1>1 DEF TypeOK, EffectiveLoad, vars, loadVars
  <2> QED
    BY <1>n, <2>1, <2>2, <2>3
<1>4. LoadCovered'
  BY <1>3 DEF LoadCovered
<1>5. CeilingCovered'
  <2> DEFINE V == {k \in Joins : chosen'[k] \notin carrying \cup {Nowhere}}
  <2>0. Reaching' = V /\ Cardinality(carrying)' = Cardinality(carrying)
        /\ ceiling' = ceiling
    BY <1>1 DEF Reaching
  <2>1. Reaching \in SUBSET Joins /\ V \in SUBSET Reaching
    BY <1>1 DEF Reaching, PlacingTypeOK
  <2> HIDE DEF V
  <2>2. /\ Cardinality(V) \in Nat /\ Cardinality(Reaching) \in Nat
        /\ Cardinality(V) <= Cardinality(Reaching)
    BY <2>1, JoinsAreCounted, FS_Subset
  <2>3. Cardinality(carrying) \in Nat /\ ceiling \in Nat
    BY <1>1, PlacingAssumption, FS_Subset, FS_CardinalityType DEF PlacingTypeOK
  <2>4. Cardinality(carrying) + Cardinality(Reaching) < ceiling + Cardinality(Joins)
    BY DEF PlacingInv, CeilingCovered
  <2>5. Cardinality(carrying) + Cardinality(V) < ceiling + Cardinality(Joins)
    BY <1>n, <2>2, <2>3, <2>4
  <2> QED
    BY <2>0, <2>5 DEF CeilingCovered
<1> QED
  BY <1>2, <1>4, <1>5

\* A report forgets what was committed, and the joins in progress are not
\* more than there are; nothing else the pool does changes what is covered.
LEMMA PoolMovesStep ==
    ASSUME PlacingInv, PoolMoves
    PROVE  TypeOK' /\ PlacingTypeOK' /\ LoadCovered' /\ CeilingCovered'
<1>1. /\ TypeOK /\ PlacingTypeOK /\ LoadCovered /\ CeilingCovered
      /\ UNCHANGED <<chosen, carrying, ceiling>>
  BY DEF PoolMoves, joinVars, PlacingInv
<1>2. PICK u \in UnitIds :
        \/ \E load \in Loads : Report(u, load)
        \/ \E why \in AskedCauses : Drain(u, why) \/ Retire(u, why)
  BY DEF PoolMoves
<1>3. TypeOK'
  <2>1. Next
    BY <1>2 DEF Next, PlainCall
  <2> QED
    BY <1>1, <2>1, TypeStep
<1>4. PlacingTypeOK' /\ CeilingCovered'
  BY <1>1 DEF PlacingTypeOK, CeilingCovered, Reaching
<1>5. \A v \in UnitIds : WaitingFor(v)' = WaitingFor(v)
  BY <1>1 DEF WaitingFor
<1>6. ASSUME NEW v \in UnitIds
      PROVE  \/ EffectiveLoad(v)' + Cardinality(WaitingFor(v)')
                    < EligibilityCeiling + Cardinality(Joins)
             \/ committed'[v] + Cardinality(WaitingFor(v)') <= Cardinality(Joins)
  <2>1. \/ committed'[v] = 0
        \/ committed'[v] = committed[v] /\ reported'[v] = reported[v]
    BY <1>1, <1>2
    DEF TypeOK, Report, RecordLoad, Drain, Retire, Move, loadVars
  <2>2. CASE committed'[v] = 0
    <3>1. Cardinality(WaitingFor(v)) \in Nat
          /\ Cardinality(WaitingFor(v)) <= Cardinality(Joins)
      BY JoinsAreCounted DEF WaitingFor
    <3> QED
      BY <1>5, <2>2, <3>1
  <2>3. CASE committed'[v] = committed[v] /\ reported'[v] = reported[v]
    BY <1>1, <1>5, <2>3 DEF LoadCovered, EffectiveLoad
  <2> QED
    BY <2>1, <2>2, <2>3
<1>7. LoadCovered'
  BY <1>6 DEF LoadCovered
<1> QED
  BY <1>3, <1>4, <1>7

\* The invariant holds throughout, however many joins there are.
THEOREM PlacingInvariant == PlacingSpec => []PlacingInv
<1>1. PlacingInv /\ [PlacingNext]_allVars => PlacingInv'
  <2> SUFFICES ASSUME PlacingInv, [PlacingNext]_allVars PROVE PlacingInv'
    OBVIOUS
  <2>1. ASSUME UNCHANGED vars PROVE TypeOK'
    BY <2>1, TypeStep DEF PlacingInv
  <2>2. ASSUME NEW j \in Joins, Ask(j) PROVE PlacingInv'
    BY <2>1, <2>2, AskStep DEF Ask, PlacingInv
  <2>3. ASSUME NEW j \in Joins, Join(j) PROVE PlacingInv'
    BY <2>3, JoinStep DEF PlacingInv
  <2>4. ASSUME NEW j \in Joins, JoinRefused(j) PROVE PlacingInv'
    BY <2>1, <2>4, RefusedStep DEF JoinRefused, PlacingInv
  <2>5. ASSUME PoolMoves PROVE PlacingInv'
    BY <2>5, PoolMovesStep DEF PlacingInv
  <2>6. ASSUME UNCHANGED allVars PROVE PlacingInv'
    <3>1. UNCHANGED <<vars, chosen, carrying, ceiling, committed, reported>>
      BY <2>6 DEF allVars, joinVars, vars, loadVars
    <3>2. LoadCovered' /\ CeilingCovered' /\ PlacingTypeOK'
      BY <3>1 DEF PlacingInv, LoadCovered, CeilingCovered, PlacingTypeOK,
                  WaitingFor, Reaching, EffectiveLoad
    <3> QED
      BY <2>1, <3>1, <3>2 DEF PlacingInv
  <2> QED
    BY <2>2, <2>3, <2>4, <2>5, <2>6 DEF PlacingNext
<1> QED
  BY <1>1, PlacingBegins, PTL DEF PlacingSpec

\* A unit is over the load it takes nothing new at by no more than the joins
\* in progress (Commit): the overshoot the placer's seam accepts is bounded.
THEOREM OvershootHasABound == PlacingSpec => []OvershootIsBounded
<1>1. PlacingInv => OvershootIsBounded
  <2> SUFFICES ASSUME PlacingInv, NEW u \in UnitIds
               PROVE  \/ EffectiveLoad(u) < EligibilityCeiling + Cost * Cardinality(Joins)
                      \/ EffectiveLoad(u) <= reported[u] + Cost * Cardinality(Joins)
    BY DEF OvershootIsBounded
  <2> DEFINE w == Cardinality(WaitingFor(u))
             n == Cardinality(Joins)
  <2>1. w \in Nat /\ n \in Nat
    BY JoinsAreCounted DEF WaitingFor
  <2>2. /\ EligibilityCeiling \in Nat
        /\ committed[u] \in Nat /\ reported[u] \in Nat
        /\ EffectiveLoad(u) = reported[u] + committed[u]
    BY PlacerAssumption DEF PlacingInv, TypeOK, EffectiveLoad
  <2>3. \/ EffectiveLoad(u) + w < EligibilityCeiling + n
        \/ committed[u] + w <= n
    BY DEF PlacingInv, LoadCovered
  <2> HIDE DEF w, n
  <2>4. \/ EffectiveLoad(u) < EligibilityCeiling + n
        \/ EffectiveLoad(u) <= reported[u] + n
    BY <2>1, <2>2, <2>3
  <2>5. Cost * n = n
    BY <2>1 DEF Cost
  <2> QED
    BY <2>4, <2>5 DEF n
<1> QED
  BY <1>1, PlacingInvariant, PTL

\* And a conference over its unit ceiling by fewer than that
\* (PlaceParticipant).
THEOREM CeilingOvershootHasABound == PlacingSpec => []CeilingOvershootIsBounded
<1>1. PlacingInv => CeilingOvershootIsBounded
  <2> SUFFICES ASSUME PlacingInv PROVE CeilingOvershootIsBounded
    OBVIOUS
  <2>1. Cardinality(Reaching) \in Nat /\ Cardinality(Joins) \in Nat
    BY JoinsAreCounted DEF Reaching
  <2>2. Cardinality(carrying) \in Nat /\ ceiling \in Nat
    BY PlacingAssumption, FS_Subset, FS_CardinalityType
    DEF PlacingInv, PlacingTypeOK
  <2> QED
    BY <2>1, <2>2 DEF PlacingInv, CeilingCovered, CeilingOvershootIsBounded
<1> QED
  BY <1>1, PlacingInvariant, PTL

\* Instances that read the same pool in different orders choose alike, and
\* for a conference on no unit the one best there is (lowest).
THEOREM InstancesAgree == PlacingSpec => []OrderDoesNotMatter
<1>1. PlacingInv => OrderDoesNotMatter
  BY OrderDoesNotMatterHere DEF PlacingInv
<1> QED
  BY <1>1, PlacingInvariant, PTL

\* A conference reaches for another unit only when none it is on can take the
\* arrival and its ceiling allows one more (PlaceParticipant).
THEOREM AnotherUnitComesLast == PlacingSpec => []SecondUnitIsTheLastResort
<1>1. PlacingInv => SecondUnitIsTheLastResort
  BY SecondUnitIsLastHere DEF PlacingInv
<1> QED
  BY <1>1, PlacingInvariant, PTL

\* A refusal says whether another machine would have helped
\* (PlaceConference, PlaceParticipant).
THEOREM RefusalsSayWhatHelps == PlacingSpec => []GrowingHelpsUnlessAtTheCeiling
<1>1. PlacingInv => GrowingHelpsUnlessAtTheCeiling
  BY GrowingHelpsHere DEF PlacingInv
<1> QED
  BY <1>1, PlacingInvariant, PTL
=============================================================================
