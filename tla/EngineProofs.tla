---------------------------- MODULE EngineProofs ----------------------------
(***************************************************************************)
(* Proofs about the verdict computation of module Engine, for every table  *)
(* of rows, every list that some table holds and every threshold.          *)
(*                                                                         *)
(* The statistics are places in orders and sums of weights.  A place       *)
(* exists because counting the rows before a row is an injection into as   *)
(* many numbers as there are rows; a sum does not depend on the order in   *)
(* which it is taken by induction over the subsets of its index set, the   *)
(* sets for which the claim fails having no minimal one.                   *)
(***************************************************************************)
EXTENDS Engine, FiniteSetTheorems, SequenceTheorems, TLAPS

USE RowAssumption, RuleAssumption

Row == UNION {t.row : t \in Table}

(* What there is to know of the rows at some positions of a list.          *)
LEMMA Positions ==
  ASSUME NEW l \in Seq(Row), NEW I \in SUBSET DOMAIN l
  PROVE  /\ IsFiniteSet(I) /\ Cardinality(I) \in Nat
         /\ \A i \in I : i \in Nat /\ l[i].price \in Nat /\ l[i].at \in -HalfLives..0
  <1>1. DOMAIN l = 1..Len(l) /\ Len(l) \in Nat
    OBVIOUS
  <1>2. IsFiniteSet(I) /\ Cardinality(I) \in Nat
    <2>1. IsFiniteSet(1..Len(l)) /\ I \in SUBSET (1..Len(l))
      BY <1>1, FS_Interval
    <2>2. IsFiniteSet(I)
      BY <2>1, FS_Subset
    <2>3. QED
      BY <2>2, FS_CardinalityType
  <1>3. \A r \in Row : r.price \in Nat /\ r.at \in -HalfLives..0
    BY DEF Row
  <1>4. QED
    BY <1>1, <1>2, <1>3

-----------------------------------------------------------------------------
(***************************************************************************)
(* Places.  R is a strict total order on S, as a set of pairs.             *)
(***************************************************************************)
Ordered(S, R) ==
  /\ \A x \in S : <<x, x>> \notin R
  /\ \A x, y \in S : x = y \/ <<x, y>> \in R \/ <<y, x>> \in R
  /\ \A x, y, z \in S : <<x, y>> \in R /\ <<y, z>> \in R => <<x, z>> \in R

Below(S, R, x) == {y \in S : <<y, x>> \in R}

(* An element further up has more elements below it.                       *)
LEMMA RankGrows ==
  ASSUME NEW S, IsFiniteSet(S), NEW R, Ordered(S, R)
  PROVE  /\ \A x \in S : Cardinality(Below(S, R, x)) \in 0..(Cardinality(S) - 1)
         /\ \A x, y \in S : <<x, y>> \in R <=>
              Cardinality(Below(S, R, x)) < Cardinality(Below(S, R, y))
  <1>1. \A T \in SUBSET S : IsFiniteSet(T) /\ Cardinality(T) \in Nat
    BY FS_Subset, FS_CardinalityType
  <1>2. ASSUME NEW T \in SUBSET S, NEW U \in SUBSET T, NEW x \in T, x \notin U
        PROVE  Cardinality(U) < Cardinality(T)
    BY <1>1, <1>2, FS_Subset
  <1>3. \A x \in S : /\ Below(S, R, x) \in SUBSET S /\ x \notin Below(S, R, x)
    BY DEF Below, Ordered
  <1>4. \A x \in S : Cardinality(Below(S, R, x)) \in 0..(Cardinality(S) - 1)
    BY <1>1, <1>2, <1>3
  <1>5. ASSUME NEW x \in S, NEW y \in S, <<x, y>> \in R
        PROVE  Cardinality(Below(S, R, x)) < Cardinality(Below(S, R, y))
    <2>1. /\ Below(S, R, x) \in SUBSET Below(S, R, y)
          /\ x \in Below(S, R, y)
      BY <1>5 DEF Below, Ordered
    <2>2. QED
      BY <1>2, <1>3, <2>1
  <1>6. ASSUME NEW x \in S, NEW y \in S,
               Cardinality(Below(S, R, x)) < Cardinality(Below(S, R, y))
        PROVE  <<x, y>> \in R
    <2>1. Cardinality(Below(S, R, x)) \in Nat /\ Cardinality(Below(S, R, y)) \in Nat
      BY <1>1, <1>3
    <2>2. x # y
      BY <1>6, <2>1
    <2>3. ~(<<y, x>> \in R)
      <3> SUFFICES ASSUME <<y, x>> \in R PROVE FALSE
        OBVIOUS
      <3>1. Cardinality(Below(S, R, y)) < Cardinality(Below(S, R, x))
        BY <1>5
      <3>2. QED
        BY <1>6, <2>1, <3>1
    <2>4. QED
      BY <2>2, <2>3 DEF Ordered
  <1>7. QED
    BY <1>4, <1>5, <1>6

(* Every place is taken, by the pigeonhole principle.                      *)
LEMMA PlaceTaken ==
  ASSUME NEW S, IsFiniteSet(S), NEW R, Ordered(S, R),
         NEW k \in 0..(Cardinality(S) - 1)
  PROVE  \E x \in S : Cardinality(Below(S, R, x)) = k
  <1> DEFINE n == Cardinality(S)
  <1> DEFINE rank == [x \in S |-> Cardinality(Below(S, R, x))]
  <1>1. n \in Nat /\ IsFiniteSet(0..(n - 1)) /\ Cardinality(0..(n - 1)) = n
    BY FS_CardinalityType, FS_Interval
  <1>2. rank \in [S -> 0..(n - 1)]
    BY RankGrows
  <1>3. \A x, y \in S : rank[x] = rank[y] => x = y
    <2> SUFFICES ASSUME NEW x \in S, NEW y \in S, rank[x] = rank[y], x # y
                 PROVE  FALSE
      OBVIOUS
    <2>1. <<x, y>> \in R \/ <<y, x>> \in R
      BY DEF Ordered
    <2>2. rank[x] < rank[y] \/ rank[y] < rank[x]
      BY <2>1, RankGrows
    <2>3. QED
      BY <1>1, <1>2, <2>2
  <1> HIDE DEF rank, n
  <1>4. rank \in Injection(S, 0..(n - 1))
    BY <1>2, <1>3 DEF Injection, IsInjective
  <1>5. rank \in Surjection(S, 0..(n - 1))
    BY <1>1, <1>4, FS_Injection DEF n
  <1>6. \A m \in 0..(n - 1) : \E x \in S : rank[x] = m
    BY <1>5 DEF Surjection
  <1>7. QED
    BY <1>6 DEF n, rank

(* The two orders of the rows at some positions of a list: by price, as    *)
(* sort.Slice leaves them, and as they were read.                          *)
ByPrice(l, I) == {p \in I \X I : Before(l, p[1], p[2])}
ByArrival(I)  == {p \in I \X I : p[1] < p[2]}

LEMMA ByPriceOrder ==
  ASSUME NEW l \in Seq(Row), NEW I \in SUBSET DOMAIN l
  PROVE  /\ Ordered(I, ByPrice(l, I))
         /\ \A i, j \in I : <<i, j>> \in ByPrice(l, I) <=> Before(l, i, j)
         /\ \A i \in I : Below(I, ByPrice(l, I), i) = {j \in I : Before(l, j, i)}
  <1>1. \A i, j \in I : <<i, j>> \in ByPrice(l, I) <=> Before(l, i, j)
    BY DEF ByPrice
  <1>2. \A i \in I : i \in Nat /\ l[i].price \in Nat
    BY Positions
  <1>3. Ordered(I, ByPrice(l, I))
    <2>1. \A x \in I : ~Before(l, x, x)
      BY <1>2 DEF Before
    <2>2. \A x, y \in I : x = y \/ Before(l, x, y) \/ Before(l, y, x)
      BY <1>2 DEF Before
    <2>3. \A x, y, z \in I : Before(l, x, y) /\ Before(l, y, z) => Before(l, x, z)
      BY <1>2 DEF Before
    <2>4. QED
      BY <1>1, <2>1, <2>2, <2>3 DEF Ordered
  <1>4. QED
    BY <1>1, <1>3 DEF Below

LEMMA ByArrivalOrder ==
  ASSUME NEW l \in Seq(Row), NEW I \in SUBSET DOMAIN l
  PROVE  /\ Ordered(I, ByArrival(I))
         /\ \A i \in I : Below(I, ByArrival(I), i) = {j \in I : j < i}
  <1>1. \A i, j \in I : <<i, j>> \in ByArrival(I) <=> i < j
    BY DEF ByArrival
  <1>2. \A i \in I : i \in Nat
    BY Positions
  <1>3. QED
    BY <1>1, <1>2 DEF Ordered, Below

(* The place of a row among the rows I, from 0.                            *)
Place(l, I, i) == Cardinality({j \in I : Before(l, j, i)})

LEMMA Places ==
  ASSUME NEW l \in Seq(Row), NEW I \in SUBSET DOMAIN l
  PROVE  /\ \A i \in I : Place(l, I, i) \in 0..(Cardinality(I) - 1)
         /\ \A i, j \in I : Before(l, i, j) <=> Place(l, I, i) < Place(l, I, j)
         /\ \A i, j \in I : Place(l, I, i) = Place(l, I, j) => i = j
         /\ \A k \in 0..(Cardinality(I) - 1) : \E i \in I : Place(l, I, i) = k
  <1> DEFINE R == ByPrice(l, I)
  <1>1. IsFiniteSet(I) /\ Cardinality(I) \in Nat
    BY Positions
  <1>2. /\ Ordered(I, R)
        /\ \A i, j \in I : <<i, j>> \in R <=> Before(l, i, j)
        /\ \A i \in I : Below(I, R, i) = {j \in I : Before(l, j, i)}
    BY ByPriceOrder
  <1> HIDE DEF R
  <1>3. /\ \A x \in I : Cardinality(Below(I, R, x)) \in 0..(Cardinality(I) - 1)
        /\ \A x, y \in I : <<x, y>> \in R <=>
             Cardinality(Below(I, R, x)) < Cardinality(Below(I, R, y))
    BY <1>1, <1>2, RankGrows
  <1>4. \A k \in 0..(Cardinality(I) - 1) :
           \E x \in I : Cardinality(Below(I, R, x)) = k
    BY <1>1, <1>2, PlaceTaken
  <1>5. \A i \in I : Place(l, I, i) = Cardinality(Below(I, R, i))
    BY <1>2 DEF Place
  <1>6. \A i, j \in I : i = j \/ Before(l, i, j) \/ Before(l, j, i)
    BY <1>2 DEF Ordered
  <1>7. /\ \A i \in I : Place(l, I, i) \in 0..(Cardinality(I) - 1)
        /\ \A i, j \in I : Before(l, i, j) <=> Place(l, I, i) < Place(l, I, j)
        /\ \A k \in 0..(Cardinality(I) - 1) : \E i \in I : Place(l, I, i) = k
    <2>1. \A i, j \in I : Before(l, i, j) <=> Place(l, I, i) < Place(l, I, j)
      BY <1>2, <1>3, <1>5
    <2>2. QED
      BY <1>3, <1>4, <1>5, <2>1
  <1>8. \A i, j \in I : Place(l, I, i) = Place(l, I, j) => i = j
    BY <1>1, <1>6, <1>7
  <1>9. QED
    BY <1>7, <1>8

(* sort.Slice followed by an index: the price of the row at that place.    *)
LEMMA SortedPlace ==
  ASSUME NEW l \in Seq(Row), NEW I \in SUBSET DOMAIN l,
         NEW k \in 0..(Cardinality(I) - 1)
  PROVE  \E i \in I : Place(l, I, i) = k /\ Sorted(l, I, k) = l[i].price
  <1>1. \E i \in I : Place(l, I, i) = k
    BY Places
  <1>2. \E i \in I : Cardinality({j \in I : Before(l, j, i)}) = k
    BY <1>1 DEF Place
  <1>3. QED
    BY <1>2 DEF Sorted, Place

(* An index into the list as it was read: the price of one of its rows.    *)
LEMMA AsReadPlace ==
  ASSUME NEW l \in Seq(Row), NEW I \in SUBSET DOMAIN l,
         NEW k \in 0..(Cardinality(I) - 1)
  PROVE  \E i \in I : AsRead(l, I, k) = l[i].price
  <1>1. IsFiniteSet(I) /\ Ordered(I, ByArrival(I))
        /\ \A i \in I : Below(I, ByArrival(I), i) = {j \in I : j < i}
    BY Positions, ByArrivalOrder
  <1>2. \E i \in I : Cardinality(Below(I, ByArrival(I), i)) = k
    BY <1>1, PlaceTaken
  <1>3. \E i \in I : Cardinality({j \in I : j < i}) = k
    BY <1>1, <1>2
  <1>4. QED
    BY <1>3 DEF AsRead

-----------------------------------------------------------------------------
RowsOK == rows \in Seq(Row)

(* The database hands over rows of its tables and nothing else.            *)
LEMMA AlwaysRows == Spec => []RowsOK
  <1>1. Init => RowsOK
    BY DEF Init, RowsOK
  <1>2. RowsOK /\ [Next]_rows => RowsOK'
    BY DEF Next, Read, Row, RowsOK
  <1>3. QED
    BY <1>1, <1>2, PTL DEF Spec

(* What is left of a list after the trim is part of it.                    *)
LEMMA TrimPart ==
  ASSUME NEW l, NEW I
  PROVE  Band(l, I) \subseteq I /\ trimTypicalBand(l, I) \subseteq I
  BY DEF Band, trimTypicalBand

(* Two prices of a band are both in proportion to its middle.              *)
LEMMA BandRatio ==
  ASSUME NEW l \in Seq(Row), NEW I \in SUBSET DOMAIN l,
         NEW i \in Band(l, I), NEW j \in Band(l, I)
  PROVE  l[i].price <= 11 * l[j].price
  <1> DEFINE m == AsRead(l, I, Cardinality(I) \div 2)
  <1>1. i \in I /\ j \in I /\ Cardinality(I) \in Nat
    BY TrimPart, Positions
  <1>2. Cardinality(I) # 0
    BY <1>1, Positions, FS_EmptySet
  <1>3. Cardinality(I) \div 2 \in 0..(Cardinality(I) - 1)
    BY <1>1, <1>2
  <1>4. m \in Nat /\ l[i].price \in Nat /\ l[j].price \in Nat
    BY <1>1, <1>3, AsReadPlace, Positions
  <1>5. 10 * l[i].price <= 22 * m /\ 2 * m <= 10 * l[j].price
    BY <1>4 DEF Band
  <1> HIDE DEF m
  <1>6. QED
    BY <1>4, <1>5

(* However far apart the rows of a list are and in whatever order they     *)
(* come, no two kept prices differ by more than the ends of the band.      *)
THEOREM RangesAreWithinABand == Spec => []RangeWithinBand
  <1>1. RowsOK => RangeWithinBand
    <2> SUFFICES ASSUME rows \in Seq(Row),
                        Cardinality(InCell(rows)) >= TrimFloor,
                        NEW i \in trimTypicalBand(rows, InCell(rows)),
                        NEW j \in trimTypicalBand(rows, InCell(rows))
                 PROVE  rows[i].price <= 11 * rows[j].price
      BY DEF RangeWithinBand, RowsOK
    <2> DEFINE I == InCell(rows)
    <2>1. I \in SUBSET DOMAIN rows /\ Cardinality(I) \in Nat
      BY Positions DEF InCell
    <2>2. PICK J \in {I, Band(rows, I)} : trimTypicalBand(rows, I) = Band(rows, J)
      BY <2>1 DEF trimTypicalBand
    <2>3. J \in SUBSET DOMAIN rows
      BY <2>1, <2>2, TrimPart
    <2>4. QED
      BY <2>2, <2>3, BandRatio
  <1>2. QED
    BY <1>1, AlwaysRows, PTL

-----------------------------------------------------------------------------
(***************************************************************************)
(* Sums of weights.                                                        *)
(***************************************************************************)

(* A set G of subsets of S that takes in every set of whose proper subsets *)
(* it has all has every subset of S.                                       *)
LEMMA SubsetInduction ==
  ASSUME NEW S, IsFiniteSet(S), NEW G,
         \A T \in SUBSET S : (\A U \in SUBSET T : U # T => U \in G) => T \in G
  PROVE  \A T \in SUBSET S : T \in G
  <1> SUFFICES ASSUME (SUBSET S) \ G # {} PROVE FALSE
    OBVIOUS
  <1> DEFINE bad == (SUBSET S) \ G
  <1>1. bad \subseteq FiniteSubsetsOf(S)
    BY FS_Subset DEF FiniteSubsetsOf
  <1>2. PICK T \in bad : \A U \in bad : ~(<<U, T>> \in StrictSubsetOrdering(S))
    <2> HIDE DEF bad
    <2>1. bad # {}
      BY DEF bad
    <2>2. QED
      BY <1>1, <2>1, FS_StrictSubsetOrderingWellFounded, WFMin
  <1>3. ASSUME NEW U \in SUBSET T, U # T PROVE U \in G
    <2>1. <<U, T>> \in (SUBSET S) \X (SUBSET S)
      OBVIOUS
    <2>2. <<U, T>> \in StrictSubsetOrdering(S)
      BY <1>3, <2>1 DEF StrictSubsetOrdering
    <2>3. QED
      BY <1>2, <2>2
  <1>4. QED
    BY <1>3

(* g takes the sums over the subsets of S, as MapThenSumSet does: with one *)
(* element of each set put aside.                                          *)
First(s) == CHOOSE x \in s : TRUE

Sums(l, now, S, g) ==
  g = [s \in SUBSET S |->
         IF s = {} THEN 0
         ELSE Weight(l[First(s)], now) + g[s \ {First(s)}]]

LEMMA SumsAgree ==
  ASSUME NEW l, NEW now, NEW S, IsFiniteSet(S), NEW T \in SUBSET S,
         NEW g, Sums(l, now, S, g), NEW h, Sums(l, now, T, h)
  PROVE  \A s \in SUBSET T : g[s] = h[s]
  <1> DEFINE G == {s \in SUBSET T : g[s] = h[s]}
  <1>1. IsFiniteSet(T)
    BY FS_Subset
  <1>2. ASSUME NEW s \in SUBSET T, \A u \in SUBSET s : u # s => u \in G
        PROVE  s \in G
    <2>1. /\ g[s] = IF s = {} THEN 0
                    ELSE Weight(l[First(s)], now) + g[s \ {First(s)}]
          /\ h[s] = IF s = {} THEN 0
                    ELSE Weight(l[First(s)], now) + h[s \ {First(s)}]
      BY DEF Sums
    <2>2. s # {} => s \ {First(s)} \in G
      BY <1>2 DEF First
    <2>3. QED
      BY <2>1, <2>2
  <1> HIDE DEF G
  <1>3. \A s \in SUBSET T : s \in G
    BY <1>1, <1>2, SubsetInduction
  <1>4. QED
    BY <1>3 DEF G

LEMMA SumsExist ==
  ASSUME NEW l, NEW now, NEW S, IsFiniteSet(S)
  PROVE  \E g : Sums(l, now, S, g)
  <1> DEFINE G == {T \in SUBSET S : \E g : Sums(l, now, T, g)}
  <1>1. ASSUME NEW T \in SUBSET S, \A U \in SUBSET T : U # T => U \in G
        PROVE  T \in G
    <2> DEFINE sums(U) == CHOOSE g : Sums(l, now, U, g)
    <2> DEFINE rest(s) == s \ {First(s)}
    <2> DEFINE f == [s \in SUBSET T |->
                       IF s = {} THEN 0
                       ELSE Weight(l[First(s)], now) + sums(rest(s))[rest(s)]]
    <2>1. ASSUME NEW U \in SUBSET T, U # T PROVE Sums(l, now, U, sums(U))
      BY <1>1, <2>1
    <2>2. \A s \in SUBSET T : s # {} => rest(s) \in SUBSET s /\ rest(s) # s
      BY DEF First
    <2>3. ASSUME NEW U \in SUBSET T, U # T PROVE f[U] = sums(U)[U]
      <3>1. CASE U = {}
        <4>1. sums(U)[U] = 0
          <5>1. Sums(l, now, U, sums(U))
            BY <2>1, <2>3
          <5> HIDE DEF sums
          <5>2. QED
            BY <3>1, <5>1 DEF Sums
        <4>2. f[U] = 0
          BY <3>1
        <4>3. QED
          BY <4>1, <4>2
      <3>2. CASE U # {}
        <4> DEFINE V == rest(U)
        <4>1. V \in SUBSET U /\ V # T /\ V \in SUBSET T
          BY <2>2, <3>2
        <4>2. IsFiniteSet(U)
          BY FS_Subset
        <4>3. Sums(l, now, U, sums(U)) /\ Sums(l, now, V, sums(V))
          BY <2>1, <2>3, <4>1
        <4>4. f[U] = Weight(l[First(U)], now) + sums(V)[V]
          BY <3>2
        <4> HIDE DEF V, sums, f
        <4>5. sums(U)[V] = sums(V)[V]
          BY <4>1, <4>2, <4>3, SumsAgree
        <4>6. sums(U)[U] = Weight(l[First(U)], now) + sums(U)[V]
          BY <3>2, <4>3 DEF Sums, V
        <4>7. QED
          BY <4>4, <4>5, <4>6
      <3>3. QED
        BY <3>1, <3>2
    <2>4. ASSUME NEW s \in SUBSET T, s # {}
          PROVE  f[rest(s)] = sums(rest(s))[rest(s)]
      <3>1. rest(s) \in SUBSET s /\ rest(s) # s
        BY <2>2, <2>4
      <3> HIDE DEF f, sums, rest
      <3>2. rest(s) \in SUBSET T /\ rest(s) # T
        BY <3>1
      <3>3. QED
        BY <2>3, <3>2
    <2>5. f = [s \in SUBSET T |->
                IF s = {} THEN 0
                ELSE Weight(l[First(s)], now) + f[rest(s)]]
      <3>1. \A s \in SUBSET T :
              (IF s = {} THEN 0
               ELSE Weight(l[First(s)], now) + sums(rest(s))[rest(s)])
              = (IF s = {} THEN 0
                 ELSE Weight(l[First(s)], now) + f[rest(s)])
        <4> HIDE DEF f, sums, rest
        <4>1. QED
          BY <2>4
      <3>2. f = [s \in SUBSET T |->
                  IF s = {} THEN 0
                  ELSE Weight(l[First(s)], now) + sums(rest(s))[rest(s)]]
        OBVIOUS
      <3> HIDE DEF f, sums, rest
      <3>3. QED
        BY <3>1, <3>2
    <2>6. Sums(l, now, T, f)
      <3> HIDE DEF f
      <3>1. QED
        BY <2>5 DEF Sums
    <2>7. QED
      BY <2>6
  <1> HIDE DEF G
  <1>2. \A T \in SUBSET S : T \in G
    BY <1>1, SubsetInduction
  <1>3. QED
    BY <1>2 DEF G

(* MapThenSumSet over the weights of rows.                                 *)
LEMMA WeightOfStep ==
  ASSUME NEW l, NEW now, NEW S, IsFiniteSet(S)
  PROVE  WeightOf(l, S, now) =
           IF S = {} THEN 0
           ELSE Weight(l[First(S)], now) + WeightOf(l, S \ {First(S)}, now)
  <1>1. ASSUME NEW T, IsFiniteSet(T)
        PROVE  \E g : Sums(l, now, T, g) /\ WeightOf(l, T, now) = g[T]
    <2> DEFINE g == CHOOSE f : Sums(l, now, T, f)
    <2>1. Sums(l, now, T, g)
      BY <1>1, SumsExist
    <2>2. WeightOf(l, T, now) = g[T]
      BY DEF WeightOf, MapThenSumSet, MapThenFoldSet, Sums, First
    <2>3. QED
      BY <2>1, <2>2
  <1>2. PICK g : Sums(l, now, S, g) /\ WeightOf(l, S, now) = g[S]
    BY <1>1
  <1>3. CASE S = {}
    BY <1>2, <1>3 DEF Sums
  <1>4. CASE S # {}
    <2> DEFINE T == S \ {First(S)}
    <2>1. T \in SUBSET S /\ IsFiniteSet(T)
      BY FS_Subset
    <2>2. PICK h : Sums(l, now, T, h) /\ WeightOf(l, T, now) = h[T]
      BY <1>1, <2>1
    <2>3. g[T] = h[T]
      BY <1>2, <2>1, <2>2, SumsAgree
    <2>4. g[S] = Weight(l[First(S)], now) + g[T]
      BY <1>2, <1>4 DEF Sums
    <2>5. QED
      BY <1>2, <1>4, <2>2, <2>3, <2>4
  <1>5. QED
    BY <1>3, <1>4

(* 2^n counts the subsets of a set of n elements, so it is positive, and   *)
(* 2^(m+n) counts the pairs of subsets of two disjoint ones.               *)
LEMMA PowerPositive ==
  ASSUME NEW n \in Nat
  PROVE  2 ^ n \in Nat \ {0}
  <1>1. IsFiniteSet(1..n) /\ Cardinality(1..n) = n
    BY FS_Interval
  <1>2. IsFiniteSet(SUBSET (1..n)) /\ Cardinality(SUBSET (1..n)) = 2 ^ n
    BY <1>1, FS_SUBSET
  <1>3. SUBSET (1..n) # {}
    OBVIOUS
  <1>4. QED
    BY <1>2, <1>3, FS_CardinalityType, FS_EmptySet

LEMMA PowerSum ==
  ASSUME NEW m \in Nat, NEW n \in Nat
  PROVE  2 ^ (m + n) = 2 ^ m * 2 ^ n
  <1> DEFINE A == 1..m
             B == (m + 1)..(m + n)
             C == 1..(m + n)
  <1>1. /\ IsFiniteSet(A) /\ Cardinality(A) = m
        /\ IsFiniteSet(B) /\ Cardinality(B) = n
        /\ IsFiniteSet(C) /\ Cardinality(C) = m + n
    BY FS_Interval
  <1>2. C = A \cup B /\ A \cap B = {}
    OBVIOUS
  <1> HIDE DEF A, B, C
  <1> DEFINE P == (SUBSET A) \X (SUBSET B)
             f == [p \in P |-> p[1] \cup p[2]]
  <1>3. f \in Injection(P, SUBSET C)
    <2>1. f \in [P -> SUBSET C]
      BY <1>2
    <2>2. \A p \in P : p[1] = f[p] \cap A /\ p[2] = f[p] \cap B
      BY <1>2
    <2>3. ASSUME NEW p \in P, NEW q \in P, f[p] = f[q] PROVE p = q
      <3>1. p[1] = q[1] /\ p[2] = q[2]
        <4> HIDE DEF P, f
        <4>1. QED
          BY <2>2, <2>3
      <3>2. p = <<p[1], p[2]>> /\ q = <<q[1], q[2]>>
        OBVIOUS
      <3>3. QED
        BY <3>1, <3>2
    <2>4. QED
      BY <2>1, <2>3 DEF Injection, IsInjective
  <1>4. f \in Surjection(P, SUBSET C)
    <2>1. f \in [P -> SUBSET C]
      BY <1>2
    <2>2. ASSUME NEW X \in SUBSET C PROVE \E p \in P : f[p] = X
      <3>1. <<X \cap A, X \cap B>> \in P
        OBVIOUS
      <3>2. f[<<X \cap A, X \cap B>>] = X
        BY <1>2, <3>1
      <3>3. QED
        BY <3>1, <3>2
    <2>3. QED
      BY <2>1, <2>2 DEF Surjection
  <1>5. /\ IsFiniteSet(P)
        /\ Cardinality(P) = Cardinality(SUBSET A) * Cardinality(SUBSET B)
    BY <1>1, FS_SUBSET, FS_Product
  <1>6. Cardinality(SUBSET C) = Cardinality(P)
    <2>1. ExistsBijection(P, SUBSET C)
      BY <1>3, <1>4 DEF ExistsBijection, Bijection
    <2> HIDE DEF P
    <2>2. QED
      BY <1>5, <2>1, FS_Bijection
  <1>7. QED
    BY <1>1, <1>5, <1>6, FS_SUBSET

LEMMA WeightType ==
  ASSUME NEW l \in Seq(Row), NEW i \in DOMAIN l, NEW now \in 0..HalfLives
  PROVE  /\ Weight(l[i], now) \in Nat \ {0}
         /\ HalfLives + l[i].at \in Nat
         /\ Weight(l[i], now) = 2 ^ (HalfLives - now) * 2 ^ (HalfLives + l[i].at)
  <1>1. l[i].at \in -HalfLives..0
    BY Positions
  <1> DEFINE a == HalfLives - now
             b == HalfLives + l[i].at
  <1>2. a \in Nat /\ b \in Nat /\ 2 * HalfLives - (now - l[i].at) = a + b
    BY <1>1
  <1>3. Weight(l[i], now) = 2 ^ (a + b)
    BY <1>2 DEF Weight
  <1> HIDE DEF a, b
  <1>4. Weight(l[i], now) = 2 ^ a * 2 ^ b /\ Weight(l[i], now) \in Nat \ {0}
    <2>1. 2 ^ (a + b) = 2 ^ a * 2 ^ b
      BY <1>2, PowerSum
    <2>2. 2 ^ (a + b) \in Nat \ {0}
      BY <1>2, PowerPositive
    <2>3. QED
      BY <1>3, <2>1, <2>2
  <1>5. QED
    BY <1>2, <1>4 DEF a, b

(* The sum does not depend on the order in which it is taken: any one row  *)
(* can be put aside.                                                       *)
LEMMA WeightSplit ==
  ASSUME NEW l \in Seq(Row), NEW S \in SUBSET DOMAIN l, NEW now \in 0..HalfLives
  PROVE  /\ WeightOf(l, S, now) \in Nat
         /\ WeightOf(l, {}, now) = 0
         /\ \A x \in S : WeightOf(l, S, now) =
                         Weight(l[x], now) + WeightOf(l, S \ {x}, now)
  <1> DEFINE W(T) == WeightOf(l, T, now)
             w(x) == Weight(l[x], now)
             G == {T \in SUBSET S : /\ W(T) \in Nat
                                    /\ \A x \in T : W(T) = w(x) + W(T \ {x})}
  <1>1. \A T \in SUBSET S : IsFiniteSet(T)
    BY Positions
  <1>2. \A x \in S : w(x) \in Nat
    BY WeightType
  <1>3. W({}) = 0
    BY <1>1, WeightOfStep
  <1>4. \A T \in SUBSET S : T # {} =>
          First(T) \in T /\ W(T) = w(First(T)) + W(T \ {First(T)})
    BY <1>1, WeightOfStep DEF First
  <1> HIDE DEF W, w
  <1>5. ASSUME NEW T \in SUBSET S, \A U \in SUBSET T : U # T => U \in G
        PROVE  T \in G
    <2>1. CASE T = {}
      BY <1>3, <2>1
    <2>2. CASE T # {}
      <3> DEFINE f == First(T)
      <3>1. f \in T /\ W(T) = w(f) + W(T \ {f})
        BY <1>4, <2>2
      <3> HIDE DEF f
      <3>2. W(T \ {f}) \in Nat
        BY <1>5, <3>1
      <3>3. ASSUME NEW x \in T, x # f PROVE W(T) = w(x) + W(T \ {x})
        <4>1. W(T \ {f}) = w(x) + W((T \ {f}) \ {x})
          BY <1>5, <3>1, <3>3
        <4>2. W(T \ {x}) = w(f) + W((T \ {x}) \ {f})
          BY <1>5, <3>1, <3>3
        <4>3. W((T \ {f}) \ {x}) = W((T \ {x}) \ {f})
          <5>1. (T \ {f}) \ {x} = (T \ {x}) \ {f}
            OBVIOUS
          <5>2. QED
            BY <5>1
        <4>4. W((T \ {f}) \ {x}) \in Nat
          <5>1. (T \ {f}) \ {x} \in SUBSET T /\ (T \ {f}) \ {x} # T
            BY <3>1
          <5>2. QED
            BY <1>5, <5>1
        <4>5. w(x) \in Nat /\ w(f) \in Nat
          BY <1>2, <3>1
        <4>6. QED
          BY <3>1, <4>1, <4>2, <4>3, <4>4, <4>5
      <3>4. W(T) \in Nat
        BY <1>2, <3>1, <3>2
      <3>5. QED
        BY <3>1, <3>3, <3>4
    <2>3. QED
      BY <2>1, <2>2
  <1> HIDE DEF G
  <1>6. IsFiniteSet(S)
    BY <1>1
  <1>7. S \in G
    BY <1>5, <1>6, SubsetInduction
  <1>8. QED
    BY <1>3, <1>7 DEF G, W, w

(* More rows weigh more, and some rows weigh something.                    *)
LEMMA WeightGrows ==
  ASSUME NEW l \in Seq(Row), NEW S \in SUBSET DOMAIN l, NEW now \in 0..HalfLives
  PROVE  /\ \A T \in SUBSET S : WeightOf(l, T, now) <= WeightOf(l, S, now)
         /\ S # {} => WeightOf(l, S, now) > 0
  <1> DEFINE W(T) == WeightOf(l, T, now)
             w(x) == Weight(l[x], now)
             G == {T \in SUBSET S : \A U \in SUBSET T : W(U) <= W(T)}
  <1>1. \A T \in SUBSET S : /\ W(T) \in Nat
                           /\ \A x \in T : W(T) = w(x) + W(T \ {x})
    BY WeightSplit
  <1>2. \A x \in S : w(x) \in Nat \ {0}
    BY WeightType
  <1> HIDE DEF W, w
  <1>3. ASSUME NEW T \in SUBSET S, \A U \in SUBSET T : U # T => U \in G
        PROVE  T \in G
    <2>1. ASSUME NEW U \in SUBSET T, U # T PROVE W(U) <= W(T)
      <3>1. PICK x \in T : x \notin U
        BY <2>1
      <3>2. W(U) <= W(T \ {x})
        BY <1>3, <3>1
      <3>3. W(T) = w(x) + W(T \ {x}) /\ w(x) \in Nat
        BY <1>1, <1>2
      <3>4. W(U) \in Nat /\ W(T) \in Nat /\ W(T \ {x}) \in Nat
        BY <1>1
      <3>5. QED
        BY <3>2, <3>3, <3>4
    <2>2. W(T) <= W(T)
      BY <1>1
    <2>3. QED
      BY <2>1, <2>2
  <1>4. S # {} => W(S) > 0
    <2> SUFFICES ASSUME NEW x \in S PROVE W(S) > 0
      OBVIOUS
    <2>1. W(S) = w(x) + W(S \ {x}) /\ W(S \ {x}) \in Nat /\ w(x) \in Nat \ {0}
      BY <1>1, <1>2
    <2>2. QED
      BY <2>1
  <1> HIDE DEF G
  <1>5. S \in G
    BY <1>3, SubsetInduction, Positions
  <1>6. QED
    BY <1>4, <1>5 DEF G, W

(* A day later every weight has shrunk by the same factor.                 *)
LEMMA WeightScales ==
  ASSUME NEW l \in Seq(Row), NEW S \in SUBSET DOMAIN l
  PROVE  WeightOf(l, S, 0) = 2 ^ HalfLives * WeightOf(l, S, HalfLives)
  <1> DEFINE c == 2 ^ HalfLives
             V(T) == WeightOf(l, T, 0)
             W(T) == WeightOf(l, T, HalfLives)
             v(x) == Weight(l[x], 0)
             w(x) == Weight(l[x], HalfLives)
             G == {T \in SUBSET S : V(T) = c * W(T)}
  <1>1. 0 \in 0..HalfLives /\ HalfLives \in 0..HalfLives
    OBVIOUS
  <1>2. \A T \in SUBSET S : /\ V(T) \in Nat /\ W(T) \in Nat
                           /\ \A x \in T : /\ V(T) = v(x) + V(T \ {x})
                                          /\ W(T) = w(x) + W(T \ {x})
    BY <1>1, WeightSplit
  <1>3. V({}) = 0 /\ W({}) = 0
    BY <1>1, WeightSplit
  <1>4. c \in Nat
    BY PowerPositive
  <1>5. ASSUME NEW x \in S
        PROVE  v(x) \in Nat /\ w(x) \in Nat /\ v(x) = c * w(x)
    <2> DEFINE b == 2 ^ (HalfLives + l[x].at)
    <2>1. /\ v(x) \in Nat /\ v(x) = 2 ^ (HalfLives - 0) * b
          /\ w(x) \in Nat /\ w(x) = 2 ^ (HalfLives - HalfLives) * b
          /\ HalfLives + l[x].at \in Nat
      BY <1>1, WeightType
    <2>2. HalfLives - 0 = HalfLives /\ HalfLives - HalfLives = 0
      OBVIOUS
    <2>3. 2 ^ 0 = 1
      <3>1. Cardinality({}) = 0 /\ IsFiniteSet({})
        BY FS_EmptySet
      <3>2. Cardinality(SUBSET {}) = 2 ^ 0
        BY <3>1, FS_SUBSET
      <3>3. SUBSET {} = {{}}
        OBVIOUS
      <3>4. QED
        BY <3>2, <3>3, FS_Singleton
    <2>4. b \in Nat
      BY <2>1, PowerPositive
    <2> HIDE DEF b, v, w
    <2>5. v(x) = c * b
      BY <2>1, <2>2
    <2>6. w(x) = b
      BY <2>1, <2>2, <2>3, <2>4
    <2>7. QED
      BY <2>1, <2>5, <2>6
  <1> HIDE DEF c, V, W, v, w
  <1>6. ASSUME NEW T \in SUBSET S, \A U \in SUBSET T : U # T => U \in G
        PROVE  T \in G
    <2>1. CASE T = {}
      BY <1>3, <1>4, <2>1
    <2>2. ASSUME NEW x \in T PROVE V(T) = c * W(T)
      <3>1. T \ {x} \in SUBSET S /\ V(T \ {x}) = c * W(T \ {x})
        BY <1>6
      <3>2. V(T) = v(x) + V(T \ {x}) /\ W(T) = w(x) + W(T \ {x})
        BY <1>2
      <3>3. v(x) = c * w(x) /\ w(x) \in Nat /\ W(T \ {x}) \in Nat
        BY <1>2, <1>5, <3>1
      <3>4. V(T) = c * w(x) + c * W(T \ {x})
        BY <3>1, <3>2, <3>3
      <3>5. c * w(x) + c * W(T \ {x}) = c * (w(x) + W(T \ {x}))
        BY <1>4, <3>3
      <3>6. QED
        BY <3>2, <3>4, <3>5
    <2>3. QED
      BY <2>1, <2>2
  <1> HIDE DEF G
  <1>7. S \in G
    BY <1>6, SubsetInduction, Positions
  <1>8. QED
    BY <1>7 DEF G, V, W, c

(* Rows of one age weigh as many times as much as one of them as there are.*)
LEMMA WeightUniform ==
  ASSUME NEW l \in Seq(Row), NEW S \in SUBSET DOMAIN l, NEW now \in 0..HalfLives,
         NEW u \in Nat, \A i \in S : Weight(l[i], now) = u
  PROVE  \A T \in SUBSET S : WeightOf(l, T, now) = Cardinality(T) * u
  <1> DEFINE W(T) == WeightOf(l, T, now)
             G == {T \in SUBSET S : W(T) = Cardinality(T) * u}
  <1>1. \A T \in SUBSET S : \A x \in T : W(T) = u + W(T \ {x})
    BY WeightSplit
  <1>2. W({}) = 0 /\ Cardinality({}) = 0
    BY WeightSplit, FS_EmptySet
  <1>3. \A T \in SUBSET S : IsFiniteSet(T) /\ Cardinality(T) \in Nat
    BY Positions
  <1> HIDE DEF W
  <1>4. ASSUME NEW T \in SUBSET S, \A U \in SUBSET T : U # T => U \in G
        PROVE  T \in G
    <2>1. CASE T = {}
      BY <1>2, <2>1
    <2>2. ASSUME NEW x \in T PROVE W(T) = Cardinality(T) * u
      <3>1. W(T \ {x}) = Cardinality(T \ {x}) * u /\ W(T) = u + W(T \ {x})
        BY <1>1, <1>4
      <3>2. Cardinality(T \ {x}) = Cardinality(T) - 1
        BY <1>3, FS_RemoveElement
      <3>3. Cardinality(T) \in Nat
        BY <1>3
      <3> HIDE DEF G
      <3>4. W(T) = u + (Cardinality(T) - 1) * u
        BY <3>1, <3>2
      <3>5. u + (Cardinality(T) - 1) * u = Cardinality(T) * u
        BY <3>3
      <3>6. QED
        BY <3>4, <3>5
    <2>3. QED
      BY <2>1, <2>2
  <1> HIDE DEF G
  <1>5. \A T \in SUBSET S : T \in G
    BY <1>3, <1>4, SubsetInduction
  <1>6. QED
    BY <1>5 DEF G, W

-----------------------------------------------------------------------------
(***************************************************************************)
(* The weighted median: the first row, going up, at which the rows so far  *)
(* weigh half of all.                                                      *)
(***************************************************************************)
Upto(l, I, i) == {j \in I : j = i \/ Before(l, j, i)}

Half(l, I, now) ==
  {i \in I : 2 * WeightOf(l, Upto(l, I, i), now) >= WeightOf(l, I, now)}

LEMMA MedianPlace ==
  ASSUME NEW l \in Seq(Row), NEW I \in SUBSET DOMAIN l, I # {},
         NEW now \in 0..HalfLives
  PROVE  \E i \in Half(l, I, now) :
           /\ weightedMedian(l, I, now) = l[i].price
           /\ \A j \in Half(l, I, now) : i = j \/ Before(l, i, j)
  <1> DEFINE H == Half(l, I, now)
  <1>1. IsFiniteSet(I) /\ Cardinality(I) \in Nat \ {0}
    BY Positions, FS_EmptySet
  <1>2. H # {}
    <2>1. PICK t \in I : Place(l, I, t) = Cardinality(I) - 1
      BY <1>1, Places
    <2>2. ASSUME NEW j \in I, j # t PROVE Before(l, j, t)
      <3>1. Place(l, I, j) \in 0..(Cardinality(I) - 1)
            /\ Place(l, I, j) # Place(l, I, t)
        BY <2>2, Places
      <3>2. Place(l, I, j) < Place(l, I, t)
        BY <1>1, <2>1, <3>1
      <3>3. QED
        BY <3>2, Places
    <2>3. Upto(l, I, t) = I
      BY <2>2 DEF Upto
    <2>4. WeightOf(l, I, now) \in Nat
      BY WeightSplit
    <2>5. QED
      BY <2>3, <2>4 DEF Half
  <1>3. H \in SUBSET I /\ H \in SUBSET DOMAIN l
    BY DEF Half
  <1>4. \E i \in H : \A j \in H : i = j \/ Before(l, i, j)
    <2> HIDE DEF H
    <2>1. Cardinality(H) \in Nat \ {0}
      BY <1>2, <1>3, Positions, FS_EmptySet
    <2>2. PICK i \in H : Place(l, H, i) = 0
      BY <1>3, <2>1, Places
    <2>3. ASSUME NEW j \in H, j # i PROVE Before(l, i, j)
      <3>1. /\ \A k \in H : Place(l, H, k) \in 0..(Cardinality(H) - 1)
            /\ \A k \in H : Place(l, H, i) = Place(l, H, k) => i = k
            /\ \A k \in H : Before(l, i, k) <=> Place(l, H, i) < Place(l, H, k)
        BY <1>3, Places
      <3>2. Place(l, H, i) < Place(l, H, j)
        BY <2>1, <2>2, <2>3, <3>1
      <3>3. QED
        BY <3>1, <3>2
    <2>4. QED
      BY <2>3
  <1> DEFINE m == CHOOSE i \in H : \A j \in H : i = j \/ Before(l, i, j)
  <1>5. m \in H /\ \A j \in H : m = j \/ Before(l, m, j)
    BY <1>4
  <1>6. weightedMedian(l, I, now) = l[m].price
    BY DEF weightedMedian, Half, Upto
  <1>7. QED
    BY <1>5, <1>6

(* The day of the computation does not move the median.                    *)
LEMMA MedianAgeless ==
  ASSUME NEW l \in Seq(Row), NEW I \in SUBSET DOMAIN l
  PROVE  weightedMedian(l, I, 0) = weightedMedian(l, I, HalfLives)
  <1> DEFINE c == 2 ^ HalfLives
             V(T) == WeightOf(l, T, 0)
             W(T) == WeightOf(l, T, HalfLives)
  <1>1. c \in Nat \ {0}
    BY PowerPositive
  <1>2. ASSUME NEW T \in SUBSET I PROVE V(T) = c * W(T) /\ W(T) \in Nat
    <2>1. HalfLives \in 0..HalfLives
      OBVIOUS
    <2>2. QED
      BY <2>1, WeightScales, WeightSplit
  <1> HIDE DEF c, V, W
  <1>3. ASSUME NEW i \in I
        PROVE  2 * V(Upto(l, I, i)) >= V(I) <=> 2 * W(Upto(l, I, i)) >= W(I)
    <2> DEFINE x == W(Upto(l, I, i))
               y == W(I)
    <2>1. Upto(l, I, i) \in SUBSET I
      BY DEF Upto
    <2>2. x \in Nat /\ y \in Nat /\ V(Upto(l, I, i)) = c * x /\ V(I) = c * y
      BY <1>2, <2>1
    <2> HIDE DEF x, y
    <2>3. 2 * (c * x) = c * (2 * x)
      BY <1>1, <2>2
    <2>4. c * (2 * x) >= c * y <=> 2 * x >= y
      BY <1>1, <2>2
    <2>5. QED
      BY <2>2, <2>3, <2>4 DEF x, y
  <1>4. Half(l, I, 0) = Half(l, I, HalfLives)
    BY <1>3 DEF Half, V, W
  <1>5. \A now : weightedMedian(l, I, now) =
          l[CHOOSE i \in Half(l, I, now) :
              \A j \in Half(l, I, now) : i = j \/ Before(l, i, j)].price
    BY DEF weightedMedian, Half, Upto
  <1>6. QED
    BY <1>4, <1>5

(* Time enters the verdict as an argument, and then only its freshness.    *)
THEOREM TimeMovesNothingElse == Spec => []OnlyFreshnessAges
  <1>1. RowsOK => OnlyFreshnessAges
    <2> SUFFICES ASSUME RowsOK PROVE OnlyFreshnessAges
      OBVIOUS
    <2> DEFINE v == ComputeVerdict(rows, 0)
               w == ComputeVerdict(rows, HalfLives)
               I == InCell(rows)
               kept == trimTypicalBand(rows, I)
    <2>1. /\ rows \in Seq(Row) /\ I \in SUBSET DOMAIN rows
          /\ kept \in SUBSET DOMAIN rows
      BY TrimPart DEF RowsOK, InCell
    <2>2. v.median = w.median
      BY <2>1, MedianAgeless DEF ComputeVerdict
    <2>3. [v EXCEPT !.failing = {}] = [w EXCEPT !.failing = {}]
      <3>1. v.count = w.count /\ v.p10 = w.p10 /\ v.p90 = w.p90
        BY DEF ComputeVerdict
      <3>2. \A u \in {v, w} :
              [u EXCEPT !.failing = {}] =
              [count |-> u.count, p10 |-> u.p10, p90 |-> u.p90,
               median |-> u.median, failing |-> {}]
        BY DEF ComputeVerdict
      <3> HIDE DEF v, w
      <3>3. QED
        BY <2>2, <3>1, <3>2
    <2>4. v.failing \ {"freshness"} = w.failing \ {"freshness"}
      BY DEF ComputeVerdict, EvaluateGates
    <2>5. "freshness" \in v.failing => "freshness" \in w.failing
      <3>1. \A i \in I : rows[i].at \in Int
        BY <2>1, Positions
      <3>2. \A i \in I : 0 - rows[i].at >= MaxAge => HalfLives - rows[i].at >= MaxAge
        BY <3>1
      <3>3. QED
        BY <3>2 DEF ComputeVerdict, EvaluateGates
    <2>6. v.failing \subseteq w.failing
      BY <2>4, <2>5
    <2>7. QED
      BY <2>3, <2>4, <2>6 DEF OnlyFreshnessAges
  <1>2. QED
    BY <1>1, AlwaysRows, PTL

-----------------------------------------------------------------------------
(* Between the prices at two places lie the rows at all places between.    *)
LEMMA PlacesBetween ==
  ASSUME NEW l \in Seq(Row), NEW I \in SUBSET DOMAIN l,
         NEW k \in 0..(Cardinality(I) - 1), NEW m \in k..(Cardinality(I) - 1)
  PROVE  LET In == {i \in I : l[i].price \in Sorted(l, I, k)..Sorted(l, I, m)}
         IN  Cardinality(In) >= m - k + 1
  <1> DEFINE In == {i \in I : l[i].price \in Sorted(l, I, k)..Sorted(l, I, m)}
             g == [q \in k..m |-> CHOOSE i \in I : Place(l, I, i) = q]
  <1>0. Cardinality(I) \in Nat /\ k \in Nat /\ m \in Nat /\ k <= m
    BY Positions
  <1>1. PICK a \in I : Place(l, I, a) = k /\ Sorted(l, I, k) = l[a].price
    BY SortedPlace
  <1>2. PICK b \in I : Place(l, I, b) = m /\ Sorted(l, I, m) = l[b].price
    BY <1>0, SortedPlace
  <1>3. \A i \in I : l[i].price \in Nat /\ i \in Nat
    BY Positions
  <1>4. ASSUME NEW i \in I, NEW j \in I, Place(l, I, i) <= Place(l, I, j)
        PROVE  l[i].price <= l[j].price
    <2>1. ~Before(l, j, i)
      <3>1. Place(l, I, i) \in Int /\ Place(l, I, j) \in Int
        BY Places
      <3>2. ~(Place(l, I, j) < Place(l, I, i))
        BY <1>4, <3>1
      <3>3. QED
        BY <3>2, Places
    <2>2. QED
      BY <1>3, <2>1 DEF Before
  <1>5. ASSUME NEW q \in k..m
        PROVE  g[q] \in In /\ Place(l, I, g[q]) = q
    <2>1. q \in 0..(Cardinality(I) - 1)
      BY <1>0
    <2>2. g[q] \in I /\ Place(l, I, g[q]) = q
      <3>1. \E i \in I : Place(l, I, i) = q
        BY <2>1, Places
      <3>2. QED
        BY <3>1
    <2> HIDE DEF g
    <2>3. l[a].price <= l[g[q]].price /\ l[g[q]].price <= l[b].price
      BY <1>0, <1>1, <1>2, <1>4, <2>2
    <2>4. QED
      BY <1>1, <1>2, <1>3, <2>2, <2>3
  <1> HIDE DEF In
  <1>6. g \in Injection(k..m, In)
    <2>1. g \in [k..m -> In]
      BY <1>5
    <2> HIDE DEF g
    <2>2. \A q, r \in k..m : g[q] = g[r] => q = r
      BY <1>5
    <2>3. QED
      BY <2>1, <2>2 DEF Injection, IsInjective
  <1>7. IsFiniteSet(In)
    <2>1. In \in SUBSET DOMAIN l
      BY DEF In
    <2>2. QED
      BY <2>1, Positions
  <1>8. Cardinality(k..m) <= Cardinality(In)
    BY <1>6, <1>7, FS_Injection
  <1>9. Cardinality(k..m) = m - k + 1
    BY <1>0, FS_Interval
  <1>10. QED
    BY <1>8, <1>9 DEF In

(* With rows of one age, the weighted median is the lower one of the two   *)
(* middles of the list.                                                    *)
LEMMA MedianInTheMiddle ==
  ASSUME NEW l \in Seq(Row), NEW I \in SUBSET DOMAIN l, I # {},
         \A i, j \in I : l[i].at = l[j].at
  PROVE  \E i \in I : /\ Place(l, I, i) = (Cardinality(I) - 1) \div 2
                     /\ weightedMedian(l, I, 0) = l[i].price
  <1> DEFINE n == Cardinality(I)
  <1>0. 0 \in 0..HalfLives /\ n \in Nat \ {0} /\ IsFiniteSet(I)
    BY Positions, FS_EmptySet
  <1>1. PICK u \in Nat \ {0} : \A i \in I : Weight(l[i], 0) = u
    <2>1. PICK x \in I : TRUE
      OBVIOUS
    <2>2. Weight(l[x], 0) \in Nat \ {0}
      BY <1>0, WeightType
    <2>3. \A i \in I : Weight(l[i], 0) = Weight(l[x], 0)
      BY DEF Weight
    <2>4. QED
      BY <2>2, <2>3
  <1>2. \A T \in SUBSET I : WeightOf(l, T, 0) = Cardinality(T) * u
    BY <1>0, <1>1, WeightUniform
  <1>3. \A i \in I : /\ Place(l, I, i) \in 0..(n - 1)
                     /\ Upto(l, I, i) \in SUBSET I
                     /\ Cardinality(Upto(l, I, i)) = Place(l, I, i) + 1
    <2> SUFFICES ASSUME NEW i \in I
                 PROVE  /\ Place(l, I, i) \in 0..(n - 1)
                        /\ Upto(l, I, i) \in SUBSET I
                        /\ Cardinality(Upto(l, I, i)) = Place(l, I, i) + 1
      OBVIOUS
    <2> DEFINE B == {j \in I : Before(l, j, i)}
    <2>1. IsFiniteSet(B)
      BY <1>0, FS_Subset
    <2>2. i \notin B
      <3>1. i \in Nat /\ l[i].price \in Nat
        BY Positions
      <3>2. QED
        BY <3>1 DEF Before
    <2>3. Upto(l, I, i) = B \cup {i}
      BY DEF Upto
    <2>4. Cardinality(Upto(l, I, i)) = Cardinality(B) + 1
      BY <2>1, <2>2, <2>3, FS_AddElement
    <2>5. Cardinality(B) = Place(l, I, i)
      BY DEF Place
    <2>6. Place(l, I, i) \in 0..(n - 1)
      BY Places
    <2>7. QED
      BY <2>3, <2>4, <2>5, <2>6
  <1>4. ASSUME NEW i \in I
        PROVE  i \in Half(l, I, 0) <=> 2 * (Place(l, I, i) + 1) >= n
    <2> DEFINE p == Place(l, I, i) + 1
    <2>1. p \in Nat /\ WeightOf(l, Upto(l, I, i), 0) = p * u
          /\ WeightOf(l, I, 0) = n * u
      BY <1>2, <1>3
    <2> HIDE DEF p, n
    <2>2. 2 * (p * u) = (2 * p) * u
      BY <1>1, <2>1
    <2>3. (2 * p) * u >= n * u <=> 2 * p >= n
      BY <1>0, <1>1, <2>1
    <2>4. QED
      BY <2>1, <2>2, <2>3 DEF Half, p, n
  <1>5. PICK i \in Half(l, I, 0) :
           /\ weightedMedian(l, I, 0) = l[i].price
           /\ \A j \in Half(l, I, 0) : i = j \/ Before(l, i, j)
    BY <1>0, MedianPlace
  <1>6. /\ (n - 1) \div 2 \in 0..(n - 1)
        /\ \A k \in 0..(n - 1) : 2 * (k + 1) >= n => (n - 1) \div 2 <= k
        /\ 2 * ((n - 1) \div 2 + 1) >= n
    BY <1>0
  <1>7. PICK j \in I : Place(l, I, j) = (n - 1) \div 2
    BY <1>6, Places
  <1>8. i \in I /\ j \in Half(l, I, 0)
    <2>1. 2 * (Place(l, I, j) + 1) >= n
      BY <1>6, <1>7
    <2>2. j \in Half(l, I, 0)
      BY <1>4, <2>1
    <2>3. i \in I
      BY DEF Half
    <2>4. QED
      BY <2>2, <2>3
  <1>9. (n - 1) \div 2 <= Place(l, I, i)
    BY <1>3, <1>4, <1>6, <1>8
  <1>10. i = j
    <2> SUFFICES ASSUME i # j PROVE FALSE
      OBVIOUS
    <2>1. Place(l, I, i) < Place(l, I, j)
      BY <1>5, <1>8, Places
    <2>2. QED
      BY <1>0, <1>3, <1>7, <1>8, <1>9, <2>1
  <1>11. QED
    BY <1>5, <1>7, <1>8, <1>10

(* At least half of the kept rows lie in the published range, and with     *)
(* rows of one age the median does too and splits them.                    *)
THEOREM RangesHoldTheMiddle == Spec => []RangeHoldsTheMiddle
  <1>1. RowsOK => RangeHoldsTheMiddle
    <2> SUFFICES ASSUME RowsOK, Computes(rows) PROVE RangeHoldsTheMiddle
      BY DEF RangeHoldsTheMiddle
    <2> DEFINE l == rows
               kept == trimTypicalBand(rows, InCell(rows))
               n == Cardinality(kept)
               v == ComputeVerdict(rows, 0)
               In == {i \in kept : rows[i].price \in v.p10..v.p90}
               Low == {i \in kept : rows[i].price < v.median}
               High == {i \in kept : rows[i].price > v.median}
    <2>1. l \in Seq(Row) /\ kept \in SUBSET DOMAIN l
      BY TrimPart DEF RowsOK, InCell
    <2>2. n \in Nat /\ n >= MinSamples
      BY <2>1, Positions DEF Computes
    <2>3. v.count = n /\ v.p10 = Sorted(l, kept, P10Place(n)) /\
          v.p90 = Sorted(l, kept, P90Place(n)) /\ v.median = weightedMedian(l, kept, 0)
      BY DEF ComputeVerdict
    <2> HIDE DEF l, kept, v
    <2>4. /\ P10Place(n) \in 0..(n - 1) /\ P90Place(n) \in P10Place(n)..(n - 1)
          /\ 2 * (P90Place(n) - P10Place(n) + 1) >= n
          /\ P10Place(n) <= (n - 1) \div 2 /\ (n - 1) \div 2 <= P90Place(n)
          /\ (n - 1) \div 2 \in 0..(n - 1)
          /\ 2 * ((n - 1) \div 2) <= n
          /\ 2 * (n - (n - 1) \div 2 - 1) <= n
      <3> HIDE DEF n
      <3>1. QED
        BY <2>2 DEF P10Place, P90Place
    <2>5. 2 * Cardinality(In) >= n
      <3>1. Cardinality(In) >= P90Place(n) - P10Place(n) + 1
        BY <2>1, <2>3, <2>4, PlacesBetween DEF l
      <3>2. Cardinality(In) \in Nat
        <4>1. In \in SUBSET DOMAIN l
          BY <2>1
        <4>2. QED
          BY <2>1, <4>1, Positions
      <3>3. QED
        BY <2>2, <2>4, <3>1, <3>2
    <2>6. ASSUME Cardinality({l[i].at : i \in kept}) = 1
          PROVE  /\ v.median \in v.p10..v.p90
                 /\ 2 * Cardinality(Low) <= v.count
                 /\ 2 * Cardinality(High) <= v.count
      <3>0. kept # {}
        BY <2>2, FS_EmptySet
      <3>1. \A i, j \in kept : l[i].at = l[j].at
        <4> DEFINE A == {l[i].at : i \in kept}
        <4>1. IsFiniteSet(A)
          <5>1. \A i \in kept : l[i].at \in -HalfLives..0
            BY <2>1, Positions
          <5>2. A \in SUBSET (-HalfLives..0)
            BY <5>1
          <5>3. IsFiniteSet(-HalfLives..0)
            <6>1. -HalfLives \in Int
              OBVIOUS
            <6>2. QED
              BY <6>1, FS_Interval
          <5>4. QED
            BY <5>2, <5>3, FS_Subset
        <4>2. \E x : A = {x}
          <5> HIDE DEF A
          <5>1. Cardinality(A) = 1
            BY <2>6 DEF A
          <5>2. QED
            BY <4>1, <5>1, FS_Singleton
        <4>3. \A i \in kept : l[i].at \in A
          OBVIOUS
        <4> HIDE DEF A
        <4>4. QED
          BY <4>2, <4>3
      <3>2. PICK c \in kept : /\ Place(l, kept, c) = (n - 1) \div 2
                             /\ v.median = l[c].price
        BY <2>1, <2>3, <3>0, <3>1, MedianInTheMiddle
      <3>3. PICK a \in kept : Place(l, kept, a) = P10Place(n) /\ v.p10 = l[a].price
        BY <2>1, <2>3, <2>4, SortedPlace
      <3>4. PICK b \in kept : Place(l, kept, b) = P90Place(n) /\ v.p90 = l[b].price
        <4>1. P90Place(n) \in 0..(n - 1)
          BY <2>2, <2>4
        <4>2. QED
          BY <2>1, <2>3, <4>1, SortedPlace
      <3>5. \A i \in kept : /\ i \in Nat /\ l[i].price \in Nat
                           /\ Place(l, kept, i) \in 0..(n - 1)
        BY <2>1, Positions, Places
      <3>6. ASSUME NEW i \in kept, NEW j \in kept
            PROVE  Before(l, i, j) <=> Place(l, kept, i) < Place(l, kept, j)
        BY <2>1, Places
      <3> HIDE DEF n
      <3>7. v.median \in v.p10..v.p90
        <4>1. ~Before(l, c, a) /\ ~Before(l, b, c)
          BY <2>4, <3>2, <3>3, <3>4, <3>5, <3>6
        <4>2. QED
          BY <3>2, <3>3, <3>4, <3>5, <4>1 DEF Before
      <3> DEFINE B == {j \in kept : Before(l, j, c)}
      <3>8. /\ IsFiniteSet(kept) /\ IsFiniteSet(B) /\ Cardinality(B) = (n - 1) \div 2
        BY <2>1, <3>2, Positions, FS_Subset DEF Place
      <3>9. 2 * Cardinality(Low) <= n
        <4>1. Low \in SUBSET B
          BY <3>2 DEF Before, l
        <4>2. IsFiniteSet(Low) /\ Cardinality(Low) <= Cardinality(B)
          BY <3>8, <4>1, FS_Subset
        <4>3. Cardinality(Low) \in Nat
          BY <4>2, FS_CardinalityType
        <4>4. QED
          BY <2>2, <2>4, <3>8, <4>2, <4>3
      <3>10. 2 * Cardinality(High) <= n
        <4> DEFINE U == kept \ (B \cup {c})
        <4>1. High \in SUBSET U
          BY <3>2, <3>5 DEF Before, l
        <4>2. c \notin B
          BY <3>5 DEF Before
        <4>3. Cardinality(B \cup {c}) = (n - 1) \div 2 + 1 /\ IsFiniteSet(B \cup {c})
          BY <3>8, <4>2, FS_AddElement
        <4>4. kept \cap (B \cup {c}) = B \cup {c}
          OBVIOUS
        <4>5. IsFiniteSet(U) /\ Cardinality(U) = n - ((n - 1) \div 2 + 1)
          <5>1. /\ IsFiniteSet(U)
                /\ Cardinality(U) = Cardinality(kept) -
                                    Cardinality(kept \cap (B \cup {c}))
            BY <3>8, FS_Difference
          <5>2. QED
            BY <4>3, <4>4, <5>1 DEF n
        <4>6. IsFiniteSet(High) /\ Cardinality(High) <= Cardinality(U)
          BY <4>1, <4>5, FS_Subset
        <4>7. Cardinality(High) \in Nat
          BY <4>6, FS_CardinalityType
        <4>8. QED
          BY <2>2, <2>4, <4>5, <4>6, <4>7
      <3>11. QED
        BY <2>3, <3>7, <3>9, <3>10
    <2>7. QED
      BY <2>5, <2>6 DEF RangeHoldsTheMiddle, l, kept, v
  <1>2. QED
    BY <1>1, AlwaysRows, PTL

-----------------------------------------------------------------------------
(***************************************************************************)
(* Other orders of the same rows.  pi says where each row has gone; the    *)
(* prices at places and the median are fixed by how many rows, and how     *)
(* much weight, lie below and up to them, which pi does not change.        *)
(***************************************************************************)
Moved(l, m, pi) ==
  /\ l \in Seq(Row) /\ m \in Seq(Row)
  /\ pi \in Bijection(DOMAIN l, DOMAIN m)
  /\ \A i \in DOMAIN l : m[pi[i]] = l[i]

Image(pi, S) == {pi[i] : i \in S}

Under(l, I, p) == {i \in I : l[i].price < p}
UpTo(l, I, p)  == {i \in I : l[i].price <= p}

LEMMA MovedParts ==
  ASSUME NEW l, NEW m, NEW pi, Moved(l, m, pi), NEW I \in SUBSET DOMAIN l
  PROVE  /\ Image(pi, I) \in SUBSET DOMAIN m
         /\ \A i, j \in I : pi[i] = pi[j] => i = j
         /\ \A i \in I : m[pi[i]] = l[i]
         /\ \A p : Under(m, Image(pi, I), p) = Image(pi, Under(l, I, p))
         /\ \A p : UpTo(m, Image(pi, I), p) = Image(pi, UpTo(l, I, p))
         /\ Cardinality(Image(pi, I)) = Cardinality(I)
  <1>1. /\ pi \in [DOMAIN l -> DOMAIN m]
        /\ \A i, j \in DOMAIN l : pi[i] = pi[j] => i = j
    BY DEF Moved, Bijection, Injection, IsInjective
  <1>2. \A i \in DOMAIN l : m[pi[i]] = l[i]
    BY DEF Moved
  <1>3. Image(pi, I) \in SUBSET DOMAIN m
    BY <1>1 DEF Image
  <1>4. \A p : Under(m, Image(pi, I), p) = Image(pi, Under(l, I, p))
    BY <1>2 DEF Image, Under
  <1>5. \A p : UpTo(m, Image(pi, I), p) = Image(pi, UpTo(l, I, p))
    BY <1>2 DEF Image, UpTo
  <1>6. Cardinality(Image(pi, I)) = Cardinality(I)
    <2> DEFINE f == [i \in I |-> pi[i]]
    <2>1. f \in Bijection(I, Image(pi, I))
      BY <1>1 DEF Bijection, Injection, Surjection, IsInjective, Image
    <2>2. IsFiniteSet(I)
      BY Positions DEF Moved
    <2>3. QED
      BY <2>1, <2>2, FS_Bijection DEF ExistsBijection
  <1>7. QED
    BY <1>1, <1>2, <1>3, <1>4, <1>5, <1>6

LEMMA MovedWeight ==
  ASSUME NEW l, NEW m, NEW pi, Moved(l, m, pi), NEW now \in 0..HalfLives,
         NEW I \in SUBSET DOMAIN l
  PROVE  WeightOf(m, Image(pi, I), now) = WeightOf(l, I, now)
  <1> DEFINE V(T) == WeightOf(l, T, now)
             W(T) == WeightOf(m, T, now)
             v(x) == Weight(l[x], now)
             w(x) == Weight(m[x], now)
             G == {T \in SUBSET I : W(Image(pi, T)) = V(T)}
  <1>0. l \in Seq(Row) /\ m \in Seq(Row)
    BY DEF Moved
  <1>1. \A T \in SUBSET I : \A x \in T : V(T) = v(x) + V(T \ {x})
    BY <1>0, WeightSplit
  <1>2. \A T \in SUBSET DOMAIN m : \A x \in T : W(T) = w(x) + W(T \ {x})
    BY <1>0, WeightSplit
  <1>3. V({}) = 0 /\ W({}) = 0
    BY <1>0, WeightSplit
  <1>4. ASSUME NEW T \in SUBSET I, NEW x \in T
        PROVE  /\ Image(pi, T) \in SUBSET DOMAIN m /\ pi[x] \in Image(pi, T)
               /\ Image(pi, T) \ {pi[x]} = Image(pi, T \ {x})
               /\ w(pi[x]) = v(x)
    <2>1. /\ Image(pi, T) \in SUBSET DOMAIN m
          /\ \A i, j \in T : pi[i] = pi[j] => i = j
          /\ \A i \in T : m[pi[i]] = l[i]
      BY MovedParts
    <2>2. Image(pi, T) \ {pi[x]} = Image(pi, T \ {x}) /\ pi[x] \in Image(pi, T)
      BY <2>1 DEF Image
    <2>3. QED
      BY <2>1, <2>2
  <1> HIDE DEF V, W, v, w
  <1>5. ASSUME NEW T \in SUBSET I, \A U \in SUBSET T : U # T => U \in G
        PROVE  T \in G
    <2>1. CASE T = {}
      <3>1. Image(pi, T) = {}
        BY <2>1 DEF Image
      <3>2. QED
        BY <1>3, <2>1, <3>1
    <2>2. ASSUME NEW x \in T PROVE W(Image(pi, T)) = V(T)
      <3>1. W(Image(pi, T \ {x})) = V(T \ {x})
        BY <1>5
      <3>2. W(Image(pi, T)) = w(pi[x]) + W(Image(pi, T) \ {pi[x]})
        BY <1>2, <1>4
      <3>3. W(Image(pi, T) \ {pi[x]}) = W(Image(pi, T \ {x})) /\ w(pi[x]) = v(x)
        BY <1>4
      <3>4. V(T) = v(x) + V(T \ {x})
        BY <1>1
      <3>5. QED
        BY <3>1, <3>2, <3>3, <3>4
    <2>3. QED
      BY <2>1, <2>2
  <1> HIDE DEF G
  <1>6. IsFiniteSet(I)
    BY <1>0, Positions
  <1>7. I \in G
    BY <1>5, <1>6, SubsetInduction
  <1>8. QED
    BY <1>7 DEF G, V, W

(* The price at place k has at most k rows under it and more than k rows   *)
(* up to it.                                                               *)
LEMMA SortedCounts ==
  ASSUME NEW l \in Seq(Row), NEW I \in SUBSET DOMAIN l,
         NEW k \in 0..(Cardinality(I) - 1)
  PROVE  /\ Sorted(l, I, k) \in Nat
         /\ Cardinality(Under(l, I, Sorted(l, I, k))) <= k
         /\ Cardinality(UpTo(l, I, Sorted(l, I, k))) > k
  <1>1. PICK a \in I : Place(l, I, a) = k /\ Sorted(l, I, k) = l[a].price
    BY SortedPlace
  <1> DEFINE p == l[a].price
             B == {j \in I : Before(l, j, a)}
  <1>2. \A i \in I : i \in Nat /\ l[i].price \in Nat
    BY Positions
  <1>3. \A T \in SUBSET I : IsFiniteSet(T) /\ Cardinality(T) \in Nat
    BY Positions
  <1>4. Cardinality(B) = k
    BY <1>1 DEF Place
  <1>5. Under(l, I, p) \in SUBSET B
    BY <1>2 DEF Under, Before
  <1>6. B \cup {a} \in SUBSET UpTo(l, I, p) /\ a \notin B
    BY <1>2 DEF UpTo, Before
  <1> HIDE DEF B, p
  <1>7. B \in SUBSET I /\ UpTo(l, I, p) \in SUBSET I
    BY DEF B, UpTo
  <1>8. Cardinality(Under(l, I, p)) <= k
    BY <1>3, <1>4, <1>5, <1>7, FS_Subset
  <1>9. Cardinality(UpTo(l, I, p)) > k
    <2>1. Cardinality(B \cup {a}) = k + 1
      BY <1>3, <1>4, <1>6, <1>7, FS_AddElement
    <2>2. Cardinality(B \cup {a}) <= Cardinality(UpTo(l, I, p))
      BY <1>3, <1>6, <1>7, FS_Subset
    <2>3. QED
      BY <1>3, <1>7, <2>1, <2>2
  <1>10. QED
    BY <1>1, <1>2, <1>8, <1>9 DEF p

LEMMA SortedMoves ==
  ASSUME NEW l, NEW m, NEW pi, Moved(l, m, pi), NEW I \in SUBSET DOMAIN l,
         NEW k \in 0..(Cardinality(I) - 1)
  PROVE  Sorted(m, Image(pi, I), k) = Sorted(l, I, k)
  <1> DEFINE J == Image(pi, I)
             p == Sorted(l, I, k)
             q == Sorted(m, J, k)
  <1>1. /\ l \in Seq(Row) /\ m \in Seq(Row) /\ J \in SUBSET DOMAIN m
        /\ Cardinality(J) = Cardinality(I)
    BY MovedParts DEF Moved
  <1>2. /\ p \in Nat /\ Cardinality(Under(l, I, p)) <= k
        /\ Cardinality(UpTo(l, I, p)) > k
    BY <1>1, SortedCounts
  <1>3. /\ q \in Nat /\ Cardinality(Under(m, J, q)) <= k
        /\ Cardinality(UpTo(m, J, q)) > k
    BY <1>1, SortedCounts
  <1>4. ASSUME NEW x
        PROVE  /\ Cardinality(Under(m, J, x)) = Cardinality(Under(l, I, x))
               /\ Cardinality(UpTo(m, J, x)) = Cardinality(UpTo(l, I, x))
    <2>1. /\ Under(m, J, x) = Image(pi, Under(l, I, x))
          /\ UpTo(m, J, x) = Image(pi, UpTo(l, I, x))
      BY MovedParts
    <2>2. Under(l, I, x) \in SUBSET DOMAIN l /\ UpTo(l, I, x) \in SUBSET DOMAIN l
      BY DEF Under, UpTo
    <2> HIDE DEF J
    <2>3. QED
      BY <2>1, <2>2, MovedParts
  <1> HIDE DEF J, p, q
  <1>5. ASSUME NEW x \in Nat, NEW y \in Nat, x < y
        PROVE  /\ Cardinality(UpTo(l, I, x)) <= Cardinality(Under(l, I, y))
               /\ Cardinality(UpTo(l, I, x)) \in Nat
               /\ Cardinality(Under(l, I, y)) \in Nat
    <2>1. UpTo(l, I, x) \in SUBSET Under(l, I, y)
      BY <1>1, <1>5, Positions DEF UpTo, Under
    <2>2. Under(l, I, y) \in SUBSET DOMAIN l /\ UpTo(l, I, x) \in SUBSET DOMAIN l
      BY DEF Under, UpTo
    <2>3. QED
      BY <1>1, <2>1, <2>2, Positions, FS_Subset
  <1>6. ~(p < q) /\ ~(q < p)
    BY <1>2, <1>3, <1>4, <1>5
  <1>7. QED
    BY <1>2, <1>3, <1>6 DEF J, p, q

(* Half of the weight is reached at the median, and not under it.          *)
LEMMA MedianCounts ==
  ASSUME NEW l \in Seq(Row), NEW I \in SUBSET DOMAIN l, I # {},
         NEW now \in 0..HalfLives
  PROVE  LET p == weightedMedian(l, I, now)
         IN  /\ p \in Nat
             /\ 2 * WeightOf(l, UpTo(l, I, p), now) >= WeightOf(l, I, now)
             /\ 2 * WeightOf(l, Under(l, I, p), now) < WeightOf(l, I, now)
  <1> DEFINE p == weightedMedian(l, I, now)
             U == Under(l, I, p)
             W(T) == WeightOf(l, T, now)
  <1>1. PICK i \in Half(l, I, now) :
           /\ p = l[i].price
           /\ \A j \in Half(l, I, now) : i = j \/ Before(l, i, j)
    BY MedianPlace
  <1>2. /\ i \in I /\ 2 * W(Upto(l, I, i)) >= W(I)
        /\ \A j \in I : j \in Nat /\ l[j].price \in Nat
    BY <1>1, Positions DEF Half
  <1>3. \A T \in SUBSET I : W(T) \in Nat
    BY WeightSplit
  <1>4. \A S \in SUBSET I : \A T \in SUBSET S : W(T) <= W(S)
    BY WeightGrows
  <1>5. W(I) > 0 /\ W({}) = 0
    BY WeightGrows, WeightSplit
  <1>6. 2 * W(UpTo(l, I, p)) >= W(I)
    <2>1. Upto(l, I, i) \in SUBSET UpTo(l, I, p) /\ UpTo(l, I, p) \in SUBSET I
      BY <1>1, <1>2 DEF Upto, UpTo, Before
    <2> HIDE DEF W, p
    <2>2. W(Upto(l, I, i)) <= W(UpTo(l, I, p))
      BY <1>4, <2>1
    <2>3. W(Upto(l, I, i)) \in Nat /\ W(UpTo(l, I, p)) \in Nat /\ W(I) \in Nat
      BY <1>3, <2>1
    <2>4. QED
      BY <1>2, <2>2, <2>3
  <1>7. 2 * W(U) < W(I)
    <2>1. U \in SUBSET I /\ U \in SUBSET DOMAIN l
      BY DEF Under
    <2>2. W(U) \in Nat /\ W(I) \in Nat
      BY <1>3, <2>1
    <2>3. CASE U = {}
      BY <1>5, <2>2, <2>3
    <2>4. CASE U # {}
      <3> HIDE DEF U, W, p
      <3>1. Cardinality(U) \in Nat \ {0}
        BY <2>1, <2>4, Positions, FS_EmptySet
      <3>2. PICK t \in U : Place(l, U, t) = Cardinality(U) - 1
        BY <2>1, <3>1, Places
      <3>3. \A j \in U : Place(l, U, j) \in 0..(Cardinality(U) - 1)
        BY <2>1, Places
      <3>4. \A j \in U : /\ Place(l, U, j) = Place(l, U, t) => j = t
                         /\ Before(l, j, t) <=> Place(l, U, j) < Place(l, U, t)
        BY <2>1, <3>2, Places
      <3>5. \A j \in U : j = t \/ Before(l, j, t)
        BY <3>1, <3>2, <3>3, <3>4
      <3>6. t \in I /\ l[t].price < l[i].price
        BY <1>1, <2>1, <3>2 DEF U, Under
      <3>7. Upto(l, I, t) = U
        <4>1. U \subseteq Upto(l, I, t)
          BY <2>1, <3>5 DEF Upto
        <4>2. \A j \in Upto(l, I, t) : j \in I /\ l[j].price <= l[t].price
          BY <1>2, <3>6 DEF Upto, Before
        <4>3. \A j \in I : l[j].price <= l[t].price => l[j].price < l[i].price
          BY <1>2, <3>6
        <4>4. Upto(l, I, t) \subseteq U
          BY <1>1, <4>2, <4>3 DEF U, Under
        <4>5. QED
          BY <4>1, <4>4
      <3>8. t \notin Half(l, I, now)
        <4>1. ~(i = t) /\ ~Before(l, i, t)
          BY <1>2, <3>6 DEF Before
        <4>2. QED
          BY <1>1, <4>1
      <3>9. ~(2 * W(U) >= W(I))
        BY <3>6, <3>7, <3>8 DEF Half, W
      <3>10. QED
        BY <2>2, <3>9
    <2>5. QED
      BY <2>3, <2>4
  <1>8. p \in Nat
    BY <1>1, <1>2
  <1>9. QED
    BY <1>6, <1>7, <1>8

LEMMA MedianMoves ==
  ASSUME NEW l, NEW m, NEW pi, Moved(l, m, pi), NEW I \in SUBSET DOMAIN l,
         I # {}, NEW now \in 0..HalfLives
  PROVE  weightedMedian(m, Image(pi, I), now) = weightedMedian(l, I, now)
  <1> DEFINE J == Image(pi, I)
             p == weightedMedian(l, I, now)
             q == weightedMedian(m, J, now)
             V(T) == WeightOf(l, T, now)
             W(T) == WeightOf(m, T, now)
  <1>1. /\ l \in Seq(Row) /\ m \in Seq(Row) /\ J \in SUBSET DOMAIN m
        /\ J # {} /\ W(J) = V(I)
    <2>1. l \in Seq(Row) /\ m \in Seq(Row) /\ J \in SUBSET DOMAIN m
      BY MovedParts DEF Moved
    <2>2. J # {}
      BY DEF Image
    <2>3. I \in SUBSET I /\ W(J) = V(I)
      BY MovedWeight
    <2>4. QED
      BY <2>1, <2>2, <2>3
  <1>2. p \in Nat /\ 2 * V(UpTo(l, I, p)) >= V(I) /\ 2 * V(Under(l, I, p)) < V(I)
    BY <1>1, MedianCounts
  <1>3. q \in Nat /\ 2 * W(UpTo(m, J, q)) >= W(J) /\ 2 * W(Under(m, J, q)) < W(J)
    BY <1>1, MedianCounts
  <1>4. ASSUME NEW x
        PROVE  W(Under(m, J, x)) = V(Under(l, I, x)) /\ W(UpTo(m, J, x)) = V(UpTo(l, I, x))
    <2>1. /\ Under(m, J, x) = Image(pi, Under(l, I, x))
          /\ UpTo(m, J, x) = Image(pi, UpTo(l, I, x))
      BY MovedParts
    <2>2. Under(l, I, x) \in SUBSET DOMAIN l /\ UpTo(l, I, x) \in SUBSET DOMAIN l
      BY DEF Under, UpTo
    <2> HIDE DEF J
    <2>3. QED
      BY <2>1, <2>2, MovedWeight
  <1>5. ASSUME NEW x \in Nat, NEW y \in Nat, x < y
        PROVE  /\ V(UpTo(l, I, x)) <= V(Under(l, I, y))
               /\ V(UpTo(l, I, x)) \in Nat /\ V(Under(l, I, y)) \in Nat
    <2>0. \A i \in I : l[i].price \in Nat
      BY <1>1, Positions
    <2>1. UpTo(l, I, x) \in SUBSET Under(l, I, y)
      BY <1>5, <2>0 DEF UpTo, Under
    <2>2. Under(l, I, y) \in SUBSET DOMAIN l /\ UpTo(l, I, x) \in SUBSET DOMAIN l
      BY DEF Under, UpTo
    <2>3. QED
      BY <1>1, <2>1, <2>2, WeightGrows, WeightSplit
  <1>6. V(I) \in Nat
    BY <1>1, WeightSplit
  <1> HIDE DEF J, p, q, V, W
  <1>7. ~(p < q)
    <2> SUFFICES ASSUME p < q PROVE FALSE
      OBVIOUS
    <2>1. /\ V(UpTo(l, I, p)) <= V(Under(l, I, q))
          /\ V(UpTo(l, I, p)) \in Nat /\ V(Under(l, I, q)) \in Nat
      BY <1>2, <1>3, <1>5
    <2>2. 2 * V(Under(l, I, q)) < V(I)
      BY <1>1, <1>3, <1>4
    <2>3. QED
      BY <1>2, <1>6, <2>1, <2>2
  <1>8. ~(q < p)
    <2> SUFFICES ASSUME q < p PROVE FALSE
      OBVIOUS
    <2>1. /\ V(UpTo(l, I, q)) <= V(Under(l, I, p))
          /\ V(UpTo(l, I, q)) \in Nat /\ V(Under(l, I, p)) \in Nat
      BY <1>2, <1>3, <1>5
    <2>2. 2 * V(UpTo(l, I, q)) >= V(I)
      BY <1>1, <1>3, <1>4
    <2>3. QED
      BY <1>2, <1>6, <2>1, <2>2
  <1>9. QED
    BY <1>2, <1>3, <1>7, <1>8 DEF J, p, q

(* Where the prices are close, or too few for a trim, all rows are kept.   *)
LEMMA NothingTrimmed ==
  ASSUME NEW l \in Seq(Row),
         Close(l) \/ Cardinality(InCell(l)) < TrimFloor
  PROVE  trimTypicalBand(l, InCell(l)) = InCell(l)
  <1> DEFINE I == InCell(l)
             n == Cardinality(I)
             a == AsRead(l, I, n \div 2)
  <1>1. I \in SUBSET DOMAIN l
    BY DEF InCell
  <1>2. n \in Nat /\ \A i \in I : l[i].price \in Nat
    BY <1>1, Positions
  <1>3. ASSUME Close(l) PROVE Band(l, I) = I
    <2>1. CASE I = {}
      BY <2>1 DEF Band
    <2>2. CASE I # {}
      <3>1. n # 0
        BY <1>1, <2>2, Positions, FS_EmptySet
      <3>2. n \div 2 \in 0..(n - 1)
        BY <1>2, <3>1
      <3>3. PICK i \in I : a = l[i].price
        BY <1>1, <3>2, AsReadPlace
      <3>4. \A j \in I : 10 * l[i].price <= 22 * l[j].price
                         /\ 10 * l[j].price <= 22 * l[i].price
        BY <1>3 DEF Close
      <3> HIDE DEF I, a
      <3>5. ASSUME NEW j \in I
            PROVE  10 * l[j].price >= 2 * a /\ 10 * l[j].price <= 22 * a
        <4>1. a \in Nat /\ l[j].price \in Nat
          BY <1>2, <3>3
        <4>2. 10 * a <= 22 * l[j].price /\ 10 * l[j].price <= 22 * a
          BY <3>3, <3>4
        <4>3. QED
          BY <4>1, <4>2
      <3>6. QED
        BY <3>5 DEF Band, I, a
    <2>3. QED
      BY <2>1, <2>2
  <1>4. QED
    BY <1>3 DEF trimTypicalBand

(* A verdict to which the trim has contributed nothing depends on the rows *)
(* and not on the order in which they came, whatever that order is.        *)
LEMMA OrderFree ==
  ASSUME NEW l, NEW m, NEW pi, Moved(l, m, pi),
         Close(l) \/ Cardinality(InCell(l)) < TrimFloor
  PROVE  SameVerdict(l, m)
  <1> DEFINE I == InCell(l)
             J == InCell(m)
             n == Cardinality(I)
  <1>1. l \in Seq(Row) /\ m \in Seq(Row) /\ I \in SUBSET DOMAIN l
    BY DEF Moved, InCell
  <1>2. /\ pi \in [DOMAIN l -> DOMAIN m]
        /\ \A j \in DOMAIN m : \E i \in DOMAIN l : pi[i] = j
        /\ \A i \in DOMAIN l : m[pi[i]] = l[i]
    BY DEF Moved, Bijection, Surjection
  <1>3. J = Image(pi, I)
    BY <1>2 DEF Image, InCell
  <1>4. Cardinality(J) = n /\ n \in Nat
    BY <1>1, <1>3, MovedParts, Positions
  <1>5. Close(l) => Close(m)
    <2>1. \A j \in J : \E i \in I : m[j] = l[i]
      BY <1>2, <1>3 DEF Image, InCell
    <2> HIDE DEF I, J
    <2>2. QED
      BY <2>1 DEF Close, I, J
  <1>6. trimTypicalBand(l, I) = I /\ trimTypicalBand(m, J) = J
    BY <1>1, <1>4, <1>5, NothingTrimmed
  <1>7. Computes(l) <=> n >= MinSamples
    BY <1>6 DEF Computes
  <1>8. Computes(m) <=> n >= MinSamples
    BY <1>4, <1>6 DEF Computes
  <1>9. ASSUME n >= MinSamples PROVE ComputeVerdict(l, 0) = ComputeVerdict(m, 0)
    <2>1. \A k \in 0..(n - 1) : Sorted(m, J, k) = Sorted(l, I, k)
      BY <1>1, <1>3, SortedMoves
    <2>2. /\ P10Place(n) \in 0..(n - 1) /\ P25Place(n) \in 0..(n - 1)
          /\ P75Place(n) \in 0..(n - 1) /\ P90Place(n) \in 0..(n - 1)
      <3> HIDE DEF n
      <3>1. QED
        BY <1>4, <1>9 DEF P10Place, P25Place, P75Place, P90Place
    <2>3. weightedMedian(m, J, 0) = weightedMedian(l, I, 0)
      <3>1. I # {} /\ 0 \in 0..HalfLives
        BY <1>4, <1>9, FS_EmptySet
      <3>2. QED
        BY <1>1, <1>3, <3>1, MedianMoves
    <2>4. {m[j].source : j \in J} = {l[i].source : i \in I}
      BY <1>1, <1>2, <1>3 DEF Image
    <2>5. (\A j \in J : 0 - m[j].at >= MaxAge) <=> (\A i \in I : 0 - l[i].at >= MaxAge)
      BY <1>1, <1>2, <1>3 DEF Image
    <2> HIDE DEF I, J, n
    <2>6. \A x, y : EvaluateGates(l, I, x, y, 0) = EvaluateGates(m, J, x, y, 0)
      BY <1>4, <2>4, <2>5 DEF EvaluateGates, n
    <2>7. QED
      BY <1>4, <1>6, <2>1, <2>2, <2>3, <2>6 DEF ComputeVerdict, I, J, n
  <1>10. Computes(l) \in BOOLEAN /\ Computes(m) \in BOOLEAN
    BY DEF Computes
  <1>11. Computes(l) = Computes(m)
    BY <1>7, <1>8, <1>10
  <1>12. QED
    BY <1>7, <1>9, <1>11 DEF SameVerdict

(* The two shuffles move the rows of a list and change none.               *)
LEMMA ShufflesMove ==
  ASSUME NEW l \in Seq(Row), NEW m \in Shuffled(l)
  PROVE  \E pi : Moved(l, m, pi)
  <1> DEFINE n == Len(l)
  <1>1. n \in Nat /\ DOMAIN l = 1..n /\ \A i \in 1..n : l[i] \in Row
    BY LenProperties, ElementOfSeq
  <1>2. CASE n < 2
    <2> DEFINE pi == [i \in DOMAIN l |-> i]
    <2>1. m = l
      BY <1>2 DEF Shuffled
    <2>2. Moved(l, m, pi)
      BY <2>1 DEF Moved, Bijection, Injection, Surjection, IsInjective
    <2>3. QED
      BY <2>2
  <1>3. CASE n >= 2 /\ m = [l EXCEPT ![1] = l[2], ![2] = l[1]]
    <2> DEFINE pi == [i \in 1..n |-> IF i = 1 THEN 2 ELSE IF i = 2 THEN 1 ELSE i]
    <2>1. m \in Seq(Row) /\ DOMAIN m = 1..n
      BY <1>1, <1>3
    <2>2. \A i \in 1..n : m[pi[i]] = l[i]
      BY <1>1, <1>3
    <2>3. pi \in Bijection(1..n, 1..n)
      <3> HIDE DEF n
      <3>1. pi \in [1..n -> 1..n] /\ \A i \in 1..n : pi[pi[i]] = i
        BY <1>1, <1>3
      <3> HIDE DEF pi
      <3>2. QED
        BY <3>1 DEF Bijection, Injection, Surjection, IsInjective
    <2>4. QED
      BY <1>1, <2>1, <2>2, <2>3 DEF Moved
  <1>4. CASE n >= 2 /\ m = Tail(l) \o <<Head(l)>>
    <2> DEFINE pi == [i \in 1..n |-> IF i = 1 THEN n ELSE i - 1]
    <2>0. l # <<>> /\ Head(l) = l[1]
      <3>1. Len(<<>>) = 0
        OBVIOUS
      <3>2. l # <<>>
        BY <1>4, <3>1
      <3>3. QED
        BY <3>2
    <2>1. /\ Tail(l) \in Seq(Row) /\ Len(Tail(l)) = n - 1
          /\ <<Head(l)>> \in Seq(Row) /\ Len(<<Head(l)>>) = 1
          /\ \A i \in 1..(n - 1) : Tail(l)[i] = l[i + 1]
      <3>1. /\ Head(l) \in Row /\ Tail(l) \in Seq(Row) /\ Len(Tail(l)) = n - 1
            /\ \A i \in 1..Len(Tail(l)) : Tail(l)[i] = l[i + 1]
        BY <2>0, HeadTailProperties
      <3>2. <<Head(l)>> \in Seq(Row) /\ Len(<<Head(l)>>) = 1
        BY <3>1
      <3>3. QED
        BY <3>1, <3>2
    <2>2. /\ m \in Seq(Row) /\ Len(m) = n /\ DOMAIN m = 1..n
          /\ \A i \in 1..n : m[i] = IF i < n THEN l[i + 1] ELSE l[1]
      <3> DEFINE a == Tail(l)
                 b == <<Head(l)>>
      <3>1. /\ a \o b \in Seq(Row) /\ Len(a \o b) = Len(a) + Len(b)
            /\ \A i \in 1..(Len(a) + Len(b)) :
                 (a \o b)[i] = IF i <= Len(a) THEN a[i] ELSE b[i - Len(a)]
        <4>1. a \in Seq(Row) /\ b \in Seq(Row)
          BY <2>1
        <4> HIDE DEF a, b
        <4>2. QED
          BY <4>1, ConcatProperties
      <3>2. m = a \o b /\ Len(a) = n - 1 /\ Len(b) = 1 /\ b[1] = l[1]
        BY <1>4, <2>0, <2>1
      <3>3. \A i \in 1..(n - 1) : a[i] = l[i + 1]
        BY <2>1
      <3> HIDE DEF a, b, n
      <3>4. m \in Seq(Row) /\ Len(m) = n
        BY <1>1, <3>1, <3>2
      <3>5. ASSUME NEW i \in 1..n
            PROVE  m[i] = IF i < n THEN l[i + 1] ELSE l[1]
        <4>1. m[i] = IF i <= n - 1 THEN a[i] ELSE b[i - (n - 1)]
          BY <1>1, <3>1, <3>2
        <4>2. CASE i < n
          BY <1>1, <3>3, <4>1, <4>2
        <4>3. CASE i = n
          <5>1. ~(i <= n - 1) /\ i - (n - 1) = 1
            BY <1>1, <4>3
          <5>2. QED
            BY <1>1, <3>2, <4>1, <4>3, <5>1
        <4>4. QED
          BY <1>1, <4>2, <4>3
      <3>6. QED
        BY <3>4, <3>5, LenProperties
    <2>3. \A i \in 1..n : m[pi[i]] = l[i]
      <3> SUFFICES ASSUME NEW i \in 1..n PROVE m[pi[i]] = l[i]
        OBVIOUS
      <3> HIDE DEF n
      <3>1. CASE i = 1
        <4>1. n \in 1..n /\ pi[i] = n /\ ~(n < n)
          BY <1>1, <1>4, <3>1
        <4>2. QED
          BY <2>2, <3>1, <4>1
      <3>2. CASE i # 1
        <4>1. pi[i] = i - 1 /\ i - 1 \in 1..n /\ i - 1 < n /\ (i - 1) + 1 = i
          BY <1>1, <3>2
        <4> HIDE DEF pi
        <4>2. m[i - 1] = l[(i - 1) + 1]
          BY <2>2, <4>1
        <4>3. QED
          BY <4>1, <4>2
      <3>3. QED
        BY <3>1, <3>2
    <2>4. pi \in Bijection(1..n, 1..n)
      <3> HIDE DEF n
      <3>1. pi \in [1..n -> 1..n] /\ \A i, j \in 1..n : pi[i] = pi[j] => i = j
        BY <1>1, <1>4
      <3>2. \A j \in 1..n : \E i \in 1..n : pi[i] = j
        <4>1. SUFFICES ASSUME NEW j \in 1..n PROVE \E i \in 1..n : pi[i] = j
          OBVIOUS
        <4>2. CASE j = n
          <5>1. pi[1] = n /\ 1 \in 1..n
            BY <1>1, <1>4
          <5>2. QED
            BY <4>2, <5>1
        <4>3. CASE j < n
          <5>1. pi[j + 1] = j /\ j + 1 \in 1..n
            BY <1>1, <4>3
          <5>2. QED
            BY <5>1
        <4>4. QED
          BY <1>1, <4>2, <4>3
      <3> HIDE DEF pi
      <3>3. QED
        BY <3>1, <3>2 DEF Bijection, Injection, Surjection, IsInjective
    <2>5. QED
      BY <1>1, <2>2, <2>3, <2>4 DEF Moved
  <1>5. n < 2 \/ (n >= 2 /\ m = [l EXCEPT ![1] = l[2], ![2] = l[1]])
              \/ (n >= 2 /\ m = Tail(l) \o <<Head(l)>>)
    <2>1. n < 2 \/ n >= 2
      BY <1>1
    <2>2. n >= 2 => m \in {[l EXCEPT ![1] = l[2], ![2] = l[1]], Tail(l) \o <<Head(l)>>}
      <3>1. n >= 2 => ~(Len(l) < 2)
        BY <1>1
      <3>2. QED
        BY <3>1 DEF Shuffled
    <2>3. QED
      BY <2>1, <2>2
  <1>6. QED
    BY <1>2, <1>3, <1>4, <1>5

(* The same set of rows gets the same verdict in every order where the     *)
(* trim has nothing to do.                                                 *)
THEOREM VerdictsAreOrderFree == Spec => []OrderFreeWhenClose
  <1>1. RowsOK => OrderFreeWhenClose
    BY ShufflesMove, OrderFree DEF OrderFreeWhenClose, RowsOK
  <1>2. QED
    BY <1>1, AlwaysRows, PTL
=============================================================================
