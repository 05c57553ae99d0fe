------------------------------- MODULE Engine -------------------------------
(***************************************************************************)
(* The verdict computation of internal/engine over the rows of one cell.   *)
(* It is pure; the only behaviour here is that of a database that hands    *)
(* over rows of one table one by one, so that every list of rows that some *)
(* table holds is a state.  Prices are whole numbers and ages whole        *)
(* half-lives, so that weights, ratios and comparisons are exact.          *)
(***************************************************************************)
EXTENDS Integers, Sequences, FiniteSets, FiniteSetsExt

CONSTANTS
  Table,       \* possible tables: [row : rows, max : bound on how many], a
               \* row being [price, source, at]
  MinSamples, TrimFloor, MinVolume, MinSources,
  MaxAge,      \* freshness bound, in half-lives
  HalfLives    \* no row is older than this, nor the query later

ASSUME RowAssumption ==
  \A t \in Table : \A r \in t.row : r.price \in Nat /\ r.at \in -HalfLives..0

ASSUME RuleAssumption ==
  /\ MinSamples \in Nat \ {0} /\ TrimFloor \in Nat
  /\ MaxAge \in Int /\ HalfLives \in Nat

VARIABLE rows

\* A set I of positions in the list l stands for the rows there.
InCell(l) == {i \in DOMAIN l : l[i].price > 0}

\* sort.Slice by price; rows of equal price are interchangeable.
Before(l, i, j) ==
  l[i].price < l[j].price \/ (l[i].price = l[j].price /\ i < j)

\* Slip: sorted from the highest price down.
SortedDown(l, I, k) ==
  l[CHOOSE i \in I : Cardinality({j \in I : Before(l, i, j)}) = k].price

\* The price at place k, from 0, of the rows I sorted by price.
Sorted(l, I, k) ==
  l[CHOOSE i \in I : Cardinality({j \in I : Before(l, j, i)}) = k].price

\* The price at place k, from 0, of the rows I as they came.
AsRead(l, I, k) ==
  l[CHOOSE i \in I : Cardinality({j \in I : j < i}) = k].price

\* One pass of the trim: what lies between 0.2 and 2.2 times the middle of
\* the list as it was read.
Band(l, I) ==
  LET median == AsRead(l, I, Cardinality(I) \div 2)
  IN  {i \in I : /\ 10 * l[i].price >= 2 * median
                 /\ 10 * l[i].price <= 22 * median}

\* Slip: a pass that leaves too little is given up, not kept.
GiveUpTrim(l, I) ==
  IF Cardinality(I) < TrimFloor \/ Cardinality(Band(l, I)) < TrimFloor
  THEN I ELSE Band(l, Band(l, I))

\* trimTypicalBand: two passes at most, none below TrimFloor rows.
trimTypicalBand(l, I) ==
  IF Cardinality(I) < TrimFloor THEN I
  ELSE IF Cardinality(Band(l, I)) < TrimFloor THEN Band(l, I)
  ELSE Band(l, Band(l, I))

\* 0.5^(age in half-lives), scaled to a whole number.
Weight(row, now) == 2 ^ (2 * HalfLives - (now - row.at))

WeightOf(l, I, now) == MapThenSumSet(LAMBDA i : Weight(l[i], now), I)

\* Slip: rows that have outlived every half-life weigh nothing.
CutOffMedian(l, I, now) ==
  LET F == {i \in I : now - l[i].at < HalfLives}
      Upto(i) == {j \in F : j = i \/ Before(l, j, i)}
      Half == {i \in F : 2 * WeightOf(l, Upto(i), now) >= WeightOf(l, F, now)}
  IN  IF F = {} THEN 0
      ELSE l[CHOOSE i \in Half : \A j \in Half : i = j \/ Before(l, i, j)].price

\* Slip: the running total goes down the list as it was read.
UnsortedMedian(l, I, now) ==
  LET Upto(i) == {j \in I : j <= i}
      Half == {i \in I : 2 * WeightOf(l, Upto(i), now) >= WeightOf(l, I, now)}
  IN  l[CHOOSE i \in Half : \A j \in Half : i <= j].price

\* The first price, going up, at which half of the weight is reached.
weightedMedian(l, I, now) ==
  LET Upto(i) == {j \in I : j = i \/ Before(l, j, i)}
      Half == {i \in I : 2 * WeightOf(l, Upto(i), now) >= WeightOf(l, I, now)}
  IN  l[CHOOSE i \in Half : \A j \in Half : i = j \/ Before(l, i, j)].price

\* Places of the percentiles among n sorted rows.
P10Place(n) == n \div 10
P25Place(n) == (n - 1) \div 4
P75Place(n) == (3 * (n - 1)) \div 4
P90Place(n) == IF n - 1 < (9 * n) \div 10 THEN n - 1 ELSE (9 * n) \div 10

EvaluateGates(l, I, p25, p75, now) ==
  {g \in {"volume", "sources", "freshness", "dispersion"} :
     \/ g = "volume"     /\ Cardinality(I) < MinVolume
     \/ g = "sources"    /\ Cardinality({l[i].source : i \in I}) < MinSources
     \/ g = "freshness"  /\ \A i \in I : now - l[i].at >= MaxAge
     \/ g = "dispersion" /\ (p25 <= 0 \/ 2 * p75 >= 5 * p25)}

\* Where ComputeVerdict does not answer nil.
Computes(l) ==
  /\ Cardinality(InCell(l)) >= MinSamples
  /\ Cardinality(trimTypicalBand(l, InCell(l))) >= MinSamples

ComputeVerdict(l, now) ==
  LET kept == trimTypicalBand(l, InCell(l))
      n    == Cardinality(kept)
      p25  == Sorted(l, kept, P25Place(n))
      p75  == Sorted(l, kept, P75Place(n))
  IN  [count   |-> n,
       p10     |-> Sorted(l, kept, P10Place(n)),
       p90     |-> Sorted(l, kept, P90Place(n)),
       median  |-> weightedMedian(l, kept, now),
       failing |-> EvaluateGates(l, InCell(l), p25, p75, now)]

-----------------------------------------------------------------------------
Init == rows = <<>>

\* The database hands over one more row of the table.
Read(t, r) ==
  /\ Len(rows) < t.max /\ \A i \in DOMAIN rows : rows[i] \in t.row
  /\ rows' = Append(rows, r)

Next == \E t \in Table : \E r \in t.row : Read(t, r)

Spec == Init /\ [][Next]_rows

-----------------------------------------------------------------------------
(* What is published is about the middle of the evidence it is published   *)
(* for: at least half of the kept rows, by number, lie from p10 to p90,    *)
(* and with rows of one age the median lies there too, with no more than   *)
(* half of them strictly on either side.                                   *)
RangeHoldsTheMiddle ==
  Computes(rows) =>
    LET v    == ComputeVerdict(rows, 0)
        kept == trimTypicalBand(rows, InCell(rows))
        In   == {i \in kept : rows[i].price \in v.p10..v.p90}
        Low  == {i \in kept : rows[i].price < v.median}
        High == {i \in kept : rows[i].price > v.median}
    IN  /\ 2 * Cardinality(In) >= Cardinality(kept)
        /\ Cardinality({rows[i].at : i \in kept}) = 1 =>
             /\ v.median \in v.p10..v.p90
             /\ 2 * Cardinality(Low) <= v.count
             /\ 2 * Cardinality(High) <= v.count

(* With enough rows for the trim, no two kept prices are further apart     *)
(* than the ends of the band, 2.2 / 0.2 = 11 times, although the middle    *)
(* the band is laid around depends on the order of the rows.               *)
RangeWithinBand ==
  Computes(rows) /\ Cardinality(InCell(rows)) >= TrimFloor =>
    \A i, j \in trimTypicalBand(rows, InCell(rows)) :
      rows[i].price <= 11 * rows[j].price

(* The day of the computation moves no number: recency weights all shrink  *)
(* together, so only the freshness gate can tell today from a half-life    *)
(* later ("no clock": time enters as an argument, and then only there).    *)
OnlyFreshnessAges ==
  Computes(rows) =>
    LET v == ComputeVerdict(rows, 0)
        w == ComputeVerdict(rows, HalfLives)
    IN  /\ [v EXCEPT !.failing = {}] = [w EXCEPT !.failing = {}]
        /\ v.failing \ {"freshness"} = w.failing \ {"freshness"}
        /\ v.failing \subseteq w.failing

\* The same rows in another order; the two shuffles generate every order.
Shuffled(l) ==
  IF Len(l) < 2 THEN {l}
  ELSE {[l EXCEPT ![1] = l[2], ![2] = l[1]], Tail(l) \o <<Head(l)>>}

SameVerdict(l, m) ==
  /\ Computes(l) = Computes(m)
  /\ Computes(l) => ComputeVerdict(l, 0) = ComputeVerdict(m, 0)

\* Prices so close that no row can fall outside a band laid around another.
Close(l) ==
  \A i, j \in InCell(l) : 10 * l[i].price <= 22 * l[j].price

(* Where the trim has nothing to do, the verdict depends on the set of     *)
(* rows and not on their order, as the inputs hash that names it does.     *)
OrderFreeWhenClose ==
  Close(rows) \/ Cardinality(InCell(rows)) < TrimFloor =>
    \A l \in Shuffled(rows) : SameVerdict(rows, l)
=============================================================================
