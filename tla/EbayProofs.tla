----------------------------- MODULE EbayProofs -----------------------------
(***************************************************************************)
(* Proofs about module EbayIngest, for every set of listings, every way    *)
(* that searches answer, and every grace.                                  *)
(***************************************************************************)
EXTENDS EbayIngest, TLAPS

USE ItemAssumption

(* What TypeOK needs of the phases of a run to be inductive.               *)
PhasesOK ==
  /\ pc = "idle" => hand = {}
  /\ pc # "delisting" => vanished = {}
  /\ pc = "delisting" => hand \subseteq vanished

TypeInv == TypeOK /\ PhasesOK

LEMMA InitTypeInv == Init => TypeInv
  <1> SUFFICES ASSUME Init PROVE TypeInv
    OBVIOUS
  <1>1. age \in [Item -> 0..Grace] /\ askAge \in [Item -> 0..Grace]
    BY DEF Init
  <1>2. listings \in [Item -> Nat] /\ delists \in [Item -> Nat]
    BY DEF Init
  <1>3. QED
    BY <1>1, <1>2 DEF Init, TypeInv, TypeOK, PhasesOK

LEMMA OlderType == \A n \in 0..Grace : Older(n) \in 0..Grace /\ n <= Older(n)
  BY DEF Older

LEMMA OlderMonotone ==
  ASSUME NEW m \in 0..Grace, NEW n \in 0..Grace, m <= n
  PROVE  Older(m) <= Older(n)
  BY DEF Older

LEMMA NextTypeInv == TypeInv /\ [Next]_vars => TypeInv'
  <1> SUFFICES ASSUME TypeInv, [Next]_vars PROVE TypeInv'
    OBVIOUS
  <1> USE DEF TypeInv, PhasesOK, market, ledger, cache, run
  <1>1. ASSUME NEW i \in Item, List(i) PROVE TypeInv'
    BY <1>1 DEF List, TypeOK
  <1>2. ASSUME NEW i \in Item, Unlist(i) PROVE TypeInv'
    BY <1>2 DEF Unlist, TypeOK
  <1>3. CASE NextDay
    <2>1. age' \in [Item -> 0..Grace] /\ askAge' \in [Item -> 0..Grace]
      BY <1>3, OlderType DEF NextDay, TypeOK
    <2>2. QED
      BY <1>3, <2>1 DEF NextDay, TypeOK
  <1>4. CASE Start
    BY <1>4 DEF Start, TypeOK
  <1>5. ASSUME NEW q \in Family, NEW R \in SUBSET Item, Search(q, R)
        PROVE  TypeInv'
    BY <1>5 DEF Search, TypeOK
  <1>6. ASSUME NEW i \in Item, Skip(i) PROVE TypeInv'
    BY <1>6 DEF Skip, TypeOK
  <1>7. ASSUME NEW i \in Item, AppendAsk(i) PROVE TypeInv'
    <2>1. askAge' \in [Item -> 0..Grace]
      BY <1>7 DEF AppendAsk, TypeOK
    <2>2. QED
      BY <1>7, <2>1 DEF AppendAsk, TypeOK
  <1>8. ASSUME NEW i \in Item, touchEBayItem(i) PROVE TypeInv'
    <2>1. age' \in [Item -> 0..Grace]
      BY <1>8 DEF touchEBayItem, TypeOK
    <2>2. known \subseteq known' /\ known' \subseteq Item /\ open' \subseteq known'
      BY <1>8 DEF touchEBayItem, TypeOK
    <2>3. faults' \in 0..MaxFaults
      BY <1>8 DEF touchEBayItem, TypeOK
    <2>4. QED
      BY <1>8, <2>1, <2>2, <2>3 DEF touchEBayItem, TypeOK
  <1>9. CASE Diff
    BY <1>9 DEF Diff, DiffOver, Stale, TypeOK
  <1>10. ASSUME NEW i \in Item, AppendDelist(i) PROVE TypeInv'
    <2>1. delists' \in [Item -> Nat]
      BY <1>10 DEF AppendDelist, TypeOK
    <2>2. QED
      BY <1>10, <2>1 DEF AppendDelist, TypeOK
  <1>11. ASSUME NEW i \in Item, MarkDelisted(i) PROVE TypeInv'
    <2>1. i \in known
      BY <1>11 DEF MarkDelisted, TypeOK
    <2>2. delisted' \subseteq known
      BY <1>11, <2>1 DEF MarkDelisted, TypeOK
    <2>3. faults' \in 0..MaxFaults
      BY <1>11 DEF MarkDelisted, TypeOK
    <2>4. QED
      BY <1>11, <2>2, <2>3 DEF MarkDelisted, TypeOK
  <1>12. CASE Finish
    BY <1>12 DEF Finish, End, TypeOK
  <1>13. CASE Fail
    BY <1>13 DEF Fail, End, TypeOK
  <1>14. CASE UNCHANGED vars
    BY <1>14 DEF vars, TypeOK
  <1>15. QED
    BY <1>1, <1>2, <1>3, <1>4, <1>5, <1>6, <1>7, <1>8, <1>9, <1>10, <1>11,
       <1>12, <1>13, <1>14 DEF Next

(* The tables keep their shape, and a run has in hand what its phase       *)
(* allows: at most one item, of its own answers or of the vanished ones    *)
(* (internal/ingest/ebay.go).                                              *)
THEOREM TypeCorrect == Spec => []TypeOK
  <1>1. TypeInv => TypeOK
    BY DEF TypeInv
  <1>2. QED
    BY InitTypeInv, NextTypeInv, <1>1, PTL DEF Spec

-----------------------------------------------------------------------------
(* The ledger's last ask of a listing is as old as its row in ebay_items   *)
(* says or older, unless the run is between the two writes; and what a run *)
(* is about to delist was not seen within the grace.                       *)
GraceInv ==
  faults = 0 =>
    /\ \A i \in Item : age[i] <= askAge[i] \/ (pc = "searching" /\ i \in hand)
    /\ \A i \in vanished : age[i] >= Grace

LEMMA InitGraceInv == Init => GraceInv
  BY DEF Init, GraceInv

LEMMA NextGraceInv == TypeInv /\ GraceInv /\ [Next]_vars => GraceInv'
  <1> SUFFICES ASSUME TypeInv, GraceInv, [Next]_vars, faults' = 0
               PROVE  GraceInv'
    BY DEF GraceInv
  <1>0. faults = 0
    BY DEF Next, vars, market, ledger, cache, run, List, Unlist, NextDay, Start,
       Search, Skip, AppendAsk, touchEBayItem, Diff, DiffOver, AppendDelist,
       MarkDelisted, Finish, Fail, TypeInv, TypeOK
  <1> USE <1>0 DEF TypeInv, PhasesOK, market, ledger, cache, run, GraceInv
  <1>1. ASSUME NEW i \in Item, List(i) \/ Unlist(i) PROVE GraceInv'
    BY <1>1 DEF List, Unlist
  <1>2. CASE NextDay
    <2>1. \A i \in Item : /\ age[i] \in 0..Grace /\ askAge[i] \in 0..Grace
                          /\ age[i] <= askAge[i]
                          /\ age'[i] = Older(age[i])
                          /\ askAge'[i] = Older(askAge[i])
      BY <1>2 DEF NextDay, TypeOK
    <2>2. \A i \in Item : age'[i] <= askAge'[i]
      BY <2>1, OlderMonotone
    <2>3. vanished' = {}
      BY <1>2 DEF NextDay
    <2>4. QED
      BY <2>2, <2>3
  <1>3. CASE Start
    BY <1>3 DEF Start, TypeOK
  <1>4. ASSUME NEW q \in Family, NEW R \in SUBSET Item, Search(q, R)
        PROVE  GraceInv'
    BY <1>4 DEF Search
  <1>5. ASSUME NEW i \in Item, Skip(i) PROVE GraceInv'
    BY <1>5 DEF Skip
  <1>6. ASSUME NEW i \in Item, AppendAsk(i) PROVE GraceInv'
    <2>1. \A j \in Item : j # i => askAge'[j] = askAge[j]
      BY <1>6 DEF AppendAsk, TypeOK
    <2>2. QED
      BY <1>6, <2>1 DEF AppendAsk
  <1>7. ASSUME NEW i \in Item, touchEBayItem(i) PROVE GraceInv'
    <2>1. age' = [age EXCEPT ![i] = 0]
      BY <1>7 DEF touchEBayItem
    <2>2. \A j \in Item : age'[j] <= askAge'[j]
      BY <1>7, <2>1 DEF touchEBayItem, TypeOK
    <2>3. vanished' = {}
      BY <1>7 DEF touchEBayItem
    <2>4. QED
      BY <2>2, <2>3
  <1>8. CASE Diff
    BY <1>8 DEF Diff, DiffOver, Stale
  <1>9. ASSUME NEW i \in Item, AppendDelist(i) \/ MarkDelisted(i)
        PROVE  GraceInv'
    BY <1>9 DEF AppendDelist, MarkDelisted
  <1>10. CASE Finish
    BY <1>10 DEF Finish, End
  <1>11. CASE Fail
    BY <1>11 DEF Fail
  <1>12. CASE UNCHANGED vars
    BY <1>12 DEF vars
  <1>13. QED
    BY <1>1, <1>2, <1>3, <1>4, <1>5, <1>6, <1>7, <1>8, <1>9, <1>10, <1>11,
       <1>12 DEF Next

(* While every write succeeds, no listing gets a delist event within the   *)
(* grace of an ask that the ledger has for it (appendDelistEvents).        *)
THEOREM AsksGiveGrace == Spec => AskGivesGrace
  <1> DEFINE Step == \A i \in Item : Delists(i) /\ faults = 0 => askAge[i] >= Grace
  <1>1. TypeInv /\ GraceInv /\ [Next]_vars => [Step]_vars
    <2> SUFFICES ASSUME TypeInv, GraceInv, Next, NEW i \in Item, Delists(i),
                        faults = 0
                 PROVE  askAge[i] >= Grace
      OBVIOUS
    <2>1. AppendDelist(i)
      BY DEF Next, Delists, market, ledger, cache, run, List, Unlist, NextDay,
         Start, Search, Skip, AppendAsk, touchEBayItem, Diff, DiffOver,
         AppendDelist, MarkDelisted, Finish, Fail, TypeInv, TypeOK
    <2>2. pc = "delisting" /\ i \in vanished
      BY <2>1 DEF AppendDelist
    <2>3. age[i] >= Grace /\ age[i] <= askAge[i]
      BY <2>2 DEF GraceInv
    <2>4. QED
      BY <2>3 DEF TypeInv, TypeOK
  <1>2. QED
    BY InitTypeInv, NextTypeInv, InitGraceInv, NextGraceInv, <1>1, PTL
       DEF Spec, AskGivesGrace

-----------------------------------------------------------------------------
(* What a run has of a listing, or ebay_items knows of it, was up.  An     *)
(* event precedes its mark, and what is marked is not delisted again.      *)
OnceInv ==
  /\ \A i \in listed \cup seen \cup hand \cup known : listings[i] >= 1
  /\ faults = 0 =>
       /\ vanished \cap delisted = {}
       /\ \A i \in Item : \/ delists[i] = 0
                          \/ /\ delists[i] = 1
                             /\ i \in delisted \/ (pc = "delisting" /\ i \in hand)

LEMMA InitOnceInv == Init => OnceInv
  BY DEF Init, OnceInv

LEMMA NextOnceInv == TypeInv /\ OnceInv /\ [Next]_vars => OnceInv'
  <1> SUFFICES ASSUME TypeInv, OnceInv, [Next]_vars PROVE OnceInv'
    OBVIOUS
  <1>0. faults' = 0 => faults = 0
    BY DEF Next, vars, market, ledger, cache, run, List, Unlist, NextDay, Start,
       Search, Skip, AppendAsk, touchEBayItem, Diff, DiffOver, AppendDelist,
       MarkDelisted, Finish, Fail, TypeInv, TypeOK
  <1> USE <1>0 DEF TypeInv, PhasesOK, market, ledger, cache, run, OnceInv
  <1>1. ASSUME NEW i \in Item, List(i) PROVE OnceInv'
    <2>1. \A j \in Item : listings'[j] = IF j = i THEN listings[i] + 1 ELSE listings[j]
      BY <1>1 DEF List, TypeOK
    <2>2. \A j \in listed' \cup seen' \cup hand' \cup known' : listings'[j] >= 1
      BY <1>1, <2>1 DEF List, TypeOK
    <2>3. QED
      BY <1>1, <2>2 DEF List
  <1>2. ASSUME NEW i \in Item, Unlist(i) PROVE OnceInv'
    BY <1>2 DEF Unlist
  <1>3. CASE NextDay \/ Start
    BY <1>3 DEF NextDay, Start
  <1>4. ASSUME NEW q \in Family, NEW R \in SUBSET Item, Search(q, R)
        PROVE  OnceInv'
    BY <1>4 DEF Search
  <1>5. ASSUME NEW i \in Item, Skip(i) PROVE OnceInv'
    BY <1>5 DEF Skip
  <1>6. ASSUME NEW i \in Item, AppendAsk(i) PROVE OnceInv'
    BY <1>6 DEF AppendAsk, TypeOK
  <1>7. ASSUME NEW i \in Item, touchEBayItem(i) PROVE OnceInv'
    BY <1>7 DEF touchEBayItem, TypeOK
  <1>8. CASE Diff
    BY <1>8 DEF Diff, DiffOver, TypeOK
  <1>9. ASSUME NEW i \in Item, AppendDelist(i) PROVE OnceInv'
    <2>1. i \in known /\ pc = "delisting" /\ hand = {} /\ i \in vanished
      BY <1>9 DEF AppendDelist, TypeOK
    <2>2. /\ delists'[i] \in {delists[i], delists[i] + 1}
          /\ \A j \in Item : j # i => delists'[j] = delists[j]
      BY <1>9 DEF AppendDelist, TypeOK
    <2>3. QED
      BY <1>9, <2>1, <2>2 DEF AppendDelist, TypeOK
  <1>10. ASSUME NEW i \in Item, MarkDelisted(i) PROVE OnceInv'
    BY <1>10 DEF MarkDelisted, TypeOK
  <1>11. CASE Finish
    BY <1>11 DEF Finish, End, TypeOK
  <1>12. CASE Fail
    <2>1. faults' # 0
      BY <1>12 DEF Fail, TypeOK
    <2>2. QED
      BY <1>12, <2>1 DEF Fail, End
  <1>13. CASE UNCHANGED vars
    BY <1>13 DEF vars
  <1>14. QED
    BY <1>1, <1>2, <1>3, <1>4, <1>5, <1>6, <1>7, <1>8, <1>9, <1>10, <1>11,
       <1>12, <1>13 DEF Next

(* While no run is killed and no write lost, a listing has at most one     *)
(* delist event for each time it went up (appendDelistEvents).             *)
THEOREM DelistedOnce == Spec => []DelistOnce
  <1>1. TypeInv /\ OnceInv => DelistOnce
    <2> SUFFICES ASSUME TypeInv, OnceInv, faults = 0, NEW i \in Item
                 PROVE  delists[i] <= listings[i]
      BY DEF DelistOnce
    <2>1. CASE delists[i] = 0
      BY <2>1 DEF TypeInv, TypeOK
    <2>2. CASE delists[i] # 0
      <3>1. delists[i] = 1 /\ i \in known
        BY <2>2 DEF OnceInv, TypeInv, TypeOK, PhasesOK
      <3>2. QED
        BY <3>1 DEF OnceInv, TypeInv, TypeOK
    <2>3. QED
      BY <2>1, <2>2
  <1>2. QED
    BY InitTypeInv, NextTypeInv, InitOnceInv, NextOnceInv, <1>1, PTL DEF Spec
=============================================================================
