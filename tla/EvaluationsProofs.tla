------------------------- MODULE EvaluationsProofs --------------------------
(***************************************************************************)
(* Proofs about modules LandedCost and Evaluations, for every set of       *)
(* forms, references, sales, asks, tables of rates, rules and requests.    *)
(***************************************************************************)
EXTENDS Evaluations, TLAPS

-----------------------------------------------------------------------------
(* Amounts stay amounts: what is rounded is not negative.                  *)
LEMMA RoundType ==
  ASSUME NEW n \in Nat, NEW d \in Nat \ {0}
  PROVE  Round(n, d) \in Nat
  <1>1. 2 * n + d \in Nat /\ 2 * d \in Nat \ {0}
    OBVIOUS
  <1>2. ASSUME NEW a \in Nat, NEW b \in Nat \ {0} PROVE a \div b \in Nat
    OBVIOUS
  <1>3. QED
    BY <1>1, <1>2 DEF Round

LEMMA ProductType ==
  ASSUME NEW a \in Nat, NEW b \in Nat
  PROVE  a * b \in Nat
  OBVIOUS

LEMMA PerThousandType ==
  ASSUME NEW n \in Nat, NEW r \in Nat
  PROVE  PerThousand(n, r) \in Nat
  BY ProductType, RoundType DEF PerThousand

LEMMA ConvertType ==
  ASSUME NEW rates, \A c \in DOMAIN rates : rates[c] \in Nat,
         NEW from, NEW to, NEW n \in Nat
  PROVE  Convert(rates, from, to, n) \in Nat \cup {NoAmount}
  <1>1. CASE HasRate(rates, from) /\ HasRate(rates, to)
    <2>1. rates[from] \in Nat \ {0} /\ rates[to] \in Nat
      BY <1>1 DEF HasRate
    <2>2. Round(n * rates[to], rates[from]) \in Nat
      BY <2>1, ProductType, RoundType
    <2>3. QED
      BY <1>1, <2>2 DEF Convert
  <1>2. QED
    BY <1>1 DEF Convert

(* The lines of a landed cost are amounts and add up to its total.         *)
LEMMA LinesType ==
  ASSUME NEW rule, {rule.duty, rule.vat, rule.insurance} \subseteq Nat, NEW item \in Nat
  PROVE  Lines(rule, item) \in Landed /\ LinesAddUp(Lines(rule, item))
  <1> DEFINE spread    == PerThousand(item, CardSpread)
             insurance == PerThousand(item, rule.insurance)
             cif       == item + spread + DefaultShipping + insurance
             duty      == PerThousand(cif, rule.duty)
             vat       == PerThousand(cif + duty, rule.vat)
  <1>1. CardSpread \in Nat /\ DefaultShipping \in Nat
    BY DEF CardSpread, DefaultShipping
  <1>2. spread \in Nat /\ insurance \in Nat
    BY <1>1, PerThousandType
  <1> HIDE DEF spread, insurance
  <1>3. cif \in Nat
    BY <1>1, <1>2
  <1> HIDE DEF cif
  <1>4. duty \in Nat
    BY <1>3, PerThousandType
  <1> HIDE DEF duty
  <1>5. vat \in Nat
    <2>1. cif + duty \in Nat
      BY <1>3, <1>4
    <2>2. QED
      BY <2>1, PerThousandType
  <1> HIDE DEF vat
  <1>6. Lines(rule, item) =
          [item |-> item, spread |-> spread, shipping |-> DefaultShipping,
           insurance |-> insurance, duty |-> duty, vat |-> vat, total |-> cif + duty + vat]
    BY DEF Lines, spread, insurance, cif, duty, vat
  <1>7. cif + duty + vat = item + spread + DefaultShipping + insurance + duty + vat
        /\ cif + duty + vat \in Nat
    BY <1>1, <1>2, <1>3, <1>4, <1>5 DEF cif
  <1>8. QED
    BY <1>1, <1>2, <1>3, <1>4, <1>5, <1>6, <1>7 DEF Landed, LinesAddUp

LEMMA ComputeType ==
  ASSUME NEW rule, {rule.duty, rule.vat, rule.insurance} \subseteq Nat,
         NEW rates, \A c \in DOMAIN rates : rates[c] \in Nat,
         NEW price \in Nat, NEW ccy
  PROVE  Compute(rule, rates, price, ccy) # NoAmount =>
           Compute(rule, rates, price, ccy) \in Landed /\ LinesAddUp(Compute(rule, rates, price, ccy))
  <1> DEFINE item == Convert(rates, ccy, CurrencyFor(rule.to), price)
  <1>1. item \in Nat \cup {NoAmount}
    BY ConvertType
  <1> HIDE DEF item
  <1>2. Compute(rule, rates, price, ccy) =
          IF CurrencyFor(rule.to) = NoAmount \/ item = NoAmount \/ price <= 0
          THEN NoAmount ELSE Lines(rule, item)
    BY DEF Compute, item
  <1>3. QED
    BY <1>1, <1>2, LinesType

-----------------------------------------------------------------------------
\* Until it is evaluated, a request is about a listing that was resolved.
UnderWay == {"resolved", "evidence", "priced", "asked"}

TypeInv ==
  /\ TypeOK
  /\ \A q \in Request : req[q].at \in UnderWay => req[q].b.resolved

LEMMA NeedsReviewType ==
  ASSUME NEW l \in Listing
  PROVE  /\ NeedsReview(l) \in Bundle /\ IsBundle(NeedsReview(l))
         /\ LET c == [NeedsReview(l) EXCEPT !.resolved = TRUE]
            IN  /\ c \in Bundle /\ IsBundle(c) /\ c.resolved /\ c.asks = {} /\ ~c.moved
                /\ c.landed = NoAmount /\ c.usdDate = None /\ c.landedDate = None
  <1> DEFINE n == NeedsReview(l)
             c == [n EXCEPT !.resolved = TRUE]
  <1>1. n \in Bundle /\ n.listing = l /\ n.moved = FALSE
        /\ n.asks = {} /\ n.landed = NoAmount /\ n.usdDate = None /\ n.landedDate = None
    BY DEF NeedsReview, Bundle, Amount, Date
  <1> HIDE DEF n
  <1>2. [n EXCEPT !.moved = FALSE] = n
    BY <1>1 DEF Bundle
  <1>3. IsBundle(n)
    BY <1>1, <1>2 DEF IsBundle, n
  <1>4. c \in Bundle /\ c.resolved /\ c.asks = {} /\ ~c.moved
        /\ c.landed = NoAmount /\ c.usdDate = None /\ c.landedDate = None
    BY <1>1 DEF Bundle
  <1>5. QED
    BY <1>1, <1>3, <1>4 DEF IsBundle, n

LEMMA IdleOrNot ==
  ASSUME TypeOK, NEW q \in Request
  PROVE  /\ req[q] = Idle <=> req[q].at = "idle"
         /\ req[q] # Idle => /\ req[q].b \in Bundle /\ IsBundle(req[q].b)
                             /\ req[q].at \in UnderWay \cup {"evaluated"}
                             /\ req[q] = [at |-> req[q].at, b |-> req[q].b]
  BY DEF TypeOK, RequestState, Idle, UnderWay

(* A step of a request from one of its queries to the next.                *)
LEMMA StepType ==
  ASSUME TypeInv, NEW q \in Request, NEW from, NEW to \in UnderWay \cup {"evaluated"},
         NEW bundle \in Bundle, to \in UnderWay => bundle.resolved, IsBundle(bundle),
         Step(q, from, to, bundle)
  PROVE  /\ TypeInv' /\ UNCHANGED <<market, evaluations, landing>>
         /\ req'[q] = [at |-> to, b |-> bundle] /\ req'[q] # Idle
         /\ \A p \in Request \ {q} : req'[p] = req[p]
  <1>1. req' = [req EXCEPT ![q] = [at |-> to, b |-> bundle]]
        /\ UNCHANGED <<catalogue, fxDate, evaluations, landing>>
    BY DEF Step, market
  <1>2. [at |-> to, b |-> bundle] \in RequestState
    BY DEF RequestState, UnderWay
  <1>3. req' \in [Request -> RequestState] /\ req'[q] = [at |-> to, b |-> bundle]
        /\ \A p \in Request \ {q} : req'[p] = req[p]
    BY <1>1, <1>2 DEF TypeInv, TypeOK
  <1>4. TypeOK'
    BY <1>1, <1>3 DEF TypeInv, TypeOK
  <1>5. req'[q] # Idle
    BY <1>3 DEF Idle, UnderWay
  <1>6. QED
    BY <1>1, <1>3, <1>4, <1>5 DEF TypeInv, market

\* What each query adds to the bundle.
LEMMA Added ==
  ASSUME NEW b \in Bundle, b.resolved
  PROVE  /\ \A rows \in SUBSET Sale :
              LET c == [b EXCEPT !.evidence = rows]
              IN  /\ c \in Bundle /\ IsBundle(c) /\ c.resolved
                  /\ c.band = b.band /\ c.asks = b.asks /\ c.usdDate = b.usdDate
                  /\ c.landed = b.landed /\ c.landedDate = b.landedDate /\ c.moved = b.moved
         /\ \A a \in SUBSET Ask :
              LET c == [b EXCEPT !.asks = a]
              IN  /\ c \in Bundle /\ IsBundle(c) /\ c.resolved /\ c.asks = a
                  /\ c.band = b.band /\ c.evidence = b.evidence /\ c.usdDate = b.usdDate
                  /\ c.landed = b.landed /\ c.landedDate = b.landedDate /\ c.moved = b.moved
  BY DEF Bundle, IsBundle

LEMMA BandType ==
  ASSUME NEW b \in Bundle
  PROVE  Band(b.evidence) \in [of : SUBSET Sale, pass : BOOLEAN] \cup {None}
  BY DEF Band, Bundle

\* A bundle over which new rates come in.
LEMMA MovedBundle ==
  ASSUME NEW b \in Bundle, IsBundle(b)
  PROVE  LET c == [b EXCEPT !.moved = TRUE]
         IN  /\ c \in Bundle /\ IsBundle(c) /\ c.resolved = b.resolved /\ c.moved
             /\ c.band = b.band /\ c.asks = b.asks /\ c.evidence = b.evidence
             /\ c.landed = b.landed
  <1> DEFINE c == [b EXCEPT !.moved = TRUE]
  <1>1. c \in Bundle /\ c.resolved = b.resolved /\ c.moved /\ c.band = b.band
        /\ c.asks = b.asks /\ c.evidence = b.evidence /\ c.landed = b.landed
        /\ c.listing = b.listing
    BY DEF Bundle
  <1>2. [c EXCEPT !.moved = FALSE] = [b EXCEPT !.moved = FALSE]
    BY DEF Bundle
  <1>3. QED
    BY <1>1, <1>2 DEF IsBundle

-----------------------------------------------------------------------------
\* Asks and landed cost of a bundle, as far as it is.
Steady(b) ==
  /\ b.asks # {} => b.band.pass
  /\ b.landed # NoAmount => LinesAddUp(b.landed)

SameRates(b) ==
  (b.usdDate # None /\ b.landedDate # None /\ ~b.moved) => b.usdDate = b.landedDate

Whole(b) == b.band = Band(b.evidence) /\ Steady(b) /\ SameRates(b)

\* A request over which no rates came in has seen the latest ones.
LatestSeen(b) == ~b.moved => {b.usdDate, b.landedDate} \subseteq {None, fxDate}

RequestInv(q) == req[q] # Idle =>
  /\ Steady(req[q].b) /\ LatestSeen(req[q].b)
  /\ req[q].at \in {"resolved", "evidence"} => req[q].b.asks = {}
  /\ req[q].at \in {"priced", "asked", "evaluated"} => req[q].b.band = Band(req[q].b.evidence)

BundleInv ==
  /\ \A h \in DOMAIN evaluations : evaluations[h] # None => Whole(evaluations[h])
  /\ \A q \in Request : RequestInv(q)

LEMMA LatestSeenIsSame ==
  ASSUME NEW b, LatestSeen(b)
  PROVE  SameRates(b)
  BY DEF LatestSeen, SameRates

LEMMA BundleStep ==
  ASSUME BundleInv, NEW q \in Request, UNCHANGED <<market, evaluations>>,
         \A p \in Request \ {q} : req'[p] = req[p], RequestInv(q)'
  PROVE  BundleInv'
  <1>1. ASSUME NEW p \in Request \ {q} PROVE RequestInv(p)'
    BY <1>1 DEF BundleInv, RequestInv, LatestSeen, Steady, market
  <1>2. QED
    BY <1>1 DEF BundleInv, Whole, Steady, SameRates

LEMMA InitInv == Init => TypeInv /\ BundleInv
  <1> SUFFICES ASSUME Init PROVE TypeInv /\ BundleInv
    OBVIOUS
  <1>1. FirstDate \in DOMAIN FX
    BY EvaluationsAssumption
  <1>2. req \in [Request -> RequestState] /\ \A q \in Request : req[q] = Idle
    BY DEF Init, RequestState
  <1>3. TypeOK
    BY <1>1, <1>2 DEF Init, TypeOK
  <1>4. TypeInv
    BY <1>2, <1>3 DEF TypeInv, UnderWay, Idle
  <1>5. BundleInv
    BY <1>2 DEF Init, BundleInv, RequestInv
  <1>6. QED
    BY <1>4, <1>5

\* The dates a read of the rates can find.
LEMMA LatestRatesType ==
  ASSUME TypeInv, NEW d \in LatestRates
  PROVE  d \in Date /\ d \in {None, fxDate} /\ (d # None => d \in DOMAIN FX)
  BY DEF TypeInv, TypeOK, LatestRates, Date

LEMMA toUSDType ==
  ASSUME NEW l \in Listing, NEW d \in Date
  PROVE  toUSD(l, d) \in Amount
  <1>1. CASE d = None
    BY <1>1 DEF toUSD, Amount
  <1>2. CASE d # None
    <2>1. d \in DOMAIN FX
      BY <1>2 DEF Date
    <2>2. l.price \in Nat /\ \A c \in DOMAIN FX[d] : FX[d][c] \in Nat
      BY <2>1, EvaluationsAssumption
    <2>3. Convert(FX[d], l.currency, "USD", l.price) \in Nat \cup {NoAmount}
      BY <2>2, ConvertType
    <2>4. QED
      BY <1>2, <2>3 DEF toUSD, ConvertToUSD, Amount
  <1>3. QED
    BY <1>1, <1>2

LEMMA LookupStep ==
  ASSUME TypeInv, BundleInv, NEW q \in Request, NEW l \in Listing, Lookup(q, l)
  PROVE  TypeInv' /\ BundleInv'
  <1>1. CASE l.ref \in catalogue
    <2> DEFINE c == [NeedsReview(l) EXCEPT !.resolved = TRUE]
    <2>1. Step(q, "idle", "resolved", c)
      BY <1>1 DEF Lookup
    <2>2. /\ c \in Bundle /\ IsBundle(c) /\ c.resolved /\ c.asks = {} /\ ~c.moved
          /\ c.landed = NoAmount /\ c.usdDate = None /\ c.landedDate = None
      BY NeedsReviewType
    <2> HIDE DEF c
    <2>3. /\ TypeInv' /\ UNCHANGED <<market, evaluations, landing>>
          /\ req'[q] = [at |-> "resolved", b |-> c] /\ req'[q] # Idle
          /\ \A p \in Request \ {q} : req'[p] = req[p]
      BY <2>1, <2>2, StepType DEF UnderWay
    <2>4. RequestInv(q)'
      BY <2>2, <2>3 DEF RequestInv, Steady, LatestSeen
    <2>5. QED
      BY <2>3, <2>4, BundleStep
  <1>2. CASE l.ref \notin catalogue
    <2> DEFINE c == NeedsReview(l)
    <2>1. Step(q, "idle", "evaluated", c)
      BY <1>2 DEF Lookup
    <2>2. c \in Bundle /\ IsBundle(c) /\ c.asks = {} /\ c.landed = NoAmount
          /\ c.usdDate = None /\ c.landedDate = None /\ c.band = Band(c.evidence)
      BY NeedsReviewType DEF NeedsReview, Band
    <2> HIDE DEF c
    <2>3. /\ TypeInv' /\ UNCHANGED <<market, evaluations, landing>>
          /\ req'[q] = [at |-> "evaluated", b |-> c] /\ req'[q] # Idle
          /\ \A p \in Request \ {q} : req'[p] = req[p]
      BY <2>1, <2>2, StepType DEF UnderWay
    <2>4. RequestInv(q)'
      BY <2>2, <2>3 DEF RequestInv, Steady, LatestSeen
    <2>5. QED
      BY <2>3, <2>4, BundleStep
  <1>3. QED
    BY <1>1, <1>2

\* What is known of the bundle of a request under way.
LEMMA UnderWayBundle ==
  ASSUME TypeInv, BundleInv, NEW q \in Request, req[q].at \in UnderWay
  PROVE  /\ req[q] # Idle /\ req[q].b \in Bundle /\ req[q].b.resolved
         /\ IsBundle(req[q].b) /\ RequestInv(q)
  BY IdleOrNot DEF TypeInv, BundleInv, UnderWay

LEMMA ReadEvidenceStep ==
  ASSUME TypeInv, BundleInv, NEW q \in Request, ReadEvidence(q)
  PROVE  TypeInv' /\ BundleInv'
  <1> DEFINE b == req[q].b
  <1>1. PICK rows \in SUBSET Sale :
          Step(q, "resolved", "evidence", [b EXCEPT !.evidence = rows])
    BY DEF ReadEvidence
  <1>2. req[q].at = "resolved"
    BY DEF ReadEvidence
  <1>3. b \in Bundle /\ b.resolved /\ RequestInv(q) /\ req[q] # Idle
    BY <1>2, UnderWayBundle DEF UnderWay
  <1>4. Steady(b) /\ LatestSeen(b) /\ b.asks = {}
    BY <1>2, <1>3 DEF RequestInv
  <1>5. PICK c : c = [b EXCEPT !.evidence = rows]
    OBVIOUS
  <1>6. /\ c \in Bundle /\ IsBundle(c) /\ c.resolved
        /\ c.band = b.band /\ c.asks = b.asks /\ c.usdDate = b.usdDate
        /\ c.landed = b.landed /\ c.landedDate = b.landedDate /\ c.moved = b.moved
    BY <1>3, <1>5, Added
  <1>7. Steady(c) /\ c.asks = {} /\ (~c.moved => {c.usdDate, c.landedDate} \subseteq {None, fxDate})
    BY <1>4, <1>6 DEF Steady, LatestSeen
  <1>8. /\ TypeInv' /\ UNCHANGED <<market, evaluations, landing>>
        /\ req'[q] = [at |-> "evidence", b |-> c] /\ req'[q] # Idle
        /\ \A p \in Request \ {q} : req'[p] = req[p]
    <2>1. Step(q, "resolved", "evidence", c)
      BY <1>1, <1>5
    <2>2. QED
      BY <1>6, <2>1, StepType DEF UnderWay
  <1>9. RequestInv(q)'
    BY <1>7, <1>8 DEF RequestInv, Steady, LatestSeen, market
  <1>10. QED
    BY <1>8, <1>9, BundleStep

LEMMA PriceStep ==
  ASSUME TypeInv, BundleInv, NEW q \in Request, PriceAgainstBand(q)
  PROVE  TypeInv' /\ BundleInv'
  <1> DEFINE b == req[q].b
  <1>1. PICK d \in LatestRates :
          Step(q, "evidence", "priced",
               [b EXCEPT !.usd = toUSD(b.listing, d), !.usdDate = d,
                         !.band = Band(b.evidence)])
    BY DEF PriceAgainstBand
  <1>2. req[q].at = "evidence"
    BY DEF PriceAgainstBand
  <1>3. b \in Bundle /\ b.resolved /\ RequestInv(q) /\ req[q] # Idle
    BY <1>2, UnderWayBundle DEF UnderWay
  <1>4. Steady(b) /\ LatestSeen(b) /\ b.asks = {}
    BY <1>2, <1>3 DEF RequestInv
  <1>5. d \in Date /\ d \in {None, fxDate} /\ b.listing \in Listing
    BY <1>3, LatestRatesType DEF Bundle
  <1>6. toUSD(b.listing, d) \in Amount
    BY <1>5, toUSDType
  <1>7. PICK c : c = [b EXCEPT !.usd = toUSD(b.listing, d), !.usdDate = d,
                               !.band = Band(b.evidence)]
    OBVIOUS
  <1>8. /\ c \in Bundle /\ IsBundle(c) /\ c.resolved
        /\ c.band = Band(c.evidence) /\ c.usdDate = d /\ c.asks = b.asks
        /\ c.landed = b.landed /\ c.landedDate = b.landedDate /\ c.moved = b.moved
    <2>1. Band(b.evidence) \in [of : SUBSET Sale, pass : BOOLEAN] \cup {None}
      BY <1>3, BandType
    <2> HIDE DEF b
    <2>2. QED
      BY <1>3, <1>5, <1>6, <1>7, <2>1 DEF Bundle, IsBundle
  <1>9. Steady(c) /\ (~c.moved => {c.usdDate, c.landedDate} \subseteq {None, fxDate})
    BY <1>4, <1>5, <1>8 DEF Steady, LatestSeen
  <1>10. /\ TypeInv' /\ UNCHANGED <<market, evaluations, landing>>
         /\ req'[q] = [at |-> "priced", b |-> c] /\ req'[q] # Idle
         /\ \A p \in Request \ {q} : req'[p] = req[p]
    <2>1. Step(q, "evidence", "priced", c)
      BY <1>1, <1>7
    <2>2. QED
      BY <1>8, <2>1, StepType DEF UnderWay
  <1>11. RequestInv(q)'
    BY <1>8, <1>9, <1>10 DEF RequestInv, Steady, LatestSeen, market
  <1>12. QED
    BY <1>10, <1>11, BundleStep

LEMMA ReadAsksStep ==
  ASSUME TypeInv, BundleInv, NEW q \in Request, ReadAsks(q)
  PROVE  TypeInv' /\ BundleInv'
  <1> DEFINE b == req[q].b
  <1>1. PICK a \in SUBSET Ask :
          /\ a # {} => b.band # None /\ b.band.pass
          /\ Step(q, "priced", "asked", [b EXCEPT !.asks = a])
    BY DEF ReadAsks
  <1>2. req[q].at = "priced"
    BY DEF ReadAsks
  <1>3. b \in Bundle /\ b.resolved /\ RequestInv(q) /\ req[q] # Idle
    BY <1>2, UnderWayBundle DEF UnderWay
  <1>4. Steady(b) /\ LatestSeen(b) /\ b.band = Band(b.evidence)
    BY <1>2, <1>3 DEF RequestInv
  <1>5. PICK c : c = [b EXCEPT !.asks = a]
    OBVIOUS
  <1>6. /\ c \in Bundle /\ IsBundle(c) /\ c.resolved /\ c.asks = a
        /\ c.band = b.band /\ c.evidence = b.evidence /\ c.usdDate = b.usdDate
        /\ c.landed = b.landed /\ c.landedDate = b.landedDate /\ c.moved = b.moved
    BY <1>3, <1>5, Added
  <1>7. /\ Steady(c) /\ c.band = Band(c.evidence)
        /\ ~c.moved => {c.usdDate, c.landedDate} \subseteq {None, fxDate}
    BY <1>1, <1>4, <1>6 DEF Steady, LatestSeen
  <1>8. /\ TypeInv' /\ UNCHANGED <<market, evaluations, landing>>
        /\ req'[q] = [at |-> "asked", b |-> c] /\ req'[q] # Idle
        /\ \A p \in Request \ {q} : req'[p] = req[p]
    <2>1. Step(q, "priced", "asked", c)
      BY <1>1, <1>5
    <2>2. QED
      BY <1>6, <2>1, StepType DEF UnderWay
  <1>9. RequestInv(q)'
    BY <1>7, <1>8 DEF RequestInv, Steady, LatestSeen, market
  <1>10. QED
    BY <1>8, <1>9, BundleStep

\* A bundle that is evaluated as it is, or with a landed cost.
LEMMA EvaluatedStep ==
  ASSUME TypeInv, BundleInv, NEW q \in Request, req[q].at = "asked",
         NEW c \in Bundle, IsBundle(c), Step(q, "asked", "evaluated", c),
         Steady(c), c.band = Band(c.evidence),
         ~c.moved => {c.usdDate, c.landedDate} \subseteq {None, fxDate}
  PROVE  TypeInv' /\ BundleInv'
  <1>1. /\ TypeInv' /\ UNCHANGED <<market, evaluations, landing>>
        /\ req'[q] = [at |-> "evaluated", b |-> c] /\ req'[q] # Idle
        /\ \A p \in Request \ {q} : req'[p] = req[p]
    BY StepType DEF UnderWay
  <1>2. RequestInv(q)'
    BY <1>1 DEF RequestInv, Steady, LatestSeen, market
  <1>3. QED
    BY <1>1, <1>2, BundleStep

LEMMA LandStep ==
  ASSUME TypeInv, BundleInv, NEW q \in Request, Land(q)
  PROVE  TypeInv' /\ BundleInv'
  <1> DEFINE b == req[q].b
             l == b.listing
  <1>1. PICK d \in LatestRates :
          LET costs == IF d = None THEN {}
                       ELSE {Compute(r, FX[d], l.price, l.currency) : r \in RulesFor(l)}
          IN  IF costs \ {NoAmount} = {} THEN Step(q, "asked", "evaluated", b)
              ELSE \E x \in costs : Step(q, "asked", "evaluated",
                     [b EXCEPT !.landed = x, !.landedDate = d])
    BY DEF Land
  <1>2. req[q].at = "asked"
    BY DEF Land
  <1>3. b \in Bundle /\ b.resolved /\ IsBundle(b) /\ RequestInv(q) /\ req[q] # Idle
    BY <1>2, UnderWayBundle DEF UnderWay
  <1>4. /\ Steady(b) /\ b.band = Band(b.evidence)
        /\ ~b.moved => {b.usdDate, b.landedDate} \subseteq {None, fxDate}
    BY <1>2, <1>3 DEF RequestInv, LatestSeen
  <1>5. CASE Step(q, "asked", "evaluated", b)
    BY <1>2, <1>3, <1>4, <1>5, EvaluatedStep
  <1>6. ASSUME NEW r \in RulesFor(l), d # None,
               Step(q, "asked", "evaluated",
                    [b EXCEPT !.landed = Compute(r, FX[d], l.price, l.currency),
                              !.landedDate = d])
        PROVE  TypeInv' /\ BundleInv'
    <2>1. PICK x : x = Compute(r, FX[d], l.price, l.currency)
      OBVIOUS
    <2>2. d \in DOMAIN FX /\ d \in Date /\ d \in {None, fxDate}
      BY <1>6, LatestRatesType
    <2>3. /\ l.price \in Nat /\ \A c \in DOMAIN FX[d] : FX[d][c] \in Nat
          /\ {r.duty, r.vat, r.insurance} \subseteq Nat
      BY <1>3, <2>2, EvaluationsAssumption DEF Bundle, RulesFor
    <2>4. x # NoAmount => x \in Landed /\ LinesAddUp(x)
      BY <2>1, <2>3, ComputeType
    <2>5. PICK c : c = [b EXCEPT !.landed = x, !.landedDate = d]
      OBVIOUS
    <2>6. /\ c \in Bundle /\ IsBundle(c) /\ c.landed = x /\ c.landedDate = d
          /\ c.asks = b.asks /\ c.band = b.band
          /\ c.evidence = b.evidence /\ c.usdDate = b.usdDate /\ c.moved = b.moved
      <3> HIDE DEF b
      <3> QED
        BY <1>3, <2>2, <2>4, <2>5 DEF Bundle, IsBundle
    <2>7. Steady(c) /\ c.band = Band(c.evidence)
          /\ (~c.moved => {c.usdDate, c.landedDate} \subseteq {None, fxDate})
      BY <1>4, <2>2, <2>4, <2>6 DEF Steady
    <2>8. Step(q, "asked", "evaluated", c)
      BY <1>6, <2>1, <2>5
    <2>9. QED
      BY <1>2, <2>6, <2>7, <2>8, EvaluatedStep
  <1>7. QED
    BY <1>1, <1>5, <1>6

\* A request ends.
LEMMA EndsType ==
  ASSUME TypeInv, NEW q \in Request, req' = [req EXCEPT ![q] = Idle]
  PROVE  /\ req' \in [Request -> RequestState] /\ req'[q] = Idle
         /\ \A p \in Request \ {q} : req'[p] = req[p]
  BY DEF TypeInv, TypeOK, RequestState

LEMMA SaveStep ==
  ASSUME TypeInv, BundleInv, NEW q \in Request, SaveEvaluation(q)
  PROVE  /\ TypeInv' /\ BundleInv'
         /\ \A h \in DOMAIN evaluations : evaluations[h] # None =>
              evaluations'[h] = evaluations[h]
         /\ evaluations'[hashInputs(req[q].b.listing)] # None
         /\ landing' = landing \cup {<<req[q].b.listing, hashInputs(req[q].b.listing)>>}
         /\ \A h \in DOMAIN evaluations' : evaluations'[h] # evaluations[h] =>
              h = hashInputs(req[q].b.listing) /\ evaluations'[h] = req[q].b
  <1> DEFINE b == req[q].b
             h == hashInputs(b.listing)
  <1>1. /\ req[q].at = "evaluated"
        /\ evaluations' = [evaluations EXCEPT ![h] = IF evaluations[h] = None THEN b
                                                     ELSE evaluations[h]]
        /\ landing' = landing \cup {<<b.listing, h>>}
        /\ req' = [req EXCEPT ![q] = Idle] /\ UNCHANGED <<catalogue, fxDate>>
    BY DEF SaveEvaluation, market
  <1>2. req[q] # Idle /\ b \in Bundle /\ IsBundle(b)
    BY <1>1, IdleOrNot DEF TypeInv
  <1>3. b.listing \in Listing /\ h \in DOMAIN evaluations
    BY <1>2 DEF Bundle, TypeInv, TypeOK
  <1>4. Whole(b)
    BY <1>1, <1>2, LatestSeenIsSame DEF BundleInv, RequestInv, Whole
  <1> HIDE DEF b, h
  <1>5. /\ DOMAIN evaluations' = DOMAIN evaluations
        /\ evaluations'[h] = IF evaluations[h] = None THEN b ELSE evaluations[h]
        /\ \A k \in DOMAIN evaluations \ {h} : evaluations'[k] = evaluations[k]
    BY <1>1, <1>3
  <1>6. /\ req' \in [Request -> RequestState] /\ req'[q] = Idle
        /\ \A p \in Request \ {q} : req'[p] = req[p]
    BY <1>1, EndsType
  <1>7. TypeInv'
    <2>1. \A k \in DOMAIN evaluations' : evaluations'[k] = None \/ IsBundle(evaluations'[k])
      BY <1>2, <1>5 DEF TypeInv, TypeOK
    <2>2. TypeOK'
      BY <1>1, <1>3, <1>5, <1>6, <2>1 DEF TypeInv, TypeOK
    <2>3. QED
      BY <1>6, <2>2 DEF TypeInv, UnderWay, Idle
  <1>8. BundleInv'
    <2>1. \A k \in DOMAIN evaluations' : evaluations'[k] # None => Whole(evaluations'[k])
      BY <1>4, <1>5 DEF BundleInv
    <2>2. \A p \in Request : RequestInv(p)'
      BY <1>1, <1>6 DEF BundleInv, RequestInv, LatestSeen, Steady
    <2>3. QED
      BY <2>1, <2>2 DEF BundleInv, Whole, Steady, SameRates
  <1>9. b # None
    BY <1>2, NoneIsNoBundle
  <1>10. QED
    BY <1>1, <1>3, <1>5, <1>7, <1>8, <1>9 DEF b, h

LEMMA OtherSteps ==
  ASSUME TypeInv, BundleInv,
         \/ \E r \in Ref : Learn(r)
         \/ \E d \in DOMAIN FX : NewRates(d)
         \/ \E q \in Request : Fail(q)
         \/ UNCHANGED vars
  PROVE  TypeInv' /\ BundleInv' /\ UNCHANGED <<evaluations, landing>>
  <1>1. ASSUME UNCHANGED <<fxDate, evaluations, req, landing>>, catalogue' \subseteq Ref
        PROVE  TypeInv' /\ BundleInv'
    BY <1>1 DEF TypeInv, TypeOK, BundleInv, RequestInv, LatestSeen, Whole, Steady, SameRates
  <1>2. ASSUME NEW r \in Ref, Learn(r) PROVE TypeInv' /\ BundleInv'
    BY <1>1, <1>2 DEF Learn, TypeInv, TypeOK
  <1>3. ASSUME NEW q \in Request, Fail(q) PROVE TypeInv' /\ BundleInv'
    <2>1. req' = [req EXCEPT ![q] = Idle] /\ UNCHANGED <<catalogue, fxDate, evaluations, landing>>
      BY <1>3 DEF Fail, market
    <2>2. /\ req' \in [Request -> RequestState] /\ req'[q] = Idle
          /\ \A p \in Request \ {q} : req'[p] = req[p]
      BY <2>1, EndsType
    <2>3. TypeOK'
      BY <2>1, <2>2 DEF TypeInv, TypeOK
    <2>4. TypeInv'
      BY <2>2, <2>3 DEF TypeInv, UnderWay, Idle
    <2>5. \A p \in Request : RequestInv(p)'
      BY <2>1, <2>2 DEF BundleInv, RequestInv, LatestSeen, Steady
    <2>6. QED
      BY <2>1, <2>4, <2>5 DEF BundleInv, Whole, Steady, SameRates
  <1>4. ASSUME NEW d \in DOMAIN FX, NewRates(d) PROVE TypeInv' /\ BundleInv'
    <2>1. /\ fxDate' = d /\ UNCHANGED <<catalogue, evaluations, landing>>
          /\ req' = [q \in Request |-> IF req[q] = Idle THEN Idle
                                       ELSE [req[q] EXCEPT !.b.moved = TRUE]]
      BY <1>4 DEF NewRates
    <2>2. ASSUME NEW q \in Request, req[q] # Idle
          PROVE  /\ req'[q].at = req[q].at /\ req'[q] # Idle
                 /\ req'[q] \in RequestState /\ IsBundle(req'[q].b)
                 /\ req'[q].b.moved /\ req'[q].b.resolved = req[q].b.resolved
                 /\ Steady(req[q].b) => Steady(req'[q].b)
                 /\ req'[q].b.asks = req[q].b.asks /\ req'[q].b.band = req[q].b.band
                 /\ req'[q].b.evidence = req[q].b.evidence
      <3>1. PICK a, b : req[q] = [at |-> a, b |-> b] /\ b \in Bundle /\ IsBundle(b)
                        /\ a \in UnderWay \cup {"evaluated"}
        BY <2>2, IdleOrNot DEF TypeInv
      <3>2. PICK c : c = [b EXCEPT !.moved = TRUE]
        OBVIOUS
      <3>3. req'[q] = [at |-> a, b |-> c]
        <4>1. req'[q] = [req[q] EXCEPT !.b.moved = TRUE]
          BY <2>1, <2>2
        <4>2. req'[q] = [req[q] EXCEPT !.b = [req[q].b EXCEPT !.moved = TRUE]]
          BY <4>1
        <4>3. req[q].b = b
          BY <3>1
        <4>4. req'[q] = [[at |-> a, b |-> b] EXCEPT !.b = c]
          BY <3>1, <3>2, <4>2, <4>3
        <4>5. QED
          BY <4>4
      <3>4. /\ c \in Bundle /\ IsBundle(c) /\ c.resolved = b.resolved /\ c.moved
            /\ c.band = b.band /\ c.asks = b.asks /\ c.evidence = b.evidence
            /\ c.landed = b.landed
        BY <3>1, <3>2, MovedBundle
      <3>5. QED
        BY <3>1, <3>3, <3>4 DEF RequestState, UnderWay, Idle, Steady
    <2>3. ASSUME NEW q \in Request, req[q] = Idle PROVE req'[q] = Idle
      BY <2>1, <2>3
    <2>4. req' \in [Request -> RequestState]
      BY <2>1, <2>2, <2>3 DEF RequestState
    <2>5. TypeOK'
      BY <1>4, <2>1, <2>2, <2>3, <2>4 DEF TypeInv, TypeOK
    <2>6. TypeInv'
      BY <2>2, <2>3, <2>5 DEF TypeInv, UnderWay, Idle
    <2>7. \A q \in Request : RequestInv(q)'
      BY <2>2, <2>3 DEF BundleInv, RequestInv, LatestSeen
    <2>8. QED
      BY <2>1, <2>6, <2>7 DEF BundleInv, Whole, Steady, SameRates
  <1>5. CASE UNCHANGED vars
    BY <1>1, <1>5 DEF vars, market, TypeInv, TypeOK
  <1>6. QED
    BY <1>2, <1>3, <1>4, <1>5 DEF Learn, NewRates, Fail, vars, market

LEMMA NextInv == TypeInv /\ BundleInv /\ [Next]_vars => TypeInv' /\ BundleInv'
  BY LookupStep, ReadEvidenceStep, PriceStep, ReadAsksStep, LandStep, SaveStep,
     OtherSteps DEF Next

(* A listing that the catalogue does not know is stored without a number,  *)
(* and every other with what its own queries found.                        *)
THEOREM TypeCorrect == Spec => []TypeOK
  <1>1. TypeInv => TypeOK
    BY DEF TypeInv
  <1>2. QED
    BY <1>1, InitInv, NextInv, PTL DEF Spec

(* Every stored bundle is of one piece, whatever amounts, rates and rules  *)
(* it was computed with and whatever changed between its queries.          *)
THEOREM BundlesAreOfOnePiece == Spec => []BundleIsConsistent
  <1>1. BundleInv => BundleIsConsistent
    BY DEF BundleInv, BundleIsConsistent, Whole, Steady, SameRates
  <1>2. QED
    BY <1>1, InitInv, NextInv, PTL DEF Spec

-----------------------------------------------------------------------------
\* What is stored under a hash is about the listing of that hash, and what
\* was redirected to is stored.
LandingInv ==
  /\ \A h \in DOMAIN evaluations : evaluations[h] # None =>
       hashInputs(evaluations[h].listing) = h
  /\ \A x \in landing : x[2] = hashInputs(x[1]) /\ evaluations[x[2]] # None

LEMMA LandingStep ==
  ASSUME TypeInv, BundleInv, LandingInv, [Next]_vars
  PROVE  /\ LandingInv'
         /\ \A x \in landing' :
              /\ evaluations'[x[2]].listing = x[1]
              /\ x \in landing => evaluations'[x[2]] = evaluations[x[2]]
  <1>1. CASE UNCHANGED <<evaluations, landing>>
    <2>1. \A x \in landing : x[2] \in DOMAIN evaluations
      BY DEF TypeInv, TypeOK
    <2>2. QED
      BY <1>1, <2>1 DEF LandingInv, hashInputs
  <1>2. ASSUME NEW q \in Request, SaveEvaluation(q)
        PROVE  /\ LandingInv'
               /\ \A x \in landing' :
                    /\ evaluations'[x[2]].listing = x[1]
                    /\ x \in landing => evaluations'[x[2]] = evaluations[x[2]]
    <2> DEFINE b == req[q].b
               l == b.listing
    <2>1. /\ TypeInv'
          /\ \A h \in DOMAIN evaluations : evaluations[h] # None =>
               evaluations'[h] = evaluations[h]
          /\ evaluations'[hashInputs(l)] # None
          /\ landing' = landing \cup {<<l, hashInputs(l)>>}
          /\ \A h \in DOMAIN evaluations' : evaluations'[h] # evaluations[h] =>
               h = hashInputs(l) /\ evaluations'[h] = b
      BY <1>2, SaveStep
    <2>2. DOMAIN evaluations' = DOMAIN evaluations
          /\ (\A x \in landing : x[2] \in DOMAIN evaluations)
          /\ (\A x \in landing' : x[2] \in DOMAIN evaluations')
      BY <2>1 DEF TypeInv, TypeOK
    <2>3. \A h \in DOMAIN evaluations' : evaluations'[h] # None =>
            hashInputs(evaluations'[h].listing) = h
      BY <2>1, <2>2 DEF LandingInv
    <2> HIDE DEF b, l
    <2>4. ASSUME NEW x \in landing'
          PROVE  /\ x[2] = hashInputs(x[1]) /\ evaluations'[x[2]] # None
                 /\ x \in landing => evaluations'[x[2]] = evaluations[x[2]]
      BY <2>1, <2>2 DEF LandingInv
    <2>5. QED
      BY <2>2, <2>3, <2>4 DEF LandingInv, hashInputs
  <1>3. QED
    <2>1. ASSUME NEW q \in Request, NEW l \in Listing, Lookup(q, l)
          PROVE  UNCHANGED <<evaluations, landing>>
      BY <2>1 DEF Lookup, Step
    <2>2. ASSUME NEW q \in Request,
                 ReadEvidence(q) \/ PriceAgainstBand(q) \/ ReadAsks(q) \/ Land(q)
          PROVE  UNCHANGED <<evaluations, landing>>
      BY <2>2 DEF ReadEvidence, PriceAgainstBand, ReadAsks, Land, Step
    <2>3. QED
      BY <1>1, <1>2, <2>1, <2>2, OtherSteps DEF Next

(* However many requests submit a listing at once and again, the permalink *)
(* of each leads to the bundle that was stored first, for good.            *)
THEOREM PermalinksAreForGood == Spec => PermalinkIsForGood
  <1>1. Init => LandingInv
    BY DEF Init, LandingInv
  <1>2. TypeInv /\ BundleInv /\ LandingInv /\ [Next]_vars => LandingInv'
    BY LandingStep
  <1>3. TypeInv /\ BundleInv /\ LandingInv /\ [Next]_vars =>
          [\A x \in landing' :
             /\ evaluations'[x[2]].listing = x[1]
             /\ x \in landing => evaluations'[x[2]] = evaluations[x[2]]]_vars
    BY LandingStep
  <1>4. QED
    BY <1>1, <1>2, <1>3, InitInv, NextInv, PTL DEF Spec, PermalinkIsForGood
=============================================================================
