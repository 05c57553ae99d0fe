---------------------------- MODULE Evaluations -----------------------------
(***************************************************************************)
(* The evaluator (internal/evaluate and handleEvaluateSubmit): a listing   *)
(* is resolved, set against the realised prices and the asks of its        *)
(* reference, costed to the buyer's country and stored under the hash of   *)
(* the inputs, where its permalink finds it.                               *)
(*                                                                         *)
(* Every read is a query of its own without a transaction, while the       *)
(* catalogue grows, rates are published and prices are ledgered and purged;*)
(* of the ledger nothing is assumed: a read finds any of the rows.         *)
(*                                                                         *)
(* A band stands for the verdict on a set of evidence (Engine has its      *)
(* numbers): it is of that evidence and passes the gates or not.           *)
(***************************************************************************)
EXTENDS LandedCost, FiniteSets

CONSTANTS
  Listing,    \* forms: [ref, price, currency, to], "" for no country
  Ref,        \* references that can be in the catalogue
  Sale,       \* realised prices of the reference
  Ask,        \* asks for it
  FX,         \* FX[date]: the table of rates of that date
  FirstDate,  \* the date that a migration seeds
  Rules,      \* corridor rules: [from, to, duty, vat, insurance]
  MinSales,   \* sales a band needs to pass
  Request,
  None

ASSUME EvaluationsAssumption ==
  /\ None # NoAmount
  /\ MinSales \in Nat \ {0} /\ DOMAIN FX \subseteq Nat
  /\ FirstDate \in DOMAIN FX
  /\ \A d \in DOMAIN FX : \A c \in DOMAIN FX[d] : FX[d][c] \in Nat
  /\ \A l \in Listing : l.price \in Nat
  /\ \A r \in Rules : {r.duty, r.vat, r.insurance} \subseteq Nat

\* The field moved of a bundle is no part of the program: new rates came in
\* while it was computed.
VARIABLES
  catalogue,    \* references known
  fxDate,       \* date of the latest rates
  evaluations,  \* table evaluations, by listing hash
  req,          \* what each request has done so far
  landing       \* <<listing, hash>>: where a submission was redirected

market == <<catalogue, fxDate>>
vars   == <<market, evaluations, req, landing>>

Idle == [at |-> "idle"]

\* hashInputs: every field of the form; neither the time nor what was found.
hashInputs(l) == l

Band(evidence) ==
  IF evidence = {} THEN None
  ELSE [of |-> evidence, pass |-> Cardinality(evidence) >= MinSales]

\* countryOf: the corridor's origin is guessed from the currency.
countryOf(ccy) ==
  CASE ccy = "JPY" -> "JP" [] ccy = "USD" -> "US" [] ccy = "GBP" -> "GB"
    [] ccy = "CHF" -> "CH" [] ccy = "HKD" -> "HK" [] OTHER -> ""

\* LoadRule: there is one rule for a corridor.
RulesFor(l) == {r \in Rules : r.from = countryOf(l.currency) /\ r.to = l.to}

NeedsReview(l) ==
  [listing |-> l, resolved |-> FALSE, evidence |-> {}, band |-> None,
   asks |-> {}, usd |-> NoAmount, usdDate |-> None, landed |-> NoAmount,
   landedDate |-> None, moved |-> FALSE]

-----------------------------------------------------------------------------
Init ==
  /\ catalogue = {} /\ fxDate = FirstDate
  /\ evaluations = [h \in {hashInputs(l) : l \in Listing} |-> None]
  /\ req = [q \in Request |-> Idle]
  /\ landing = {}

Learn(r) ==
  /\ r \notin catalogue
  /\ catalogue' = catalogue \cup {r}
  /\ UNCHANGED <<fxDate, evaluations, req, landing>>

\* Rates of a later date; the requests under way will see two tables.
NewRates(d) ==
  /\ fxDate < d
  /\ fxDate' = d
  /\ req' = [q \in Request |-> IF req[q] = Idle THEN Idle
                               ELSE [req[q] EXCEPT !.b.moved = TRUE]]
  /\ UNCHANGED <<catalogue, evaluations, landing>>

Step(q, from, to, bundle) ==
  /\ req[q].at = from
  /\ req' = [req EXCEPT ![q] = [at |-> to, b |-> bundle]]
  /\ UNCHANGED <<market, evaluations, landing>>

\* Slip: a reference that is not known is taken as it was typed.
LookupOrTake(q, l) ==
  /\ req[q] = Idle
  /\ Step(q, "idle", "resolved",
          [NeedsReview(l) EXCEPT !.resolved = l.ref \in catalogue])

\* Evaluate 1: a reference that is not known goes to review at once.
Lookup(q, l) ==
  IF l.ref \in catalogue
  THEN Step(q, "idle", "resolved", [NeedsReview(l) EXCEPT !.resolved = TRUE])
  ELSE Step(q, "idle", "evaluated", NeedsReview(l))

\* Evaluate 2: realisedFor.
ReadEvidence(q) ==
  /\ req[q].at = "resolved"
  /\ \E rows \in SUBSET Sale :
       Step(q, "resolved", "evidence", [req[q].b EXCEPT !.evidence = rows])

\* The rates that LoadFX finds, with their date; the read may fail.
LatestRates == {None} \cup {fxDate}

toUSD(l, d) ==
  IF d = None THEN NoAmount ELSE ConvertToUSD(FX[d], l.currency, l.price)

\* Slip: the band is the one on the ledger as it is now.
PriceAgainstLedger(q) ==
  /\ req[q].at = "evidence"
  /\ \E d \in LatestRates, rows \in SUBSET Sale :
    Step(q, "evidence", "priced",
         [req[q].b EXCEPT !.usd = toUSD(req[q].b.listing, d), !.usdDate = d,
                          !.band = Band(rows)])

\* Evaluate 3: toUSD, then the verdict on the evidence that was read.  The
\* position is the dollars against the band.
PriceAgainstBand(q) ==
  /\ req[q].at = "evidence"
  /\ \E d \in LatestRates :
    Step(q, "evidence", "priced",
         [req[q].b EXCEPT !.usd = toUSD(req[q].b.listing, d), !.usdDate = d,
                          !.band = Band(req[q].b.evidence)])

\* Evaluate 4: asksFor, only beside a band that passes; an error is no asks.
ReadAsks(q) ==
  /\ req[q].at = "priced"
  /\ \E a \in SUBSET Ask :
       /\ a # {} => req[q].b.band # None /\ req[q].b.band.pass
       /\ Step(q, "priced", "asked", [req[q].b EXCEPT !.asks = a])

\* Evaluate 6: LoadRule, LoadFX once more, and Compute.
Land(q) ==
  /\ req[q].at = "asked"
  /\ \E d \in LatestRates :
    LET l     == req[q].b.listing
        costs == IF d = None THEN {}
                 ELSE {Compute(r, FX[d], l.price, l.currency) : r \in RulesFor(l)}
    IN  IF costs \ {NoAmount} = {} THEN Step(q, "asked", "evaluated", req[q].b)
        ELSE \E c \in costs : Step(q, "asked", "evaluated",
               [req[q].b EXCEPT !.landed = c, !.landedDate = d])

\* Slip: the bundle is overwritten, as verdict contents are.
SaveLastEvaluation(q) ==
  /\ req[q].at = "evaluated"
  /\ LET l == req[q].b.listing
     IN  /\ evaluations' = [evaluations EXCEPT ![hashInputs(l)] = req[q].b]
         /\ landing' = landing \cup {<<l, hashInputs(l)>>}
  /\ req' = [req EXCEPT ![q] = Idle]
  /\ UNCHANGED market

\* SaveEvaluation, ON CONFLICT DO NOTHING, and the redirect to the row.
SaveEvaluation(q) ==
  /\ req[q].at = "evaluated"
  /\ LET l == req[q].b.listing
         h == hashInputs(l)
     IN  /\ evaluations' = [evaluations EXCEPT ![h] =
                              IF @ = None THEN req[q].b ELSE @]
         /\ landing' = landing \cup {<<l, h>>}
  /\ req' = [req EXCEPT ![q] = Idle]
  /\ UNCHANGED market

\* An error of the catalogue, the ledger or the save is an error page.
Fail(q) ==
  /\ req[q].at \in {"resolved", "evaluated"}
  /\ req' = [req EXCEPT ![q] = Idle]
  /\ UNCHANGED <<market, evaluations, landing>>

Next ==
  \/ \E r \in Ref : Learn(r)
  \/ \E d \in DOMAIN FX : NewRates(d)
  \/ \E q \in Request, l \in Listing : Lookup(q, l)
  \/ \E q \in Request : ReadEvidence(q)
  \/ \E q \in Request : PriceAgainstBand(q)
  \/ \E q \in Request : ReadAsks(q)
  \/ \E q \in Request : Land(q)
  \/ \E q \in Request : SaveEvaluation(q)
  \/ \E q \in Request : Fail(q)

Spec == Init /\ [][Next]_vars

-----------------------------------------------------------------------------
Amount == Nat \cup {NoAmount}
Date   == DOMAIN FX \cup {None}
Landed == [item : Nat, spread : Nat, shipping : Nat, insurance : Nat,
           duty : Nat, vat : Nat, total : Nat]

Bundle == [listing : Listing, resolved : BOOLEAN, moved : BOOLEAN,
           evidence : SUBSET Sale, asks : SUBSET Ask,
           band : [of : SUBSET Sale, pass : BOOLEAN] \cup {None},
           usd : Amount, usdDate : Date,
           landed : Landed \cup {NoAmount}, landedDate : Date]

ASSUME NoneIsNoBundle == None \notin Bundle

IsBundle(b) ==
  /\ b \in Bundle
  /\ ~b.resolved => [b EXCEPT !.moved = FALSE] = NeedsReview(b.listing)

RequestState ==
       {Idle}
  \cup [at : {"resolved", "evidence", "priced", "asked", "evaluated"}, b : Bundle]

\* The shape of the state: a listing that is not resolved has no numbers.
TypeOK ==
  /\ catalogue \subseteq Ref /\ fxDate \in DOMAIN FX
  /\ DOMAIN evaluations = {hashInputs(l) : l \in Listing}
  /\ \A h \in DOMAIN evaluations : evaluations[h] = None \/ IsBundle(evaluations[h])
  /\ req \in [Request -> RequestState]
  /\ \A q \in Request : req[q] = Idle \/ IsBundle(req[q].b)
  /\ landing \subseteq Listing \X DOMAIN evaluations

LinesAddUp(c) ==
  c.total = c.item + c.spread + c.shipping + c.insurance + c.duty + c.vat

(* A stored bundle is of one piece, whatever moved while it was computed:  *)
(* the band is the verdict on the evidence shown below it, asks stand only *)
(* beside a band that passes, the lines of the landed cost add up to its   *)
(* total to the cent, and the position and the landed cost are of the same *)
(* rates unless new ones came in between.                                  *)
BundleIsConsistent ==
  \A h \in DOMAIN evaluations : evaluations[h] # None =>
    LET b == evaluations[h]
    IN  /\ b.band = Band(b.evidence)
        /\ b.asks # {} => b.band.pass
        /\ b.landed # NoAmount => LinesAddUp(b.landed)
        /\ (b.usdDate # None /\ b.landedDate # None /\ ~b.moved)
             => b.usdDate = b.landedDate

(* A permalink is for good: it leads to an evaluation of the listing that  *)
(* was submitted, and once it does its bundle never changes, however often *)
(* the listing is submitted again and whatever has moved since.            *)
PermalinkIsForGood ==
  [][\A x \in landing' :
       /\ evaluations'[x[2]].listing = x[1]
       /\ x \in landing => evaluations'[x[2]] = evaluations[x[2]]]_vars
=============================================================================
