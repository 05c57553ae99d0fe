--------------------------- MODULE AuctionIngest ----------------------------
(***************************************************************************)
(* Auction results to the ledger (internal/ingest, cmd/ingest, the Bonhams *)
(* adapter).  A run fetches one sale after the other; it asks whether the  *)
(* source is enabled, stores the page, and takes the sold lots one by one: *)
(* find reference numbers, in the title or else on the lot's own page,     *)
(* resolve them, and append a row or queue the lot for review.  Any error  *)
(* ends the whole run; the nightly loop starts another one.                *)
(*                                                                         *)
(* Runs can overlap, with one an operator starts, and the catalogue and    *)
(* the published page change between and during runs.                      *)
(***************************************************************************)
EXTENDS Migrate, Catalogue, Sequences

CONSTANTS
  Nightly,       \* the process of the nightly loop
  Lot,
  Sales,         \* the sales a run is given, a sequence of sets of lots
  Broken,        \* places in Sales whose page may fail to be fetched
  titleKeys,     \* [Lot -> the candidates in title and description, a sequence]
  pageKeys,      \* [Lot -> the candidates on the lot's page]
  NoCurrency,    \* lots whose currency is not told
  NoRate,        \* lots in a currency without a rate
  InScope,       \* references of the families of the phase
  FirstCatalogue, FirstSold,
  Revisable,     \* lots whose published price is corrected at some time
  MaxFaults, MaxQueue   \* bounds

ASSUME AuctionAssumption ==
  /\ Nightly \in Process
  /\ Sales \in Seq(SUBSET Lot)
  /\ Broken \subseteq DOMAIN Sales
  /\ FirstCatalogue \subseteq Ref /\ FirstSold \subseteq Lot /\ InScope \subseteq Ref
  /\ \A l \in Lot : DOMAIN titleKeys[l] \subseteq Nat /\ DOMAIN pageKeys[l] \subseteq Nat
  /\ MaxFaults \in Nat /\ MaxQueue \in Nat \ {0}

VARIABLES
  catalogue,  \* table catalogue_references
  enabled,    \* sources.enabled of the source
  sold,       \* lots published as sold
  price,      \* the published price of each lot
  ledger,     \* table observations: [lot, ref, price]
  queue,      \* open rows of review_queue for each lot, at most MaxQueue
  faults,     \* statements that failed and runs that were killed so far
  sale,       \* the sale each process is at; 0 before it works
  page,       \* the sold lots of that sale with their prices, as fetched
  todo,       \* the lots of it that are still to be handled
  hand        \* the lot in hand and what it resolved to

world  == <<catalogue, enabled, sold, price>>
tables == <<schema, ledger, queue>>
run    == <<sale, page, todo, hand>>
vars   == <<world, tables, boot, faults, run>>

Nothing == [lot |-> NoRef, ref |-> NoRef]
NoPage == [l \in {} |-> 0]

-----------------------------------------------------------------------------
Init ==
  /\ MigrateInit
  /\ catalogue = FirstCatalogue /\ enabled = TRUE
  /\ sold = FirstSold /\ price = [l \in Lot |-> 1]
  /\ ledger = {} /\ queue = [l \in Lot |-> 0]
  /\ faults = 0
  /\ sale = [p \in Process |-> 0]
  /\ page = [p \in Process |-> NoPage]
  /\ todo = [p \in Process |-> {}]
  /\ hand = [p \in Process |-> Nothing]

\* The auction house sells a lot, or corrects what it says of it.
Sell(l) ==
  /\ l \notin sold
  /\ sold' = sold \cup {l}
  /\ UNCHANGED <<catalogue, enabled, price, tables, boot, faults, run>>

Revise(l) ==
  /\ l \in sold \cap Revisable /\ price[l] = 1
  /\ price' = [price EXCEPT ![l] = 2]
  /\ UNCHANGED <<catalogue, enabled, sold, tables, boot, faults, run>>

\* The operator adds a reference, or switches the source off.
Learn(r) ==
  /\ r \notin catalogue
  /\ catalogue' = catalogue \cup {r}
  /\ UNCHANGED <<enabled, sold, price, tables, boot, faults, run>>

Disable ==
  /\ enabled /\ enabled' = FALSE
  /\ UNCHANGED <<catalogue, sold, price, tables, boot, faults, run>>

\* A process starts and migrates.
Start(p) ==
  /\ Boot(p) \/ CheckMigration(p) \/ ApplyMigration(p)
  /\ UNCHANGED <<world, ledger, queue, faults, run>>

\* The run of p ends, well or not, and its memory with it.
End(p) ==
  /\ Die(p)
  /\ sale' = [sale EXCEPT ![p] = 0]
  /\ page' = [page EXCEPT ![p] = NoPage]
  /\ todo' = [todo EXCEPT ![p] = {}]
  /\ hand' = [hand EXCEPT ![p] = Nothing]

\* What the page of the i-th sale says.
Published(i) == [l \in Sales[i] \cap sold |-> price[l]]

\* The next sale: fetch its page, ask whether the source is enabled, extract
\* its lots (and store the page, which nothing reads back).  A page that cannot
\* be fetched, or a source that is off, is fatal.
FetchSale(p) ==
  LET i == sale[p] + 1
  IN  /\ stage[p] = "ready" /\ todo[p] = {} /\ i \in DOMAIN Sales
      /\ \/ (i \in Broken \/ ~enabled) /\ End(p)
         \/ /\ enabled
            /\ sale' = [sale EXCEPT ![p] = i]
            /\ page' = [page EXCEPT ![p] = Published(i)]
            /\ todo' = [todo EXCEPT ![p] = Sales[i] \cap sold]
            /\ UNCHANGED <<boot, hand>>
      /\ UNCHANGED <<world, tables, faults>>

\* Slip: the lot's own page is always asked, and wins if it answers.
CandidatesOfPage(l) ==
  IF pageKeys[l] = <<>> THEN {titleKeys[l]} ELSE {titleKeys[l], pageKeys[l]}

\* The candidates of a lot: those of its title, or else those of its own
\* page, which may not answer.
Candidates(l) ==
  IF titleKeys[l] # <<>> THEN {titleKeys[l]} ELSE {<<>>, pageKeys[l]}

\* Take a lot and resolve it.  Without a currency or candidates, or resolved but
\* out of scope or without a rate, it is only counted.
ResolveLot(p, l) ==
  /\ l \in todo[p] /\ hand[p] = Nothing
  /\ \E keys \in Candidates(l) :
       LET r == FirstHit(catalogue, keys)
       IN  IF \/ l \in NoCurrency \/ keys = <<>> \/ r \in Ref \ InScope
              \/ l \in NoRate /\ r # NoRef
           THEN todo' = [todo EXCEPT ![p] = @ \ {l}] /\ UNCHANGED hand
           ELSE hand' = [hand EXCEPT ![p] = [lot |-> l, ref |-> r]] /\ UNCHANGED todo
  /\ UNCHANGED <<world, tables, boot, faults, sale, page>>

\* Slip: the lot in hand is not put away.
DoneKeepingLot(p) ==
  /\ todo' = [todo EXCEPT ![p] = @ \ {hand[p].lot}]
  /\ UNCHANGED hand

DoneWithLot(p) ==
  /\ todo' = [todo EXCEPT ![p] = @ \ {hand[p].lot}]
  /\ hand' = [hand EXCEPT ![p] = Nothing]

\* AppendObservation: the identity of the event is its reference, lot page,
\* price and day.
AppendLot(p) ==
  /\ hand[p].ref # NoRef
  /\ ledger' = ledger \cup {[lot   |-> hand[p].lot, ref |-> hand[p].ref,
                             price |-> page[p][hand[p].lot]]}
  /\ DoneWithLot(p)
  /\ UNCHANGED <<world, schema, queue, boot, faults, sale, page>>

\* INSERT INTO review_queue, again in every run.
queueForReview(p) ==
  /\ hand[p] # Nothing /\ hand[p].ref = NoRef
  /\ queue' = [queue EXCEPT ![hand[p].lot] = IF @ < MaxQueue THEN @ + 1 ELSE @]
  /\ DoneWithLot(p)
  /\ UNCHANGED <<world, schema, ledger, boot, faults, sale, page>>

\* No more sales: the process prints its totals and ends.
Finish(p) ==
  /\ stage[p] = "ready" /\ todo[p] = {} /\ sale[p] + 1 \notin DOMAIN Sales
  /\ End(p)
  /\ UNCHANGED <<world, tables, faults>>

\* Slip: a lot whose statement fails is skipped, and the run goes on.
FailLot(p) ==
  /\ hand[p] # Nothing /\ faults < MaxFaults
  /\ faults' = faults + 1
  /\ DoneWithLot(p)
  /\ UNCHANGED <<world, tables, boot, sale, page>>

\* A statement fails or the process is killed.
Fail(p) ==
  /\ stage[p] # "down" /\ faults < MaxFaults
  /\ faults' = faults + 1
  /\ End(p)
  /\ UNCHANGED <<world, tables>>

Next ==
  \/ \E l \in Lot : Sell(l)
  \/ \E l \in Lot : Revise(l)
  \/ \E r \in Ref : Learn(r)
  \/ Disable
  \/ \E p \in Process : Start(p)
  \/ \E p \in Process : FetchSale(p)
  \/ \E p \in Process, l \in Lot : ResolveLot(p, l)
  \/ \E p \in Process : AppendLot(p)
  \/ \E p \in Process : queueForReview(p)
  \/ \E p \in Process : Finish(p)
  \/ \E p \in Process : Fail(p)

Spec == Init /\ [][Next]_vars

\* What a run does next.
Go(p) ==
  \/ Start(p) \/ FetchSale(p) \/ AppendLot(p) \/ queueForReview(p) \/ Finish(p)
  \/ \E l \in Lot : ResolveLot(p, l)

\* The nightly loop comes round for ever, and a run goes on.
FairSpec == Spec /\ WF_vars(Go(Nightly))

-----------------------------------------------------------------------------
Row == [lot : Lot, ref : Ref, price : 1..2]

\* The shape of the state: a run works on what is on its page.
TypeOK ==
  /\ MigrateTypeOK
  /\ catalogue \subseteq Ref /\ enabled \in BOOLEAN /\ sold \subseteq Lot
  /\ price \in [Lot -> 1..2]
  /\ ledger \subseteq Row /\ queue \in [Lot -> 0..MaxQueue]
  /\ faults \in 0..MaxFaults
  /\ \A p \in Process :
       /\ sale[p] \in {0} \cup DOMAIN Sales
       /\ todo[p] \subseteq DOMAIN page[p] /\ DOMAIN page[p] \subseteq sold
       /\ hand[p] # Nothing => hand[p].lot \in todo[p] /\ hand[p].ref \in Ref \cup {NoRef}

(* While the catalogue stays as it is, a lot is in the ledger once for     *)
(* each price it was published with, however often and at once it is       *)
(* ingested, and whether its own page answered or not ("re-ingesting the   *)
(* same event is a no-op").  When the catalogue learns a reference, the    *)
(* same lot can be in it under two.                                        *)
OneRowPerSale ==
  catalogue = FirstCatalogue =>
    \A a, b \in ledger : a.lot = b.lot /\ a.price = b.price => a = b

\* What the text of a lot is: its title, or else its own page.
Text(l) == IF titleKeys[l] # <<>> THEN titleKeys[l] ELSE pageKeys[l]

\* The present catalogue has just one reference that k can stand for: itself,
\* or else the only one it is the base of, or else, as the base of none or of
\* several, the only one it is an alias of.
Says(k, r) ==
  LET based   == {s \in catalogue : <<k, s>> \in baseOf}
      aliased == {s \in catalogue : <<k, s>> \in aliasOf}
  IN  IF k \in catalogue THEN r = k
      ELSE based = {r} \/ (aliased = {r} /\ \A s \in Ref : based # {s})

\* The first candidate of lot l that says something says r.
Names(l, r) ==
  \E i \in DOMAIN Text(l) :
    /\ Says(Text(l)[i], r)
    /\ \A j \in DOMAIN Text(l), s \in Ref : j < i => ~Says(Text(l)[j], s)

(* A run takes a sold lot for a reference only if the first candidate of   *)
(* its text that says anything says that one and no other; it takes a lot  *)
(* for nothing only if no candidate says anything; and a row enters the    *)
(* ledger only for what a run had taken a lot for, however the catalogue   *)
(* grows in between and whoever else runs ("first catalogue hit wins",     *)
(* "ambiguous base - refuse, never guess").                                *)
NeverGuesses ==
  [][/\ \A p \in Process :
          LET l == hand'[p].lot
              r == hand'[p].ref
          IN  hand'[p] \notin {hand[p], Nothing} =>
                IF r = NoRef
                THEN \A i \in DOMAIN Text(l), s \in Ref : ~Says(Text(l)[i], s)
                ELSE /\ Names(l, r) /\ r \in InScope
                     /\ l \in sold \ (NoCurrency \cup NoRate)
     /\ \A row \in ledger' \ ledger :
          \E p \in Process : hand[p].lot = row.lot /\ hand[p].ref = row.ref]_vars

Matches(k, r) == k = r \/ <<k, r>> \in baseOf \/ <<k, r>> \in aliasOf

\* The lot is in the ledger or in the review queue, or it is out of scope.
Settled(l) ==
  \/ \E row \in ledger : row.lot = l
  \/ queue[l] > 0
  \/ \E r \in catalogue \ InScope, i \in DOMAIN titleKeys[l] : Matches(titleKeys[l][i], r)

\* The lots that a run cannot lose.
Plain == {l \in Lot \ (NoCurrency \cup NoRate) : titleKeys[l] # <<>>}

(* A run that goes on to the next sale, or to its end, has left no lot of  *)
(* this one behind: an error ends the run rather than losing a lot.        *)
NoLotLeftBehind ==
  [][\A p \in Process : (sale'[p] > sale[p] \/ Finish(p))
        => \A l \in DOMAIN page[p] \cap Plain : Settled(l)]_vars

\* The lots of sales before which no sale is broken.
Reached == {l \in Plain : \E i \in DOMAIN Sales :
                            l \in Sales[i] /\ \A j \in Broken : i < j}

(* As long as the source is enabled, what is sold is settled in the end,   *)
(* although runs die half way and other runs work on the same sale; but    *)
(* only in sales before the first one whose page may fail to be fetched,   *)
(* which then ends every run.                                              *)
EventuallySettled ==
  []enabled => \A l \in Reached : l \in sold ~> Settled(l)
=============================================================================
