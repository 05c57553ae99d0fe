----------------------------- MODULE EbayIngest -----------------------------
(***************************************************************************)
(* The eBay part of the nightly loop (internal/ingest/ebay.go): asks go    *)
(* into the ledger, ebay_items remembers when each listing was last seen,  *)
(* and a listing that a run does not find and that was last seen 48 hours  *)
(* or more before gets a delist event.                                     *)
(*                                                                         *)
(* Only whether a listing was seen within the grace window matters, so     *)
(* time is kept as ages in days that stop growing at Grace.  A run works   *)
(* with the time it started at, so a day never changes within a run.  A    *)
(* run that finds the source disabled does nothing: it is no run here.     *)
(***************************************************************************)
EXTENDS Integers, FiniteSets, Functions

CONSTANTS
  Item,        \* listings whose title resolves to a reference in scope
  Family,      \* one search query each
  familyOf,    \* [Item -> Family]
  Grace,       \* days of grace
  Partial,     \* whether an answer can leave out listings that are up
  MaxListings, \* bound on how often listings can go up, all together
  MaxFaults    \* bound on killed runs and lost writes

ASSUME ItemAssumption ==
  /\ IsFiniteSet(Item)
  /\ familyOf \in [Item -> Family]
  /\ Partial \in BOOLEAN
  /\ Grace \in Nat \ {0} /\ MaxListings \in Nat /\ MaxFaults \in Nat

VARIABLES
  listed,        \* the market: listings that are up
  listings,      \* [Item -> how often it went up]
  known,         \* rows of ebay_items
  delisted,      \* those with delisted_at set
  age,           \* [Item -> days since last_seen]
  askAge,        \* [Item -> days since its last ask in the ledger]
  delistedToday, \* items with a delist event dated today
  delists,       \* [Item -> delist events in the ledger]
  open,          \* items tracked since their last delist event
  faults,
  pc,            \* what the run is doing
  queries,       \* searches it has still to make
  found,         \* items of the last answer it has still to go through
  seen,          \* items of all its answers
  vanished,      \* items it has still to delist
  hand           \* the item between its event and its row in ebay_items

market == <<listed, listings>>
ledger == <<askAge, delistedToday, delists>>
cache  == <<known, delisted, age>>
run    == <<pc, queries, found, seen, vanished, hand>>
vars   == <<market, ledger, cache, open, faults, run>>

\* Counters and ages stop at their bound.
Older(n) == IF n < Grace THEN n + 1 ELSE Grace

-----------------------------------------------------------------------------
Init ==
  /\ listed = {} /\ listings = [i \in Item |-> 0]
  /\ known = {} /\ delisted = {} /\ age = [i \in Item |-> Grace]
  /\ askAge = [i \in Item |-> Grace]
  /\ delistedToday = {} /\ delists = [i \in Item |-> 0]
  /\ open = {}
  /\ faults = 0
  /\ pc = "idle" /\ queries = {} /\ found = {}
  /\ seen = {} /\ vanished = {} /\ hand = {}

AllListings == FoldFunction(+, 0, listings)

\* A seller puts a listing up, or it ends.
List(i) ==
  /\ i \notin listed /\ AllListings < MaxListings
  /\ listed' = listed \cup {i}
  /\ listings' = [listings EXCEPT ![i] = @ + 1]
  /\ UNCHANGED <<ledger, cache, open, faults, run>>

Unlist(i) ==
  /\ i \in listed
  /\ listed' = listed \ {i}
  /\ UNCHANGED <<listings, ledger, cache, open, faults, run>>

NextDay ==
  /\ pc = "idle"
  /\ age' = [i \in Item |-> Older(age[i])]
  /\ askAge' = [i \in Item |-> Older(askAge[i])]
  /\ delistedToday' = {}
  /\ UNCHANGED <<market, known, delisted, delists, open, faults, run>>

\* IngestEBayAsks begins: scopeFamilies gives the queries.
Start ==
  /\ pc = "idle"
  /\ pc' = "searching" /\ queries' = Family
  /\ UNCHANGED <<market, ledger, cache, open, faults, found, seen, vanished,
                 hand>>

\* One search that is answered, with all or, as the API pages, ranks and
\* throttles, some of the listings that are up.  Each item of it is seen.
Search(q, R) ==
  /\ pc = "searching" /\ found = {} /\ hand = {} /\ q \in queries
  /\ LET all == {i \in listed : familyOf[i] = q}
     IN  R = all \/ (Partial /\ R \subseteq all)
  /\ queries' = queries \ {q}
  /\ found' = R /\ seen' = seen \cup R
  /\ UNCHANGED <<market, ledger, cache, open, faults, pc, vanished, hand>>

\* An item whose title or currency, that day, cannot be used is passed over.
Skip(i) ==
  /\ pc = "searching" /\ i \in found
  /\ found' = found \ {i}
  /\ UNCHANGED <<market, ledger, cache, open, faults, pc, queries, seen,
                 vanished, hand>>

\* AppendObservation of an ask.
AppendAsk(i) ==
  /\ pc = "searching" /\ hand = {} /\ i \in found
  /\ askAge' = [askAge EXCEPT ![i] = 0]
  /\ found' = found \ {i} /\ hand' = {i}
  /\ UNCHANGED <<market, delistedToday, delists, cache, open, faults, pc,
                 queries, seen, vanished>>

\* touchEBayItem: insert the row, or move its last_seen; delisted_at stays.
\* Its error is not looked at.
touchEBayItem(i) ==
  /\ pc = "searching" /\ hand = {i}
  /\ \/ /\ known' = known \cup {i} /\ age' = [age EXCEPT ![i] = 0]
        /\ open' = open \cup {i}
        /\ UNCHANGED faults
     \/ /\ faults < MaxFaults /\ faults' = faults + 1
        /\ UNCHANGED <<known, age, open>>
  /\ hand' = {}
  /\ UNCHANGED <<market, ledger, delisted, pc, queries, found, seen, vanished>>

\* After the last item of the last answer, the listings G are gone, and the
\* listings M get their mark.
DiffOver(G, M) ==
  /\ pc = "searching" /\ queries = {} /\ found = {} /\ hand = {}
  /\ pc' = "delisting"
  /\ vanished' = G
  /\ delisted' = delisted \cup M
  /\ UNCHANGED <<market, ledger, known, age, open, faults, queries, found,
                 seen, hand>>

Stale == {i \in known : age[i] >= Grace}

\* Slips: what the run has seen, the mark, or the grace does not count; the
\* mark is set at once, before the event.
DiffOfSeen   == DiffOver(Stale \ delisted, {})
DiffAgain    == DiffOver(Stale \ seen, {})
DiffNoGrace  == DiffOver(known \ (delisted \cup seen), {})
DiffAndMark  == DiffOver(Stale \ (delisted \cup seen), Stale \ seen)

\* The SELECT of appendDelistEvents.
Diff == DiffOver(Stale \ (delisted \cup seen), {})

\* AppendObservation of a delist event; a second one of a day is dropped.
AppendDelist(i) ==
  /\ pc = "delisting" /\ hand = {} /\ i \in vanished
  /\ delists' = [delists EXCEPT ![i] = IF i \in delistedToday THEN @ ELSE @ + 1]
  /\ delistedToday' = delistedToday \cup {i}
  /\ open' = open \ {i}
  /\ hand' = {i}
  /\ UNCHANGED <<market, askAge, cache, faults, pc, queries, found, seen,
                 vanished>>

\* UPDATE ebay_items SET delisted_at, whose error is not looked at.
MarkDelisted(i) ==
  /\ pc = "delisting" /\ hand = {i}
  /\ \/ delisted' = delisted \cup {i} /\ UNCHANGED faults
     \/ /\ faults < MaxFaults /\ faults' = faults + 1
        /\ UNCHANGED delisted
  /\ vanished' = vanished \ {i} /\ hand' = {}
  /\ UNCHANGED <<market, ledger, known, age, open, pc, queries, found, seen>>

\* A run ends, and its memory with it.
End ==
  /\ pc' = "idle" /\ queries' = {} /\ found' = {} /\ seen' = {}
  /\ vanished' = {} /\ hand' = {}

Finish ==
  /\ pc = "delisting" /\ vanished = {}
  /\ End
  /\ UNCHANGED <<market, ledger, cache, open, faults>>

\* A search errs, a statement fails, a price makes MustDecimal panic, or the
\* process is killed: the run returns without a diff, or without the rest.
Fail ==
  /\ pc # "idle" /\ faults < MaxFaults
  /\ faults' = faults + 1
  /\ End
  /\ UNCHANGED <<market, ledger, cache, open>>

Next ==
  \/ \E i \in Item : List(i) \/ Unlist(i)
  \/ NextDay
  \/ Start
  \/ \E q \in Family, R \in SUBSET Item : Search(q, R)
  \/ \E i \in Item : Skip(i) \/ AppendAsk(i) \/ touchEBayItem(i)
  \/ Diff
  \/ \E i \in Item : AppendDelist(i) \/ MarkDelisted(i)
  \/ Finish
  \/ Fail

Spec == Init /\ [][Next]_vars

\* The nightly loop comes round, a day passes between its runs, and a run
\* goes on; all but MaxFaults searches are answered.  Nobody makes sellers
\* do anything.
Fairness ==
  /\ SF_vars(NextDay) /\ WF_vars(Start)
  /\ WF_vars(\E q \in Family, R \in SUBSET Item : Search(q, R))
  /\ WF_vars(\E i \in Item : Skip(i) \/ AppendAsk(i) \/ touchEBayItem(i))
  /\ WF_vars(Diff) /\ WF_vars(Finish)
  /\ WF_vars(\E i \in Item : AppendDelist(i) \/ MarkDelisted(i))

FairSpec == Spec /\ Fairness

-----------------------------------------------------------------------------
\* The shape of the state, and what the phases of a run have in hand.
TypeOK ==
  /\ listed \subseteq Item
  /\ known \subseteq Item /\ delisted \subseteq known
  /\ age \in [Item -> 0..Grace] /\ askAge \in [Item -> 0..Grace]
  /\ listings \in [Item -> Nat] /\ delists \in [Item -> Nat]
  /\ open \subseteq known
  /\ faults \in 0..MaxFaults
  /\ pc \in {"idle", "searching", "delisting"}
  /\ (pc = "idle" => queries = {} /\ found = {} /\ seen = {} /\ vanished = {})
  /\ found \subseteq seen /\ vanished \subseteq known \ seen
  /\ hand = {} \/ \E i \in Item : hand = {i}

\* A delist event for item i goes into the ledger.
Delists(i) == delists'[i] # delists[i]

(* While every write succeeds, the two tables agree on when a listing was  *)
(* last seen: none gets a delist event within the grace of an ask that the *)
(* ledger has for it, whatever runs found it or could not use its title.   *)
AskGivesGrace ==
  [][\A i \in Item : Delists(i) /\ faults = 0 => askAge[i] >= Grace]_vars

(* While no run is killed and no write lost, a listing gets at most one    *)
(* delist event for each time it went up ("must be append-once",           *)
(* TestEBayDelistDiff).                                                    *)
DelistOnce == faults = 0 => \A i \in Item : delists[i] <= listings[i]

(* A tracked listing that ends for good gets its delist event, although    *)
(* runs are killed and marks are lost ("disappearing ID + last-seen price  *)
(* -> delist event"), unless it was ever up after it had been marked: such *)
(* a mark is never taken off.                                              *)
EventuallyDelisted ==
  \A i \in Item :
    [](i \in delisted => i \notin listed) /\ <>[](i \notin listed)
      => <>[](i \notin open)
=============================================================================
