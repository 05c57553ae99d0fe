# Verification of WatchLedger

TLA+ models of WatchLedger, the verdict engine for pre-owned watches in this
repository, the TLC runs that check them on small instances, and proofs, checked
by TLAPS, of what matters most for every instance. Paths below are relative to
the repository's root.

How to read it: `VerdictStore.tla` first (the core), then `VerdictPromise.tla`
(what the core implements), then any other module: section 2 shows what each
stands on. `PROJECT.json` ties every definition to the lines it models, lists
the runs, what each property's mutant is, and what was found.

## 1. The system

WatchLedger is a set of Go programs around one SQLite file. They share no lock
and no memory: each statement is its own transaction, and everything interesting
happens between statements of different processes.

| part | state it keeps | operations | what makes it correct |
|---|---|---|---|
| ledger (`internal/ledger`) | `observations`, `raw_documents` | append, insert-or-ignore by content hash | events are only ever added; one row per event |
| compute runs (`internal/ledger/compute.go`; started by `cmd/engine` and by `recomputeEngine` in the web server) | `verdict_content`, `rulesets` | one SELECT, then an upsert per cell | a verdict rests on the whole evidence of one moment, follows from what it stores, and the newest one is read |
| verdict computation (`internal/engine`) | none, pure | cell filter, trim, percentiles, weighted median, gates, hashes | same evidence and rules give the same verdict |
| harness (`cmd/reproduce`) | none | load verdict, load evidence, recompute, compare | fails only when a verdict is wrong |
| operator's tool (`cmd/syncprod`) | none of its own | purge sources, import an export, clear verdicts | no verdict rests on what was purged |
| eBay ingest (`internal/ingest/ebay.go`) | `ebay_items` | search per family, append asks, touch items, diff, append delist events, mark | one delist event when a listing ends, none while it is up |
| alerts (`internal/alerts`, `internal/store/watchlist.go`) | `watchlist.last_alerted` | count what is new, mail, mark; watch, unwatch | everything that is new when it arrives is told, nothing twice |
| auction ingest (`internal/ingest/ingest.go`, `internal/sourcesv2`, `cmd/ingest`) | `review_queue` | fetch a sale, extract lots, resolve, convert, append or queue | a lot enters once, under a reference its text names, and none is lost to an error |
| curator (`internal/curator`, handlers) | `curator_results` | parse, stage, ledger, discard | a line that says ledged has its price in the ledger, once, and in a verdict as soon as its request is over |
| price reports (handlers, `store`) | `price_reports` | submit, review | (the code promises little: see "What the code does not promise") |
| login and forms (`internal/auth`, handlers) | `users`, `login_tokens`, `sessions` | start, confirm, resolve, log out, the forms behind `requireUser` | a session is for the address its link went to; one session per link |
| evaluations (`internal/evaluate`, handler) | `evaluations` | resolve, read, price, land, save | what is stored fits together, and stays at its permalink |
| landed cost (`internal/landedcost`) | `tax_rules`, `fx_rates` (read only) | convert, compute | each line rounded once; the lines add up to the total |
| catalogue (`internal/catalogue`) | `catalogue_*` (read only) | lookup, cascade over candidates | two matches are as good as none: never guessed |
| store (`internal/store`) | `schema_migrations`, `sources` | open, migrate, source switch | each migration once and in order, on concurrent starts too |

How they interact: ingests and the curator append to `observations`; compute
runs read it and write `verdict_content`; the web server and the harness read
both; alerts read `observations` and `watchlist`. `scripts/prod-start.sh` runs
the web server beside a loop of engine, eBay ingest, Bonhams ingest and alerts,
every 24 hours. A step of the loop that fails is logged and the loop goes on.

What is hard here, and hard to test:

- **overlap**: a nightly compute run and the one a curator sets off in the web
  server, each of them saving cell by cell from rows it read before;
- **crashes and redeployments** between two statements of a run: a save and the
  next cell, a delist event and its mark, a mail and its mark;
- **time as data**: `created_at` decides which verdict is served, `computed_at`
  what its freshness gate says, `observed_at` (the day of a sale) what is news,
  `last_seen` when a listing is gone;
- **stale reads**: the harness and the operator's tool against a store in use;
- **handlers without transactions**: a login, a form, the ledgering of a staged
  line and an evaluation are each several statements, and requests are goroutines;
- **a catalogue that grows** between two ingests of the same lot;
- **ordering**: rows come in the order that SQLite likes;
- **boundaries**: trims and percentiles of 4 to 10 rows.

`PROJECT.json` lists these hazards one by one, at the line where they bite.

## 2. The modules

```
EvidenceRules ---- VerdictPromise          abstract: events and verdicts are only added
      |                  ^
      |                  | implements (KeepsPromise, proved)
      +---------- VerdictStore ------+------- Reproduce       the harness beside it
                                     |
                                     +------- LedgerOps       the operator's tool beside it
              StoreProofs                     (about these three)

Migrate ----+
            +---- AuctionIngest ---- AuctionProofs      programs that start, migrate, ingest
Catalogue --+
            +---- Desk ------------- DeskProofs         staged lines, reviewed reports
LandedCost ------ Evaluations ------ EvaluationsProofs  submissions and permalinks

LoginPromise                               abstract: a confirmation is one step
    ^ implements (KeepsLoginPromise, proved)
Accounts ---- AccountsProofs               login links, sessions, forms
EbayIngest -- EbayProofs                   asks and delist events
Alerts ------ AlertsProofs                 mails to watchers
Engine ------ EngineProofs                 the computation behind Kept and Dispersed
MC*                                        small instances, a cfg for each run
```

### EvidenceRules
Events, cells, rulesets, the gates and the nil returns of `ComputeVerdict` over
a *set* of events. An event has a cell, a source and a date; `Realised` and
`Corrupt` say what a compute run makes of it. Prices stay abstract: `Kept(S)` is
what the trim leaves of evidence `S`, which fixes p10, median and p90;
`Dispersed` is the test of p75/p25. Both are parameters, and `TrimAssumption`
says only that the trim adds nothing. (Module Engine shows where a set is not
enough: the order of rows matters to the trim. The models of the store assume
one order per set, so that what they show is not a consequence of that.)

### VerdictStore
| variable | code |
|---|---|
| `ledger` | `observations`, in rowid order |
| `verdicts` | `verdict_content`: key (cell, inputs, rules), claim (range, failing), `computedAt` (inside the JSON), `createdAt` |
| `rulesets` | table `rulesets` |
| `current` | `engine.Current` of the deployed binaries |
| `pc`, `now`, `rows`, `todo` | a worker's place in `RunCompute`: its `now`, the rows it grouped, the cells it has still to do |

| action | code |
|---|---|
| `Ingest` | `AppendObservation` in any ingest |
| `NightlyRun` | `cmd/engine`: `SaveRuleset`, then `RunCompute` is called |
| `CuratorRun` | `handleCuratorLedger`: append, then `recomputeEngine`, which does not save the ruleset |
| `Select` | the SELECT and the grouping |
| `Save` | one turn of the loop over cells, in any order (a Go map) |
| `Finish`, `Fail` | return; or an error, a panic or a kill at any point |
| `Deploy` | another binary: every process is gone, `current` is newer |
| `Tick` | time passes |

`SaveVerdictContent` is the upsert as written: a row that is there keeps its
`created_at`. `Latest` is `ORDER BY created_at DESC LIMIT 1`: among rows of one
second, any of them. Steps of one process between which nothing observable
happens in the tables are one action (`SaveRuleset` with the call of
`RunCompute`; the curator's append with its run: a pause between the two is the
behaviour in which `Ingest` appended the event before).

### VerdictPromise
The abstract specification: `Record` an event, `Publish` a verdict on the
evidence after some prefix of the ledger. Nothing is removed. The freshness gate
is not part of the abstract claim, because it changes with the day it is asked.
`KeepsPromise` maps `verdicts` to claims by dropping the times and that gate.

### Reproduce
`LoadVerdict` (with the `SaveRuleset` before it), `LoadEvidence`, `Compare`, each
a statement of `cmd/reproduce`, with the whole of `VerdictStore` going on in
between. Differences from a compute run are kept: the harness's query stops at a
corrupt price; it compares cells by SQLite's LOWER of the fields as they are, so
that it misses the rows of `Untidy` (blanks around a field, capitals that are not
ASCII), which the engine's key does not tell from others; and gates are compared
by number.

### LedgerOps
`cmd/syncprod` beside `VerdictStore`: `Purge` is one DELETE per source (the rest
of the ledger keeps its order, `RemoveSource`), `Import` one INSERT OR IGNORE per row, `Clear` the DELETE of all verdicts, whose error
the code does not look at. `quiet` is history: no compute run was under way
since the tool started and its last statement succeeded. The tool keeps its word
only then; what happens otherwise is in section 3.

### Engine
The computation with its arithmetic, over *lists* of rows: positions instead of
prices, so that equal prices stay apart. The thresholds are the code's
(`MinSamples` 4, trim floor 8, band 0.2 to 2.2, two passes, gates 8, 3, 2.5).
Prices are small whole numbers and ages whole half-lives, so that every
comparison is exact (the code compares decimals exactly and weights as floats:
rounding of floats is abstracted). The state machine only lists the inputs: one
more row of some table per step.

### EbayIngest
The market (`listed`), the ledger's asks and delist events, `ebay_items`, and a
run: `Search` per family, then for each item of the answer `Skip` or `AppendAsk`
and `touchEBayItem`; after the last family `Diff`; then `AppendDelist` and
`MarkDelisted` per vanished item. Times are ages in days that stop at the grace.
An answer may leave listings out (`Partial`): the API pages and ranks, and the
limit of a search is finite. `touchEBayItem` and the mark can be lost without an
error, as in the code.

### Alerts
`AllWatchers` reads the watchlist, then per row `Check`, `SendAlert`,
`MarkAlerted`, with news, watchers and the clock changing in between and at any
second. `lag` is how long before its arrival an observation is dated: 0 for asks,
days or years for sales, and negative for one dated ahead. The mark is the second
in which the run started, and the comparison is strict, so what a row is told of
depends on when a run starts, when it comes to the row, and what else the
reference has been marked for.

Two variables are history. `told` has the news that a mail has counted for a watch,
with the start of its run; it starts empty when somebody watches a reference again.
`behind` has the news that was dated no later than the start of the latest run when
it arrived: a row which that run marks without having counted it never tells of it.
This includes news dated in the very second in which a run starts that arrives
after its row was counted.

### Accounts
| action | code |
|---|---|
| `StartLogin` | the row of `login_tokens`, then the mail, which may fail |
| `CheckLink`, `AdoptUser`, `ConsumeLink`, `MintSession` | `ConfirmLogin`, statement by statement (the user's insert and select are one: nothing removes users) |
| `Fail` | an error or a kill between two of them |
| `LetIn`, `HandleForm` | `requireUser`, then the handler, which resolves the session again and ignores that it may be gone |
| `Logout` | `handleLogout` |

A token is a fresh name, an address stands for its user's id. `foreign_keys` is
set on one connection of the pool, so a row of user 0 may be taken or refused.
`mintedFrom`, `contested`, `broken` and `cut` are history: where a session comes
from, links that two requests confirmed at once, that failed half way, and
whether a session ended under a form.

### LoginPromise
The abstract specification of a login link: `Mail` it, `Grant` one session for it,
`Burn` it in a confirmation that fails, `End` a session; after a `Race` of two
confirmations it may be granted again. `KeepsLoginPromise` maps a link to spent
when its row says used, except while the confirmation that marked it, uncontested,
has yet to insert the session: there the table is ahead of the promise.

### Catalogue
`Lookup` as in the code: the exact reference, else the one reference that the
key is the base of, else an alias of exactly one; two matches are as good as none
(`OnlyOne`). `FirstHit` is the cascade that
ingest and curator run over the candidates of a text. What is a base or an alias
of what is a parameter.

### Migrate
`Boot`, then for each migration `CheckMigration` (a SELECT of its own) and
`ApplyMigration` (one transaction). A migration that another program has applied
since the check conflicts, rolls back and ends the program. `effects` counts how
often the body took effect.

### AuctionIngest
Programs that start, migrate (module Migrate) and ingest one sale after the
other: `FetchSale` (page, source switch), per lot `ResolveLot`, then `AppendLot`
or `queueForReview`; `Finish`; `Fail` at any point. Beside them the auction house
sells and corrects, the operator adds references and switches the source off.
`page` is what a run fetched, so that a run works with old prices while the
published ones move. A lot's own page, asked when its title has no candidates,
may not answer. `review_queue` is a count per lot, up to `MaxQueue`.

`NeverGuesses` does not use `Lookup`: `Says` states in its own words what the
present catalogue says of a candidate, namely the reference itself, or the only one
it is the base of, or else the only one it is an alias of. A run may take a lot for
a reference only if the first candidate that says anything says just that one, for
nothing only if none does, and a row of the ledger is one that was so taken.

### Desk
| action | code |
|---|---|
| `Paste` | `handleCuratorParse`: a staged row, resolved or not |
| `LoadLine`, `LedgerLine`, `MarkLedged` | `handleCuratorLedger`: SELECT of a row that is 'parsed', `curator.Ledger`, UPDATE |
| `Recompute`, `Save`, `Redirect` | its `recomputeEngine`: the SELECT of `RunCompute`, then one upsert per cell, in any order, then the answer |
| `NightlyRun`, `KillNightly` | `cmd/engine` beside it, with the same `Save` |
| `RefuseLine`, `BreakLine`, `MarkUnresolved`, `LoseMark`, `Die` | the error paths, with UPDATEs whose answer is dropped; a recompute that fails or is killed is cut off where it is |
| `Discard` | `handleCuratorDiscard`, whatever the row's status is |
| `VerifyReport`, `RejectReport` | `handleReportVerify`; the status 'verify' is refused by the table's CHECK and the error dropped, so a report stays open |

| variable | code |
|---|---|
| `staged`, `observations`, `rejected` | `curator_results`; `observations` by content hash, with the rates of its dollars; reports with status 'rejected' |
| `verdicts`, `latest` | `verdict_content` of each cell: the evidence of its rows, and that of the row with the newest `created_at` |
| `run` | a compute run: the events its SELECT saw, the cells it has left |
| `req` | how far a request is, and on which staged row |

`Event` is the content hash: source, reference, price and day, the price as it is
spelled. An `Amount` is therefore an amount and the number of its decimals: a price
comes from the text as it stands there, and with a premium it is rounded and spelled
with two. Dollars are not in the hash: an observation's `usd` is the rates of its
first entry, any that can be the latest when a request loads them, or none.

`Save` says of `created_at` what the table does: a verdict on evidence that has one
keeps its time; a new one is the latest, or, if the latest is of the same second,
either may be read. Overlapping runs save in any order, so a slow one can put older
evidence in front (`store_stale`). Gates, rulesets and dates of verdicts are left to
VerdictStore: here every cell has enough other evidence for a verdict from the start,
and what the desk adds is looked at.

`upset`, `entered`, `late` and `crowded` are history: rows on which two requests met
or a statement failed; what was appended for the others; rows discarded after they
were ledged; and that two compute runs have overlapped, or stored two verdicts of a
cell in one second.

### LandedCost and Evaluations
LandedCost is the arithmetic: conversion, card spread, insurance, default
shipping, duty and VAT over whole hundredths, each line rounded once. The code
computes in decimals and rounds to cents at the same places.

Evaluations has the steps of `Evaluate` as separate reads (`Lookup`,
`ReadEvidence`, `PriceAgainstBand`, `ReadAsks`, `Land`), then `SaveEvaluation`
with its `ON CONFLICT DO NOTHING` and the redirect. Nothing is assumed of the
ledger: a read finds any of the sales. A band stands for the verdict on its
evidence. `moved` is history: new rates came in during the evaluation.

## 3. The runs

Every cfg is small enough to finish within a few minutes and large enough to
hold the case that its properties are about.

| run | what it shows |
|---|---|
| `store_safety` | two overlapping runs, ingests, a failure and a redeployment never store a verdict on mixed, partial or ask evidence, and each verdict follows from what it stores |
| `store_live` | the verdict on a cell's whole evidence is stored in the end; and it is the one served, if no two runs ever overlap (of several rows of one second any may be served; that it is one of them is enough) |
| `store_stale` ✗ | not so with a web recompute that overlaps the nightly run |
| `reproduce_check` | FAIL is printed only for a cell with evidence newer than its verdict, or with rows the harness does not find, with a corrupt price about; and store and harness implement `VerdictPromise` |
| `engine_lists` | the day only moves the freshness gate; order does not matter for close prices; kept prices lie in one band; the range holds the middle half |
| `ops_quiet` | a purge with no run under way leaves nothing on purged evidence, through later runs, failures and a redeployment |
| `ebay_nightly` | a listing that ended is delisted in the end, despite a fault; while nothing failed, at most once per listing and never within the grace of an ask |
| `alerts_nightly` | a mail counts what an earlier one told only if it is dated after the start of that run, while no run died; what is dated after the start of the latest run when it arrives is told, whenever that is, whatever the row was marked for, and despite failures |
| `accounts_requests` | a session is for the address its link went to; a confirmation that nobody contests is as good as one step, and a link is spent on a session or a failure; rows have owners unless a session ends under a form |
| `auction_nightly` | programs that start together build the schema once; no sale is entered twice while the catalogue stays, none under a reference that the catalogue does not single out for the first candidate it knows; no lot is left behind, and all in reach are settled in the end |
| `desk_admin` | a ledged line points at its own sale; unless two requests meet on it, it gives one price, which is in a stored verdict when its request is over, however recomputes overlap; and in the verdict that is read if they do not |
| `evaluations_submit` | what is stored fits together although everything moves between two reads, and stays at its permalink |

✗ marks the run whose property a comment of the repository states and the code
does not keep; `PROJECT.json`, "findings", quotes the line.

Each property of a passing run has a mutant: a definition marked "Slip" in its
module, which a plausible mistake in the code would give, and under which TLC
finds the property violated.

### Bounds and why they are enough
- **VerdictStore**: one nightly worker and one web worker, so that two runs can
  overlap in every way (two web workers add only more of the same overlap: a
  worker is told apart by `SaveRuleset` alone). Two cells, so that a run can stop
  between them. Four events: for safety a sound sale, one that the trim cuts off
  beside it, an ask, and one alone in its cell, under two rulesets, of which only
  the newer lets one sale compute; for liveness an older sale instead of the ask,
  under one ruleset. Clock 0..1, so that a gate can go stale and rows can be of
  one second or of two. One fault. No price is corrupt here; one is in Reproduce.
- **Reproduce**: one cell (the harness goes cell by cell and forgets in
  between), three events, one of them corrupt and one untidy, one fault.
- **LedgerOps**: one cell, an event each from two sources, two uses of the tool,
  two rulesets, one fault.
- **Engine**: lists of up to 8 rows of four kinds, and of up to 10 rows with
  prices far apart: the trim starts at 8, its second pass needs 8 left of more,
  and p10 leaves the first place at 10.
- **EbayIngest**: two listings in two families (a run can stop between them), a
  grace of two days as in the code, two times that a listing goes up in all, so
  that one can come back or both be up; one fault.
- **Alerts**: two users, one of them unreachable (a watch of his can end), one
  reference with two observations, one dated at its arrival and one a second before,
  so that either can come first and be told under a mark that the other has moved; a
  clock of four values, so that a run, news in the second of its start, news after it
  and another run fit; one fault, one removal (so that a watch can go and come back
  during a run).
- **Accounts**: two each of addresses, links, sessions and requests, one
  reference; link and session outlive the second in which they were made by
  nothing, so that both can end under a request. Two requests are all that two steps of one link need to meet.
- **AuctionIngest**: the nightly run and one of an operator, two migrations, three
  sales of five lots: one whose title has a base of two references before
  another candidate, one with candidates on its own page only, one the catalogue
  does not know at first, and, in a sale that may not be fetched, one without a
  rate and one without a currency. One fault.
- **Desk**: a text with everything in it and one without house and date, two requests
  and the nightly engine, premiums 0 and 25, a report of the same price, a table of
  rates or none, one cell (saves of different cells do not touch each other but in the
  order of one run, which VerdictStore has). Staged rows and reviewed reports are
  together at most `MaxWork` = 2: two rows are what two requests need to ledger at
  once, the same text or not, and to overlap their recomputes.
- **Evaluations**: a listing of a known reference and one of an unknown one, two
  dates of rates, two sales (both make a band that passes), one ask, two
  requests, the seeded rule of the corridor from Japan to Portugal.

`MaxClock`, `MaxFaults`, `MaxOps`, `MaxListings`, `MaxRemovals`, `MaxQueue`,
`MaxWork` and `max` of a table bound counters and nothing else. Accounts, Desk
and Evaluations treat interchangeable names as such (`SYMMETRY`); their
properties are invariants and action properties. `CHECK_DEADLOCK FALSE` is used
where the model runs out of something that the system does not: Engine (a list
that is full has no next row), Accounts (no link or session is left) and Desk (no
row can be added and nothing is left to do with those there).

### What the code does not promise
Properties are stated under the conditions under which the code keeps them. What
happens outside of these conditions:

- A web recompute does not record its ruleset (`server.go:915`), so after a
  deployment verdicts name one that table `rulesets` lacks until the next night.
- An overwrite of a verdict is not of "identical content" (`ledger.go:96`): the
  freshness gate depends on the time of the run, which is not in the key.
- A corrupt price, which a compute run skips, stops the harness (`ledger.go:134`).
- A compute run that read before a purge can save after the clearing, and a
  clearing that failed is reported as done (`syncprod/main.go:38`).
- A run killed between a delist event and its mark delists again
  (`ebay.go:220`); a listing that came back after its mark is never delisted
  again (`ebay.go:165`).
- A run killed between a mail and its mark sends it again, and so does news that is
  dated after the start of the run that tells it, because that start is the mark
  (`alerts.go:71`). News dated in the second in which a run starts that arrives after
  its row was counted is never told by a row that this run marks, nor is a sale dated
  before the last alert; one pasted with a date to come is told every night until
  then (`alerts.go:49`). A user gets
  a mail per row, not per run (`alerts.go:46`). An address that always errs
  starves the rows behind it (`alerts.go:69`).
- The harness prints FAIL for any cell with evidence newer than its verdict
  although nothing is wrong, and for one with rows whose cell fields have blanks
  around them or capitals that are not ASCII (`ledger.go:119` beside
  `engine.go:119`); `cmd/reproduce` is meant to exit 0 at 100 %.
- A verdict depends on the order of rows when prices are far apart, because the
  trim lays its band around the middle of an unsorted list (`engine.go:315`).
- After an outage longer than the grace, one answer that leaves a listing out
  delists it while it is up (`ebay.go:196`).
- Two confirmations of a link at once both get a session, and one that fails after
  the mark burns the link (`auth.go:92`). A form whose session ends between its
  two lookups writes a row of user 0 (`server.go:586`), if its connection does not
  enforce foreign keys.
- A reviewed report stays open and can be verified again; one whose currency
  cannot be converted enters with its own number as dollars (`server.go:781,801`).
  One sale can be two events when its price is spelled in two ways, '125' and
  '125.00', or with its premium in the text and in the form (`ledger.go:74`,
  `curator.go:158`): both are evidence. "The band is live immediately"
  (`server.go:738`) does not hold if another compute run overlaps: the price is in a
  stored verdict, but an older one can be read, for good (`ledger.go:108`).
  Two requests on one staged line can ledger it with two premiums, or after it was
  discarded (`server.go:737`). A staged line without a rate enters with no dollars
  (`curator.go:162`), which is the corrupt price above.
- An unresolved lot is queued for review again by every run (`ingest.go:230`). One
  sale that cannot be fetched ends every run before the sales after it
  (`cmd/ingest/main.go:72`). When the catalogue learns a reference between two
  runs, the same lot can be in the ledger under two. A hammer time that does not
  parse becomes the year 1 (`bonhams.go:149`).
- A listing that was stored as "needs review" stays so for good
  (`evaluate.go:373`). The default shipping is 180 in whatever
  currency (`landedcost.go:182`).
- The slug of a corridor to the United Kingdom has two country codes in a Go map,
  so that its page is found or not by chance (`corridor.go:20`, `server.go:986`).

### Fairness
`scripts/prod-start.sh` starts the nightly steps for ever, whatever the last
ones did: weak fairness of `NightlyRun`, `Start`, `AllWatchers` and, in
AuctionIngest, of whatever the nightly process does next (`Go`); nothing of the
operator's. A process that runs goes on: weak fairness of each of its steps. Nothing is promised of
sellers, curators, watchers, deployments, the clock of the store, or of failures,
which stop only because `MaxFaults` bounds them. In EbayIngest a day does pass
between two runs (`sleep 86400`), hence strong fairness of `NextDay`, which runs
keep disabling and enabling. "In the end" in these properties therefore means:
once events and faults have stopped.

## 4. The proofs

For every value of the constants: sets of any size, every bound, every trim and
dispersion test, every catalogue, table of rates and corridor rule. Nothing is
assumed but the named assumptions of the modules, which TLC evaluates in the
runs. (Of these, four say more than the type of a constant: prices, rates and
percentages are not negative in Evaluations; no auction house of Desk is called
"user_reported", as in the list of houses of `curator.go`; the clock of Alerts starts later than
any lag, so that no date is before 1970; and prices are not negative in Engine,
where a verdict needs at least one sample and `HalfLives`, to which weights are
scaled, is as large as the age of the oldest row.)

Store, harness and operator's tool (`StoreProofs`):

| theorem | states | argument |
|---|---|---|
| `TypeCorrect` | `Spec => []TypeOK` | inductive as it stands |
| `SnapshotCorrect` | `Spec => []EvidenceIsSnapshot` | strengthened with `RowsAreSnapshot`: the rows that a saving run holds are the readable rows of *one* prefix of the ledger. Without it `Save` could store anything; with it, and because a prefix stays a prefix when the ledger grows, the saved evidence is a snapshot however late it is saved |
| `ReproduciblyStored` | `Spec => []StoredClaimReproduces` | an upsert replaces the whole claim, so no half of an old one survives |
| `Refinement` | `Spec => KeepsPromise` | each `Save` is a `Publish` of the prefix that `RowsAreSnapshot` gives, or a stutter when it overwrites a claim that differs in time and freshness only; every append is a `Record` or a stutter |
| `NeverBlamesTheCode` | `HSpec => []FailOnlyOnNewEvidence` | the harness holds a verdict that reproduces (`HeldReproduces`, from `StoredClaimReproduces`), and reads evidence that covers the verdict's (`ReadCovers`, from the snapshot and the growth of the ledger); if the two are equal, the recomputed claim is the stored one |
| `HarnessTypeCorrect` | `HSpec => []HTypeOK` | inductive with `TypeOK`: what the harness loads is a row of the store |
| `HarnessRefinement` | `HSpec => KeepsPromise` | `NextPromise` again for the store's steps; the harness's own steps leave the ledger and the verdicts alone |
| `ToolTypeCorrect` | `OSpec => []OTypeOK` | the rows a DELETE leaves, in their order, are a ledger again |
| `ReproduciblyStoredUnderTool` | `OSpec => []StoredClaimReproduces` | the tool only deletes verdicts, and what a run saves follows from what it read, whatever has left the ledger since |
| `QuietPurgesAreClean` | `OSpec => []QuietPurgeIsClean` | strengthened with `QuietInv`: while the tool works in quiet no run is under way, and after it runs hold no row that is not in the ledger, so what they save rests on nothing that was purged, however late |

The verdict computation (`EngineProofs`), for lists of any rows, of any length and
in any order, and all thresholds:

| theorem | states | argument |
|---|---|---|
| `RangesAreWithinABand` | `Spec => []RangeWithinBand` | whatever row the band is laid around, it is a row of the list (`AsReadPlace`), and the ends of one band are eleven apart; the second pass only takes away |
| `RangesHoldTheMiddle` | `Spec => []RangeHoldsTheMiddle` | the rows between two places are as many as the places (`PlacesBetween`); with one age the weighted median is at place (n-1)/2 (`MedianInTheMiddle`) |
| `TimeMovesNothingElse` | `Spec => []OnlyFreshnessAges` | a later day divides every sum of weights by the same power of two (`WeightScales`), so half of the weight is reached at the same row |
| `VerdictsAreOrderFree` | `Spec => []OrderFreeWhenClose` | the price at a place is fixed by how many rows lie under it and up to it, the median by how much weight does (`SortedCounts`, `MedianCounts`), and a permutation changes neither; `OrderFree` says so for *every* permutation of a list, not only the two shuffles of the run |

They rest on two lemmas that replace induction over data. A place in an order is
taken because "how many come before" is an injection into as many numbers as there
are rows (`PlaceTaken`). A sum over a set is what one of its elements adds to the
sum over the others (`WeightSplit`), by induction over the subsets of the set: the
subsets for which a claim fails have no smallest one (`SubsetInduction`, from the
library's theorem on well-founded relations that takes a set and not an operator).
That 2^(a+b) is 2^a times 2^b (`PowerSum`) comes from counting subsets.

Around them, `Spec => []Inv` or `Spec => [][A]_vars` each; every module also has
`TypeCorrect`.

| module | theorem: property | inductive invariant, and why it is needed |
|---|---|---|
| `AccountsProofs` | `SessionsAreForTheirAddress`: `SessionIsForItsAddress`; `LinksAreSpentOnce`: `OneSessionPerLink` with `LinkSpentOnSession`, and `LinksBuySessions`: the second alone; `RowsAreOwned`: `RowsHaveOwners`; `LoginRefinement`: `KeepsLoginPromise` | `SessionInv`, `LinkInv`, `RowInv`, `UnmarkedUnused`: a request half way through a confirmation holds a link that was mailed, its user, and, unless the link is contested, nobody else confirms it and no session of it is there yet; the session of a form that was let in is still there, or `cut` says otherwise. For the refinement, an uncontested confirmation that has not marked its link finds it unused, so its mark is no step of the promise, its insert a `Grant`, and its failure in between a `Burn` |
| `AuctionProofs` | `MigrationsTakeEffectOnce`: `MigratedOnce` | `MigrateInv`: migrations are applied in order, and every program is past what it found applied, so what it applies is the next one or a conflict |
| | `NothingIsGuessed`: `NeverGuesses` | no invariant but the types: that `Lookup` finds a reference just when `Says` does, and the same one (`LookupSays`), and that `FirstHit` takes the first candidate with one (`FirstHitFinds`) give each `ResolveLot`; the other steps put nothing new into a hand, and only hands into the ledger (`FairStep`) |
| | `SalesAreEnteredOnce`: `OneRowPerSale` | `OnceInv`: as long as the catalogue is the first one, row and lot in hand have the reference of the lot's first hit, whoever resolved it and when |
| | `NoLotIsLeftBehind`: `NoLotLeftBehind` | `LeftInv`: of the page of a sale, what a run has no longer to do is settled; tables only grow, so it stays settled |
| `DeskProofs` | `LedgedLinesAreBacked`: `LedgedLineIsBacked` | `BackedInv`: also of the requests between the append and the mark |
| | `QuietLinesHaveOnePrice`: `QuietLineHasOnePrice` | `QuietInv`: what was appended for a row that is not upset, by how far the one request on it is |
| | `LedgedLinesAreComputed`: `LedgedLineIsComputed` | `ComputedInv`: of a ledged row that is not upset, each event with dollars is in a stored verdict, or the request on the row has its SELECT still to do, or has seen the event and not yet saved its cell. No other run matters, since verdicts are only added |
| | `LedgedLinesAreLive`: `LedgedLineIsLive` | `ChainInv`: while no two runs have overlapped, the evidence of every stored verdict of a cell is part of the latest's, and a run under way has seen the latest's: what it saves can only add to it |
| `EvaluationsProofs` | `BundlesAreOfOnePiece`: `BundleIsConsistent` | `BundleInv`: the same of the bundles under computation, step by step, and that an unmoved one has seen the latest rates; that a landed cost is a sum of its lines for all rules and rates is a lemma on LandedCost |
| | `PermalinksAreForGood`: `PermalinkIsForGood` | `LandingInv`: where somebody was sent, there is a bundle of that listing |
| `EbayProofs` | `AsksGiveGrace`: `AskGivesGrace` | `GraceInv`: `ebay_items` never says that a listing was seen longer ago than its last ask, but between the two writes; and what is about to be delisted was not seen within the grace |
| | `DelistedOnce`: `DelistOnce` | `OnceInv`: an event is followed by its mark, what is marked is not delisted, and what is known was up |
| `AlertsProofs` | `NothingIsToldTwice`: `NothingToldTwice` | `ToldInv`: rows of the watchlist, and the run's copies of them, are marked at or after the dates of all they were told of, but for what was dated after the start of the run that told of it, and for the row whose mail is out and whose mark is not; it needs that a watch has one row (`TypeInv`), also in the copy |

Model-checked only: liveness (`EventuallyStored`, `ServedInTurn`,
`EventuallyDelisted`, `NewsToldInTime`, `EventuallySettled`), because fairness and
ENABLED are out of the prover's reach. Every invariant and every action property of
the runs is a theorem; `OneSessionPerLink` is one that no run lists, because
`KeepsLoginPromise` says more.

## 5. Not modelled, and why

- Hash collisions, and cells whose fields contain `|`.
- Raw documents: nothing reads their content back.
- Receipts, confidence labels, templates, pages and robots: presentation.
- Mail transports, HTTP clients, the eBay token cache: I/O; a mail is sent or
  refused, a search answered or not, a page fetched or not.
- What parsers read off a text or a page (`ParseLine`, the reference patterns, the
  Bonhams lot parser): given by parameters, any outcome of which is covered by
  the proofs. Regular expressions are not what a model checker is good at.
- The slugs of corridor pages and the landed-cost form: pure lookups without
  state; the form calls the same `Compute` with a shipping of its own.
- The catalogue rows that `cmd/syncprod` imports: to the other parts, a catalogue
  that grows.
- The PRAGMAs of `store.Open`, but for what they leave undone: statements that fail
  on a busy database, foreign keys that are not enforced.
- Developer tools (`devseed`, `gengolden`, `probe`, `seedcatalogue`).

## 6. Plan

Everything in the table of section 1 is modelled. What could follow:

1. the composition: VerdictStore with AuctionIngest and Desk as its writers instead
   of the plain `Ingest`, and Alerts reading the ledger they write. Each is modelled
   against the table it writes, of which the others assume nothing, so that what
   is proved of each holds in the composition too; properties across them (a lot
   that is sold is told of) would be new;
2. the abstract specification of a staged line, with a ledgering as one step, as
   LoginPromise has it for a link, and of a listing's life on eBay;
3. the ledger as one abstract specification that AuctionIngest, Desk and
   VerdictStore implement: a row is entered once for its content hash and then
   stays as it is.
