------------------------------- MODULE Desk ---------------------------------
(***************************************************************************)
(* The founder's desk: auction lines pasted into staging and ledgered by   *)
(* hand (internal/curator and the curator handlers of internal/httpx), and *)
(* the review of users' price reports (handleReportVerify).                *)
(*                                                                         *)
(* Ledgering a line is a SELECT, an append, an UPDATE of the staged row    *)
(* and a recompute, without a transaction; the answer of the UPDATE is not *)
(* looked at.  The recompute is a SELECT and then one upsert per cell      *)
(* (VerdictStore has it with failures, rulesets and gates).  The handlers  *)
(* are goroutines, and the nightly engine runs beside them.                *)
(*                                                                         *)
(* A line stands for its text: what ParseLine finds in it is given by      *)
(* house, keys, price and day; every line has a price and a currency.      *)
(* Amounts are in one currency that is not the dollar; the dollars of an   *)
(* observation are the rates they were converted with.  Every cell has     *)
(* realised prices enough for a verdict from elsewhere, and one is stored  *)
(* on them; evidence means what the desk has added.                        *)
(***************************************************************************)
EXTENDS Catalogue, Sequences

CONSTANTS
  Line,         \* pasted texts
  house,        \* Line -> House, "" when none is named
  keys,         \* Line -> candidates for a reference, in order
  price,        \* Line -> Amount
  day,          \* Line -> day of the sale, or NoDay
  NoDay,
  Report,       \* price reports, as submitted: [ref, price, day]
  Premium,      \* premiums in percent, 0 for an empty field
  Rates,        \* rates that can be the latest when a request loads them
  NoRates,      \* no rate for the currency
  Cell,
  cellOf,       \* Ref -> cell of the reference in the catalogue
  Request,
  Nightly,      \* the process of the nightly engine
  MaxWork       \* bound on the rows staged and reports reviewed

\* A decimal string: its amount, and how many decimals it is written with.
Amount == [cents : Nat, decimals : 0..2]
Runner == Request \cup {Nightly}

ASSUME DeskAssumption ==
  /\ NoRates \notin Rates /\ MaxWork \in Nat /\ Premium \subseteq Nat
  /\ price \in [Line -> Amount] /\ day \in [Line -> Nat \cup {NoDay}]
  /\ \A l \in Line : house[l] # "user_reported"
  /\ Report \subseteq [ref : Ref, price : Amount, day : Nat]
  /\ cellOf \in [Ref -> Cell] /\ Nightly \notin Request

VARIABLES
  catalogue,    \* references known
  staged,       \* table curator_results, by id
  observations, \* table observations, [event, usd]
  rejected,     \* the reports with status 'rejected'
  verdicts,     \* table verdict_content by cell: the evidence of its rows
  latest,       \* by cell, that of the row with the newest created_at
  run,          \* compute runs: the events seen, the cells left to save
  req,          \* what each request has done so far
  \* what happened, for the properties; no part of the program
  upset,        \* rows with two requests at once, or with a failed statement
  entered,      \* <<row, event>>: appended for a row that is not upset
  late,         \* rows not upset that were discarded after they were ledged
  crowded       \* two compute runs overlapped, or stored two verdicts of a
                \* cell in one second

desk    == <<catalogue, staged, rejected>>
compute == <<verdicts, latest, run, crowded>>
history == <<upset, entered, late>>
vars    == <<desk, observations, compute, req, history>>

Idle  == [at |-> "idle"]
NoRun == [seen |-> {}, left |-> {}]
Computing(p) == run[p].left # {}
WorksOn(q, i) == req[q] # Idle /\ req[q].row = i
WorkedOn(i) == \E q \in Request : WorksOn(q, i)
Rows == 1 .. Len(staged)

Reported == {o \in observations : o.event.source = "user_reported"}
Work == Len(staged) + Cardinality(Reported) + Cardinality(rejected)

\* From here on the history of row i says nothing.
Upset(i) ==
  /\ upset' = upset \cup {i}
  /\ entered' = {x \in entered : x[1] # i}
  /\ late' = late \ {i}

\* Something happens to row i: it is upset if a request works on it.
Touch(i) == IF WorkedOn(i) THEN Upset(i) ELSE UNCHANGED history

\* ledger.ContentHash: source, reference, price and day.  The price is hashed
\* as it is spelled: '125' and '125.00' are two events.  The kind goes with
\* the source, the currency is one, and the desk has no URL; neither the
\* pasted text nor the dollars are part of it.
Event(source, ref, amount, d) ==
  [source |-> source, ref |-> ref, price |-> amount, day |-> d]

\* The price as it is spelled in the line, or, with a buyer's premium, the
\* sum rounded and spelled with two decimals.
Total(l, pct) ==
  IF pct = 0 THEN price[l]
  ELSE [cents |-> (price[l].cents * (100 + pct) + 50) \div 100, decimals |-> 2]

\* AppendObservation: INSERT OR IGNORE on the content hash.
AppendObservation(o) ==
  observations' = IF \E x \in observations : x.event = o.event
                  THEN observations ELSE observations \cup {o}

-----------------------------------------------------------------------------
Init ==
  /\ catalogue \in SUBSET Ref
  /\ staged = <<>> /\ observations = {} /\ rejected = {}
  /\ verdicts = [c \in Cell |-> {{}}] /\ latest = [c \in Cell |-> {}]
  /\ run = [p \in Runner |-> NoRun]
  /\ req = [q \in Request |-> Idle]
  /\ upset = {} /\ entered = {} /\ late = {} /\ crowded = FALSE

\* The catalogue grows.
Learn(r) ==
  /\ r \notin catalogue
  /\ catalogue' = catalogue \cup {r}
  /\ UNCHANGED <<staged, rejected, observations, compute, req, history>>

\* handleCuratorParse, for one line.  PreviewRow: the first candidate that
\* resolves.  The same text can be pasted again.
Paste(l) ==
  /\ Work < MaxWork
  /\ LET ref == FirstHit(catalogue, keys[l])
     IN  staged' = Append(staged, [line |-> l, ref |-> ref, obs |-> {},
             status |-> IF ref = NoRef THEN "unresolved" ELSE "parsed"])
  /\ UNCHANGED <<catalogue, rejected, observations, compute, req, history>>

\* Slip: the status of the row is not asked for.
LoadAnyLine(q, i) ==
  /\ req[q] = Idle
  /\ staged[i].ref # NoRef
  /\ req' = [req EXCEPT ![q] = [at |-> "loaded", row |-> i]]
  /\ Touch(i)
  /\ UNCHANGED <<desk, observations, compute>>

\* handleCuratorLedger: the row, if its status is 'parsed'.  Otherwise, or
\* without a table of rates, an error page.
LoadLine(q, i) ==
  /\ req[q] = Idle
  /\ staged[i].status = "parsed"
  /\ req' = [req EXCEPT ![q] = [at |-> "loaded", row |-> i]]
  /\ Touch(i)
  /\ UNCHANGED <<desk, observations, compute>>

LoadedLine(q) == staged[req[q].row].line

\* Slip: a date that does not parse is ledgered as the zero time.
LedgerLineUndated(q, pct) ==
  /\ req[q].at = "loaded"
  /\ LET l == LoadedLine(q)
         e == Event(house[l], staged[req[q].row].ref, Total(l, pct), day[l])
     IN  /\ \E x \in Rates \cup {NoRates} : AppendObservation([event |-> e, usd |-> x])
         /\ req' = [req EXCEPT ![q] = [at |-> "ledged", row |-> @.row, obs |-> e]]
  /\ UNCHANGED <<desk, compute, history>>

\* curator.Ledger with the premium of the form: the append, then the SELECT
\* of the event's row.
LedgerLine(q, pct) ==
  /\ req[q].at = "loaded"
  /\ LET l == LoadedLine(q)
         e == Event(house[l], staged[req[q].row].ref, Total(l, pct), day[l])
     IN  /\ e.ref \in catalogue /\ e.day # NoDay
         /\ \E x \in Rates \cup {NoRates} : AppendObservation([event |-> e, usd |-> x])
         /\ entered' = IF req[q].row \in upset THEN entered
                       ELSE entered \cup {<<req[q].row, e>>}
         /\ req' = [req EXCEPT ![q] = [at |-> "ledged", row |-> @.row, obs |-> e]]
  /\ UNCHANGED <<desk, compute, upset, late>>

\* curator.Ledger fails before the append: the reference is not known, the
\* date does not parse, or no house was named and the connection is the one
\* that enforces foreign keys.
RefuseLine(q) ==
  /\ req[q].at = "loaded"
  /\ \/ staged[req[q].row].ref \notin catalogue
     \/ day[LoadedLine(q)] = NoDay \/ house[LoadedLine(q)] = ""
  /\ req' = [req EXCEPT ![q] = [at |-> "refused", row |-> @.row]]
  /\ UNCHANGED <<desk, observations, compute, history>>

\* curator.Ledger fails in the database, before or after the append.
BreakLine(q) ==
  /\ req[q].at \in {"loaded", "ledged"}
  /\ req' = [req EXCEPT ![q] = [at |-> "refused", row |-> @.row]]
  /\ Upset(req[q].row)
  /\ UNCHANGED <<desk, observations, compute>>

\* Slip: the row is linked to the last observation of the ledger, which is
\* another one when the insert was ignored.
MarkWithLastObservation(q) ==
  /\ req[q].at = "ledged"
  /\ \E o \in observations :
       staged' = [staged EXCEPT ![req[q].row] =
                     [@ EXCEPT !.status = "ledged", !.obs = {o.event}]]
  /\ req' = [req EXCEPT ![q] = [at |-> "marked", row |-> @.row]]
  /\ UNCHANGED <<catalogue, rejected, observations, compute, history>>

\* Slip: no recompute when another line has entered the event.
MarkAndRecomputeIfNew(q) ==
  /\ req[q].at = "ledged"
  /\ staged' = [staged EXCEPT ![req[q].row] =
                   [@ EXCEPT !.status = "ledged", !.obs = {req[q].obs}]]
  /\ req' = [req EXCEPT ![q] =
       IF \E i \in Rows \ {req[q].row} : staged[i].obs = {req[q].obs}
       THEN Idle ELSE [at |-> "marked", row |-> @.row]]
  /\ UNCHANGED <<catalogue, rejected, observations, compute, history>>

\* The UPDATE of the row after curator.Ledger, whatever its status is now.
MarkLedged(q) ==
  /\ req[q].at = "ledged"
  /\ staged' = [staged EXCEPT ![req[q].row] =
                   [@ EXCEPT !.status = "ledged", !.obs = {req[q].obs}]]
  /\ req' = [req EXCEPT ![q] = [at |-> "marked", row |-> @.row]]
  /\ UNCHANGED <<catalogue, rejected, observations, compute, history>>

MarkUnresolved(q) ==
  /\ req[q].at = "refused"
  /\ staged' = [staged EXCEPT ![req[q].row] = [@ EXCEPT !.status = "unresolved"]]
  /\ req' = [req EXCEPT ![q] = Idle]
  /\ UNCHANGED <<catalogue, rejected, observations, compute, history>>

\* The UPDATE fails unseen and the handler goes on.
LoseMark(q) ==
  /\ req[q].at \in {"ledged", "refused"}
  /\ req' = [req EXCEPT ![q] =
       IF @.at = "ledged" THEN [at |-> "marked", row |-> @.row] ELSE Idle]
  /\ Upset(req[q].row)
  /\ UNCHANGED <<desk, observations, compute>>

\* The evidence: positive realised prices with dollars.
Realised == {o.event : o \in {x \in observations :
               /\ x.usd # NoRates /\ x.event.price.cents > 0
               /\ x.event.source # "user_reported"}}

InCell(c, S) == {e \in S : cellOf[e.ref] = c}

\* The SELECT of RunCompute.
Select(p) ==
  /\ run' = [run EXCEPT ![p] =
        [seen |-> Realised, left |-> {cellOf[e.ref] : e \in Realised}]]
  /\ crowded' = (crowded \/ \E x \in Runner \ {p} : Computing(x))
  /\ UNCHANGED <<verdicts, latest>>

\* recomputeEngine, at the end of handleCuratorLedger.
Recompute(q) ==
  /\ req[q].at = "marked"
  /\ req' = [req EXCEPT ![q] = [at |-> "computing", row |-> @.row]]
  /\ Select(q)
  /\ UNCHANGED <<desk, observations, history>>

\* cmd/engine.
NightlyRun ==
  /\ ~Computing(Nightly)
  /\ Select(Nightly)
  /\ UNCHANGED <<desk, observations, req, history>>

\* Cell c of run p is done.
Tick(p, c) ==
  run' = [run EXCEPT ![p] =
    IF @.left = {c} THEN NoRun ELSE [seen |-> @.seen, left |-> @.left \ {c}]]

\* Slip: a new verdict takes the created_at of the first one of its cell.
SaveAsOld(p, c) ==
  /\ c \in run[p].left
  /\ verdicts' = [verdicts EXCEPT ![c] = @ \cup {InCell(c, run[p].seen)}]
  /\ Tick(p, c)
  /\ UNCHANGED <<desk, observations, latest, crowded, req, history>>

\* SaveVerdictContent.  A verdict on evidence that has one is an update that
\* keeps the row's created_at.  A new row is the latest, unless the latest is
\* of the same second: then either can be read.
Save(p, c) ==
  LET S == InCell(c, run[p].seen)
  IN  /\ c \in run[p].left
      /\ verdicts' = [verdicts EXCEPT ![c] = @ \cup {S}]
      /\ \/ S \in verdicts[c] /\ UNCHANGED <<latest, crowded>>
         \/ /\ S \notin verdicts[c]
            /\ latest' = [latest EXCEPT ![c] = S] /\ UNCHANGED crowded
         \/ /\ S \notin verdicts[c]
            /\ crowded' = TRUE /\ UNCHANGED latest
      /\ Tick(p, c)
      /\ UNCHANGED <<desk, observations, req, history>>

\* The recompute is done and the handler redirects.
Redirect(q) ==
  /\ req[q].at = "computing" /\ ~Computing(q)
  /\ req' = [req EXCEPT ![q] = Idle]
  /\ UNCHANGED <<desk, observations, compute, history>>

\* The process dies, or the recompute fails and is only logged; a run that
\* had begun is cut off.
Die(q) ==
  /\ req[q] # Idle
  /\ req' = [req EXCEPT ![q] = Idle]
  /\ run' = [run EXCEPT ![q] = NoRun]
  /\ Upset(req[q].row)
  /\ UNCHANGED <<desk, observations, verdicts, latest, crowded>>

KillNightly ==
  /\ Computing(Nightly)
  /\ run' = [run EXCEPT ![Nightly] = NoRun]
  /\ UNCHANGED <<desk, observations, verdicts, latest, crowded, req, history>>

\* handleCuratorDiscard: whatever the row's status is.
Discard(i) ==
  /\ staged[i].status # "discarded"
  /\ staged' = [staged EXCEPT ![i] = [@ EXCEPT !.status = "discarded"]]
  /\ IF staged[i].status = "ledged" /\ ~WorkedOn(i) /\ i \notin upset
     THEN late' = late \cup {i} /\ UNCHANGED <<upset, entered>>
     ELSE Touch(i)
  /\ UNCHANGED <<catalogue, rejected, observations, compute, req>>

\* handleReportVerify, action 'verify': the report's price enters the ledger,
\* as its own dollars if there is no rate.  No status is asked for; the one
\* written is the action, which the table's CHECK refuses, and the error is
\* dropped.
VerifyReport(r) ==
  /\ Work < MaxWork
  /\ \E x \in Rates \cup {NoRates} :
       AppendObservation([event |-> Event("user_reported", r.ref, r.price, r.day),
                          usd |-> x])
  /\ UNCHANGED <<desk, compute, req, history>>

\* handleReportVerify, action 'rejected'.
RejectReport(r) ==
  /\ r \notin rejected /\ Work < MaxWork
  /\ rejected' = rejected \cup {r}
  /\ UNCHANGED <<catalogue, staged, observations, compute, req, history>>

Next ==
  \/ \E r \in Ref : Learn(r)
  \/ \E l \in Line : Paste(l)
  \/ \E q \in Request, i \in Rows : LoadLine(q, i)
  \/ \E q \in Request, pct \in Premium : LedgerLine(q, pct)
  \/ \E q \in Request : RefuseLine(q)
  \/ \E q \in Request : BreakLine(q)
  \/ \E q \in Request : MarkLedged(q)
  \/ \E q \in Request : MarkUnresolved(q)
  \/ \E q \in Request : LoseMark(q)
  \/ \E q \in Request : Recompute(q)
  \/ NightlyRun
  \/ \E p \in Runner, c \in Cell : Save(p, c)
  \/ \E q \in Request : Redirect(q)
  \/ \E q \in Request : Die(q)
  \/ KillNightly
  \/ \E i \in Rows : Discard(i)
  \/ \E r \in Report : VerifyReport(r)
  \/ \E r \in Report : RejectReport(r)

Spec == Init /\ [][Next]_vars

-----------------------------------------------------------------------------
EventRow == [source : {house[l] : l \in Line} \cup {"user_reported"},
             ref : Ref, price : Amount, day : Nat]
StagedRow == [line : Line, ref : Ref \cup {NoRef}, obs : SUBSET EventRow,
              status : {"parsed", "ledged", "discarded", "unresolved"}]

\* A request works on a staged row.
RequestState ==
       {Idle}
  \cup [at : {"ledged"}, row : Rows, obs : EventRow]
  \cup [at : {"loaded", "refused", "marked", "computing"}, row : Rows]

\* The shape of the state: what enters the ledger has a reference and a date.
TypeOK ==
  /\ catalogue \subseteq Ref
  /\ staged \in Seq(StagedRow)
  /\ observations \subseteq [event : EventRow, usd : Rates \cup {NoRates}]
  /\ rejected \subseteq Report
  /\ verdicts \in [Cell -> SUBSET SUBSET EventRow] /\ latest \in [Cell -> SUBSET EventRow]
  /\ run \in [Runner -> [seen : SUBSET EventRow, left : SUBSET Cell]]
  /\ req \in [Request -> RequestState]
  /\ entered \subseteq Rows \X EventRow
  /\ upset \subseteq Rows /\ late \subseteq Rows /\ crowded \in BOOLEAN

(* A row marked 'ledged' points at an observation of its own sale: the     *)
(* house, the reference and the day of its line, and its price with some   *)
(* premium; also when the ledger had that event from another line, and     *)
(* whatever other requests and failures came in between.                   *)
LedgedLineIsBacked ==
  \A i \in Rows : staged[i].status = "ledged" =>
    \E o \in observations, pct \in Premium :
      /\ staged[i].obs = {o.event}
      /\ o.event = Event(house[staged[i].line], staged[i].ref,
                         Total(staged[i].line, pct), day[staged[i].line])

(* "Every row is human-confirmed": a row that one request at a time worked *)
(* on, without a failed statement, has put one price into the ledger if it *)
(* was ledged and none otherwise.                                          *)
QuietLineHasOnePrice ==
  \A i \in Rows \ upset :
    LET events == {x[2] : x \in {y \in entered : y[1] = i}}
    IN  /\ Cardinality(events) <= 1
        /\ ~WorkedOn(i) =>
             (events # {} <=> staged[i].status = "ledged" \/ i \in late)

\* The request that ledged row i is over, and nothing went wrong on it.
LedgedInPeace(i) == staged[i].status = "ledged" /\ ~WorkedOn(i) /\ i \notin upset

(* Once the request that ledged a row is over, the row's price, if it has  *)
(* dollars, is evidence of a stored verdict of its cell, however compute   *)
(* runs overlap and are cut off, and whichever line entered the event.     *)
LedgedLineIsComputed ==
  \A i \in Rows : LedgedInPeace(i) =>
    \A e \in staged[i].obs \cap Realised : \E S \in verdicts[cellOf[e.ref]] : e \in S

(* "The band is live immediately": the verdict that is read for the cell   *)
(* rests on the row's price, and keeps doing so, as long as no two compute *)
(* runs overlap and no second stores two verdicts of a cell.  (When they   *)
(* do, an older verdict can be the one that is read: EventuallyServed of   *)
(* VerdictStore.)                                                          *)
LedgedLineIsLive ==
  ~crowded =>
    \A i \in Rows : LedgedInPeace(i) =>
      \A e \in staged[i].obs \cap Realised : e \in latest[cellOf[e.ref]]
=============================================================================
