---------------------------- MODULE VerdictStore ----------------------------
(***************************************************************************)
(* The core of WatchLedger: an append-only ledger of price events, and the *)
(* content-addressed verdicts that compute runs store from it.             *)
(*                                                                         *)
(* A run of ledger.RunCompute is one SELECT over the ledger followed by    *)
(* one upsert per cell, each of them its own SQLite transaction.  Runs are *)
(* started by two kinds of process that share the database file and no     *)
(* lock: the nightly cmd/engine, and a web handler after a curator ledgers *)
(* a sale.  Every action below is one such transaction.                    *)
(*                                                                         *)
(* Hashes are collision free here: the inputs hash of a verdict is its     *)
(* cell and its evidence set, the hash of a ruleset the ruleset itself.    *)
(***************************************************************************)
EXTENDS EvidenceRules

CONSTANTS
  Nightly,      \* the cmd/engine process of the nightly loop
  Web,          \* web request goroutines that recompute
  MaxClock,     \* bound on the clock
  MaxFaults     \* bound on failed and killed runs

Worker == {Nightly} \cup Web

ASSUME BoundAssumption ==
  MaxClock \in Nat /\ MaxFaults \in Nat /\ Nightly \notin Web

VARIABLES
  ledger,     \* table observations, in rowid order
  verdicts,   \* table verdict_content
  rulesets,   \* table rulesets
  current,    \* engine.Current of the deployed binaries
  clock,      \* the wall clock
  faults,     \* runs that failed or were killed so far
  pc,         \* where each worker is in a compute run
  now,        \* the time each run took when it started
  rows,       \* the rows each run read
  todo        \* the cells each run has still to compute

run  == <<pc, now, rows, todo>>
vars == <<ledger, verdicts, rulesets, current, clock, faults, run>>

\* The rows that are in the ledger now.
Recorded == Prefix(ledger, Len(ledger))

\* The primary key of verdict_content.
SameAddress(v, w) ==
  v.cell = w.cell /\ v.inputs = w.inputs /\ v.rules = w.rules

\* Slip: the engine reads the clock instead of taking the time as argument.
ComputeVerdictByClock(c, S, r, t) ==
  [cell |-> c, inputs |-> S, rules |-> r, range |-> Kept(S),
   failing |-> FailingGates(S, r, clock), computedAt |-> t, createdAt |-> clock]

\* The row that a run with evidence S, ruleset r and time t asks to store.
ComputeVerdict(c, S, r, t) ==
  [cell |-> c, inputs |-> S, rules |-> r, range |-> Kept(S),
   failing |-> FailingGates(S, r, t), computedAt |-> t, createdAt |-> clock]

\* Slip: ORDER BY created_at without DESC.
LatestAscending(c) ==
  LET stored == {v \in verdicts : v.cell = c /\ v.rules = current}
  IN  {v \in stored : \A w \in stored : v.createdAt <= w.createdAt}

\* LoadLatestVerdictContent: some row of the newest second, when rows tie.
Latest(c) ==
  LET stored == {v \in verdicts : v.cell = c /\ v.rules = current}
  IN  {v \in stored : \A w \in stored : w.createdAt <= v.createdAt}

-----------------------------------------------------------------------------
Init ==
  /\ ledger = <<>>
  /\ verdicts = {}
  /\ rulesets = {}
  /\ current \in Ruleset
  /\ clock = 0
  /\ faults = 0
  /\ pc   = [w \in Worker |-> "idle"]
  /\ now  = [w \in Worker |-> 0]
  /\ rows = [w \in Worker |-> {}]
  /\ todo = [w \in Worker |-> {}]

\* INSERT OR IGNORE: an event that is in the ledger already is dropped.
AppendObservation(e) ==
  ledger' = IF e \in Recorded THEN ledger ELSE Append(ledger, e)

\* INSERT ... ON CONFLICT(version) DO UPDATE: one row per version.
SaveRuleset ==
  rulesets' = {r \in rulesets : r.version # current.version} \cup {current}

\* Slip: one row per cell and ruleset.
SaveVerdictContentByCell(v) ==
  verdicts' = {w \in verdicts : w.cell # v.cell \/ w.rules # v.rules} \cup {v}

\* INSERT ... ON CONFLICT DO UPDATE SET result: an overwritten row keeps the
\* creation time it was first stored with.
SaveVerdictContent(v) ==
  verdicts' = {w \in verdicts : ~SameAddress(w, v)} \cup
              {[v EXCEPT !.createdAt =
                  IF \E w \in verdicts : SameAddress(w, v)
                  THEN (CHOOSE w \in verdicts : SameAddress(w, v)).createdAt
                  ELSE @]}

\* A run begins: RunCompute is called with the time of the call.
Begin(w) ==
  /\ pc[w] = "idle"
  /\ pc'  = [pc EXCEPT ![w] = "begun"]
  /\ now' = [now EXCEPT ![w] = clock]
  /\ UNCHANGED <<rows, todo>>

\* A run ends, and its memory with it.
End(w) ==
  /\ pc'   = [pc EXCEPT ![w] = "idle"]
  /\ now'  = [now EXCEPT ![w] = 0]
  /\ rows' = [rows EXCEPT ![w] = {}]
  /\ todo' = [todo EXCEPT ![w] = {}]

\* An ingest process appends one event.
Ingest(e) ==
  /\ AppendObservation(e)
  /\ UNCHANGED <<verdicts, rulesets, current, clock, faults, run>>

\* cmd/engine: record the ruleset, then start a run.
NightlyRun ==
  /\ Begin(Nightly)
  /\ SaveRuleset
  /\ UNCHANGED <<ledger, verdicts, current, clock, faults>>

\* handleCuratorLedger: append the curated sale, then start a run in process.
\* (The staging row that it also marks is no part of the ledger.)
CuratorRun(w, e) ==
  /\ Begin(w)
  /\ AppendObservation(e)
  /\ UNCHANGED <<verdicts, rulesets, current, clock, faults>>

\* Slip: the SELECT forgets the tier.
SelectAnyKind(w) ==
  /\ pc[w] = "begun"
  /\ pc'   = [pc EXCEPT ![w] = "saving"]
  /\ rows' = [rows EXCEPT ![w] = Recorded \ Corrupt]
  /\ todo' = [todo EXCEPT ![w] = {cellOf[e] : e \in Readable(Recorded)}]
  /\ UNCHANGED <<ledger, verdicts, rulesets, current, clock, faults, now>>

\* Slip: the run goes over rows instead of cells.
SelectUngrouped(w) ==
  /\ pc[w] = "begun"
  /\ pc'   = [pc EXCEPT ![w] = "saving"]
  /\ rows' = [rows EXCEPT ![w] = Readable(Recorded)]
  /\ todo' = [todo EXCEPT ![w] = Readable(Recorded)]
  /\ UNCHANGED <<ledger, verdicts, rulesets, current, clock, faults, now>>

\* The SELECT of RunCompute: one consistent read of the whole ledger.
Select(w) ==
  /\ pc[w] = "begun"
  /\ pc'   = [pc EXCEPT ![w] = "saving"]
  /\ rows' = [rows EXCEPT ![w] = Readable(Recorded)]
  /\ todo' = [todo EXCEPT ![w] = {cellOf[e] : e \in Readable(Recorded)}]
  /\ UNCHANGED <<ledger, verdicts, rulesets, current, clock, faults, now>>

\* Slip: a cell that does not compute ends the run.
SaveOrStop(w, c) ==
  LET S == InCell(c, rows[w])
  IN  /\ pc[w] = "saving" /\ c \in todo[w]
      /\ IF Computable(S, current)
         THEN /\ SaveVerdictContent(ComputeVerdict(c, S, current, now[w]))
              /\ todo' = [todo EXCEPT ![w] = @ \ {c}]
         ELSE UNCHANGED verdicts /\ todo' = [todo EXCEPT ![w] = {}]
      /\ UNCHANGED <<ledger, rulesets, current, clock, faults, pc, now, rows>>

\* One turn of the loop over cells, whose order is that of a Go map.
Save(w, c) ==
  LET S == InCell(c, rows[w])
  IN  /\ pc[w] = "saving" /\ c \in todo[w]
      /\ IF Computable(S, current)
         THEN SaveVerdictContent(ComputeVerdict(c, S, current, now[w]))
         ELSE UNCHANGED verdicts
      /\ todo' = [todo EXCEPT ![w] = @ \ {c}]
      /\ UNCHANGED <<ledger, rulesets, current, clock, faults, pc, now, rows>>

\* Every cell is done.
Finish(w) ==
  /\ pc[w] = "saving" /\ todo[w] = {}
  /\ End(w)
  /\ UNCHANGED <<ledger, verdicts, rulesets, current, clock, faults>>

\* A statement fails (SQLITE_BUSY, disk) and RunCompute returns, or the
\* process dies: what was saved stays, the rest of the cells is not done.
Fail(w) ==
  /\ pc[w] # "idle" /\ faults < MaxFaults
  /\ faults' = faults + 1
  /\ End(w)
  /\ UNCHANGED <<ledger, verdicts, rulesets, current, clock>>

\* A container with a newer ruleset replaces the old one and its processes.
Deploy(r) ==
  /\ r.version > current.version
  /\ current' = r
  /\ pc'   = [w \in Worker |-> "idle"]
  /\ now'  = [w \in Worker |-> 0]
  /\ rows' = [w \in Worker |-> {}]
  /\ todo' = [w \in Worker |-> {}]
  /\ UNCHANGED <<ledger, verdicts, rulesets, clock, faults>>

Tick ==
  /\ clock < MaxClock
  /\ clock' = clock + 1
  /\ UNCHANGED <<ledger, verdicts, rulesets, current, faults, run>>

Next ==
  \/ \E e \in Event : Ingest(e)
  \/ NightlyRun
  \/ \E w \in Web, e \in Event : CuratorRun(w, e)
  \/ \E w \in Worker : Select(w)
  \/ \E w \in Worker, c \in Cell : Save(w, c)
  \/ \E w \in Worker : Finish(w)
  \/ \E w \in Worker : Fail(w)
  \/ \E r \in Ruleset : Deploy(r)
  \/ Tick

Spec == Init /\ [][Next]_vars

\* The nightly loop comes round for ever and a process that runs goes on;
\* nobody promises events, curators, deployments or the passing of time.
Fairness ==
  /\ WF_vars(NightlyRun)
  /\ \A w \in Worker :
       /\ WF_vars(Select(w))
       /\ WF_vars(\E c \in Cell : Save(w, c))
       /\ WF_vars(Finish(w))

FairSpec == Spec /\ Fairness

-----------------------------------------------------------------------------
Verdict ==
  [cell : Cell, inputs : SUBSET Event, rules : Ruleset, range : SUBSET Event,
   failing : SUBSET Gate, computedAt : Nat, createdAt : Nat]

\* The shape of the state.
TypeOK ==
  /\ ledger \in Seq(Event)
  /\ verdicts \subseteq Verdict
  /\ rulesets \subseteq Ruleset
  /\ current \in Ruleset
  /\ clock \in Nat
  /\ faults \in Nat
  /\ pc   \in [Worker -> {"idle", "begun", "saving"}]
  /\ now  \in [Worker -> Nat]
  /\ rows \in [Worker -> SUBSET Event]
  /\ todo \in [Worker -> SUBSET Cell]

(* Whatever runs overlap, fail or are killed, a stored verdict rests on    *)
(* exactly the evidence its cell had after some prefix of the ledger:      *)
(* nothing mixed from two moments, nothing left out, no ask and no corrupt *)
(* price (RunCompute, one SELECT, realised tier only).                     *)
EvidenceIsSnapshot ==
  \A v \in verdicts : \E n \in 0..Len(ledger) : v.inputs = Evidence(v.cell, ledger, n)

(* A stored verdict can be computed again from what it stores: its         *)
(* evidence, its ruleset and its time give its range and its failing       *)
(* gates, although another run may have overwritten the row since          *)
(* (ComputeVerdict takes the time as an argument, and the upsert replaces  *)
(* the whole result).                                                      *)
StoredClaimReproduces ==
  \A v \in verdicts :
    /\ Computable(v.inputs, v.rules)
    /\ v.range = Kept(v.inputs)
    /\ v.failing = FailingGates(v.inputs, v.rules, v.computedAt)

\* The present evidence of a cell, and its verdict among the rows of V.
Present(c) == Evidence(c, ledger, Len(ledger))
AnsweredIn(c, V) ==
  Computable(Present(c), current) =>
    \E v \in V : v.cell = c /\ v.rules = current /\ v.inputs = Present(c)

(* Once events stop coming and runs stop failing, every cell that has      *)
(* enough evidence gets the verdict on all of it and keeps it, whatever    *)
(* the other cells do (a cell that does not compute is skipped, it does    *)
(* not end the run).                                                       *)
EventuallyStored == \A c \in Cell : <>[]AnsweredIn(c, verdicts)

(* And that verdict becomes the one that /api/verdict and the harness read *)
(* (LoadLatestVerdictContent, "the newest stored verdict for a cell").     *)
EventuallyServed == \A c \in Cell : <>[]AnsweredIn(c, Latest(c))

\* No two compute runs are under way at once.
InTurn == \A v, w \in Worker : v # w => pc[v] = "idle" \/ pc[w] = "idle"

(* It does become that one if no two compute runs ever overlap: then a run *)
(* that stores later has read later, so the newest row has the newest      *)
(* evidence, or ties with it in one second.                                *)
ServedInTurn == []InTurn => EventuallyServed

\* What the table says, without the times and the gate that depend on them.
Claims ==
  {[cell |-> v.cell, inputs |-> v.inputs, rules |-> v.rules,
    range |-> v.range, failing |-> v.failing \ {"freshness"}] : v \in verdicts}

Promise == INSTANCE VerdictPromise WITH claims <- Claims

(* Compute runs that overlap, fail and are killed, seen through the two    *)
(* tables, do no more than the abstract promise allows.                    *)
KeepsPromise == Promise!Spec
=============================================================================
