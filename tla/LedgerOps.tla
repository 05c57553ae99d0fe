----------------------------- MODULE LedgerOps -----------------------------
(***************************************************************************)
(* cmd/syncprod, the operator's tool, run against a ledger that is in use. *)
(* It deletes the observations of some sources, or adds those of an        *)
(* export, one statement at a time, and then deletes every verdict "so the *)
(* next engine run recomputes clean".  Nothing stops compute runs, which   *)
(* may hold rows they read before, and nothing is one transaction.         *)
(***************************************************************************)
EXTENDS VerdictStore, Functions

CONSTANT MaxOps   \* bound on uses of the tool

ASSUME MaxOpsAssumption == MaxOps \in Nat

VARIABLES
  tool,    \* where the tool is; "cleared" is what it prints before it exits
  left,    \* the sources it has still to purge, or the events to import
  quiet,   \* no compute run was under way since the tool started, and it
           \* deleted the verdicts
  opsDone  \* times the tool was used

ops   == <<tool, left, quiet, opsDone>>
ovars == <<vars, ops>>

Source == {sourceOf[e] : e \in Event}

NoRun == \A w \in Worker : pc[w] = "idle"

OInit ==
  /\ Init
  /\ tool = "idle" /\ left = {} /\ quiet = FALSE /\ opsDone = 0

Start(step, L) ==
  /\ tool \in {"idle", "cleared"} /\ opsDone < MaxOps
  /\ tool' = step /\ left' = L /\ quiet' = NoRun
  /\ opsDone' = opsDone + 1
  /\ UNCHANGED vars

\* syncprod --purge-sources, and syncprod --in.
StartPurge(S)  == S # {} /\ Start("purging", S)
StartImport(E) == Start("importing", E)

\* The ledger loses the rows of source s; the others keep their order.
RemoveSource(s) ==
  LET kept == {i \in DOMAIN ledger : sourceOf[ledger[i]] # s}
  IN  \E f \in Bijection(1..Cardinality(kept), kept) :
        /\ \A i, j \in DOMAIN f : i < j => f[i] < f[j]
        /\ ledger' = [i \in DOMAIN f |-> ledger[f[i]]]

\* DELETE FROM observations WHERE source_id = s.
Purge(s) ==
  /\ tool = "purging" /\ s \in left
  /\ RemoveSource(s)
  /\ left' = left \ {s}
  /\ UNCHANGED <<verdicts, rulesets, current, clock, faults, run,
                 tool, quiet, opsDone>>

\* INSERT OR IGNORE of one exported row; a row that errs is skipped.
Import(e) ==
  /\ tool = "importing" /\ e \in left
  /\ AppendObservation(e) \/ UNCHANGED ledger
  /\ left' = left \ {e}
  /\ UNCHANGED <<verdicts, rulesets, current, clock, faults, run,
                 tool, quiet, opsDone>>

\* Slip: only the verdicts of the ruleset in force are deleted.
ClearCurrent ==
  /\ tool \in {"purging", "importing"} /\ left = {}
  /\ tool' = "cleared"
  /\ \/ verdicts' = {v \in verdicts : v.rules # current} /\ UNCHANGED <<faults, quiet>>
     \/ /\ faults < MaxFaults
        /\ faults' = faults + 1 /\ quiet' = FALSE /\ UNCHANGED verdicts
  /\ UNCHANGED <<ledger, rulesets, current, clock, run, left, opsDone>>

\* DELETE FROM verdict_content: its error is not looked at, so the tool
\* says "cleared" either way.
Clear ==
  /\ tool \in {"purging", "importing"} /\ left = {}
  /\ tool' = "cleared"
  /\ \/ verdicts' = {} /\ UNCHANGED <<faults, quiet>>
     \/ /\ faults < MaxFaults
        /\ faults' = faults + 1 /\ quiet' = FALSE /\ UNCHANGED verdicts
  /\ UNCHANGED <<ledger, rulesets, current, clock, run, left, opsDone>>

\* Slip: a tool that is stopped leaves its list behind.
AbortKeeping ==
  /\ tool \in {"purging", "importing"}
  /\ tool' = "idle" /\ quiet' = FALSE
  /\ UNCHANGED <<vars, left, opsDone>>

\* A purge that errs panics, or the tool is killed: what was done stays.
Abort ==
  /\ tool \in {"purging", "importing"}
  /\ tool' = "idle" /\ left' = {} /\ quiet' = FALSE
  /\ UNCHANGED <<vars, opsDone>>

\* A step of the rest of the system; a run under way ends the quiet, until
\* the verdicts are deleted.
Work ==
  /\ Next
  /\ quiet' = (quiet /\ (tool = "cleared" \/ NoRun'))
  /\ UNCHANGED <<tool, left, opsDone>>

ONext ==
  \/ Work
  \/ \E S \in SUBSET Source : StartPurge(S)
  \/ \E E \in SUBSET Event : StartImport(E)
  \/ \E s \in Source : Purge(s)
  \/ \E e \in Event : Import(e)
  \/ Clear
  \/ Abort

OSpec == OInit /\ [][ONext]_ovars

-----------------------------------------------------------------------------
\* The shape of the state.
OTypeOK ==
  /\ TypeOK
  /\ tool \in {"idle", "purging", "importing", "cleared"}
  /\ left \subseteq (IF tool = "purging" THEN Source ELSE Event)
  /\ (tool \in {"idle", "cleared"} => left = {})
  /\ quiet \in BOOLEAN
  /\ opsDone \in 0..MaxOps

\* No stored verdict rests on an event that is not in the ledger.
NothingForgottenIsUsed == \A v \in verdicts : v.inputs \subseteq Recorded

(* Used while no compute run is under way, the tool keeps its word         *)
(* ("source_ids whose observations + verdicts must be deleted", syncprod): *)
(* after it no verdict rests on an observation that it deleted, whatever   *)
(* runs start, fail or are deployed over later, and however often it is    *)
(* used.  (A run that read before the purge may save after the clearing,   *)
(* and a clearing that failed is reported as done.)                        *)
QuietPurgeIsClean ==
  tool = "cleared" /\ quiet => NothingForgottenIsUsed
=============================================================================
