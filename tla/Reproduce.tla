----------------------------- MODULE Reproduce -----------------------------
(***************************************************************************)
(* cmd/reproduce, the reproducibility harness, run against a store that is *)
(* in use.  For a cell it loads the newest stored verdict, then the cell's *)
(* evidence as it is by then, computes the verdict again with the stored   *)
(* time, and compares the claims.                                          *)
(***************************************************************************)
EXTENDS VerdictStore

CONSTANTS
  Untidy,  \* rows with blanks around a field of their cell, or capitals that
           \* are not ASCII: the cell key of the engine has neither
  None     \* no verdict, no outcome

ASSUME NoneAssumption == None \notin {"ok", "FAIL", "error"} \cup Verdict
ASSUME UntidyAssumption == Untidy \subseteq Event

VARIABLES
  hpc,      \* where the harness is
  stored,   \* the verdict it loaded
  read,     \* the evidence it loaded
  outcome   \* what it prints: "ok", "FAIL", or it exits with an error

harness == <<hpc, stored, read, outcome>>
hvars   == <<vars, harness>>

HInit ==
  /\ Init
  /\ hpc = "idle" /\ stored = None /\ read = {} /\ outcome = None

\* The harness starts by recording its ruleset, like cmd/engine, then loads
\* the verdict.  (A cell without one is skipped.)
LoadVerdict(c) ==
  /\ hpc = "idle"
  /\ SaveRuleset
  /\ stored' \in Latest(c)
  /\ hpc' = "loaded"
  /\ UNCHANGED <<ledger, verdicts, current, clock, faults, run, read, outcome>>

\* LoadCellObservations, which unlike RunCompute stops at a corrupt price, and
\* has SQLite put the rows in lower case, untrimmed, to compare their cells.
LoadEvidence ==
  /\ hpc = "loaded"
  /\ LET R == InCell(stored.cell, (Recorded \cap Realised) \ Untidy)
     IN  /\ read' = R
         /\ IF R \cap Corrupt # {}
            THEN hpc' = "done" /\ outcome' = "error"
            ELSE hpc' = "computing" /\ UNCHANGED outcome
  /\ UNCHANGED <<vars, stored>>

\* mismatch: ranges and counts, that is what the trim kept, and gates by
\* status and number.
Mismatch(v, w) ==
  \/ v.range # w.range
  \/ Cardinality(v.failing) # Cardinality(w.failing)

\* Slip: the verdict is computed again as of today.
CompareToday ==
  /\ hpc = "computing"
  /\ LET w == ComputeVerdict(stored.cell, read, stored.rules, clock)
     IN  outcome' = IF Computable(read, stored.rules) /\ ~Mismatch(stored, w)
                    THEN "ok" ELSE "FAIL"
  /\ hpc' = "done"
  /\ UNCHANGED <<vars, stored, read>>

\* The verdict is computed again as of the stored time.
Compare ==
  /\ hpc = "computing"
  /\ LET w == ComputeVerdict(stored.cell, read, stored.rules, stored.computedAt)
     IN  outcome' = IF Computable(read, stored.rules) /\ ~Mismatch(stored, w)
                    THEN "ok" ELSE "FAIL"
  /\ hpc' = "done"
  /\ UNCHANGED <<vars, stored, read>>

\* Slip: the next cell starts with the verdict of the last.
RestartKeeping ==
  /\ hpc = "done"
  /\ hpc' = "idle" /\ read' = {} /\ outcome' = None
  /\ UNCHANGED <<vars, stored>>

\* The next cell, or the next time the harness is run.
Restart ==
  /\ hpc = "done"
  /\ hpc' = "idle" /\ stored' = None /\ read' = {} /\ outcome' = None
  /\ UNCHANGED vars

HNext ==
  \/ Next /\ UNCHANGED harness
  \/ \E c \in Cell : LoadVerdict(c)
  \/ LoadEvidence
  \/ Compare
  \/ Restart

HSpec == HInit /\ [][HNext]_hvars

-----------------------------------------------------------------------------
HTypeOK ==
  /\ TypeOK
  /\ hpc \in {"idle", "loaded", "computing", "done"}
  /\ (hpc = "idle" <=> stored = None)
  /\ (hpc # "idle" => stored \in Verdict)
  /\ read \subseteq Event
  /\ outcome \in {None, "ok", "FAIL", "error"}

(* The harness never blames code that is right: when it prints FAIL, the   *)
(* cell has evidence that the stored verdict never saw, or untidy rows     *)
(* that the harness did not find.  However old the verdict is, whichever   *)
(* runs overwrote it while the harness was at work, its own evidence gives *)
(* its own claim (recompute with ComputedAt).                              *)
FailOnlyOnNewEvidence ==
  outcome = "FAIL" => stored.inputs \ Untidy \subseteq read /\ stored.inputs # read
=============================================================================
