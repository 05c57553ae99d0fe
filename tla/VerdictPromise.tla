--------------------------- MODULE VerdictPromise ---------------------------
(***************************************************************************)
(* What WatchLedger promises about verdicts, with no word on how they are  *)
(* computed: price events are only ever added, and a verdict, once made,   *)
(* stays as it was made.  A verdict rests on all the evidence that its     *)
(* cell had at some moment and its claim follows from that evidence and    *)
(* its ruleset alone.  (README.md, invariants 2 and 4.)  The freshness     *)
(* gate is left out of the claim: it depends on the day it is asked.       *)
(***************************************************************************)
EXTENDS EvidenceRules

VARIABLES
  ledger,  \* the price events, in the order they came
  claims   \* the verdicts made so far

\* The claim that ruleset r makes of evidence S.
Claim(c, S, r) ==
  [cell |-> c, inputs |-> S, rules |-> r, range |-> Kept(S),
   failing |-> FailingGates(S, r, 0) \ {"freshness"}]

Init == ledger = <<>> /\ claims = {}

Record(e) ==
  /\ e \notin Prefix(ledger, Len(ledger))
  /\ ledger' = Append(ledger, e)
  /\ UNCHANGED claims

\* A verdict may rest on evidence that is out of date by the time it is made.
Publish(c, r) ==
  /\ \E n \in 0..Len(ledger) :
       /\ Computable(Evidence(c, ledger, n), r)
       /\ claims' = claims \cup {Claim(c, Evidence(c, ledger, n), r)}
  /\ UNCHANGED ledger

Next ==
  \/ \E e \in Event : Record(e)
  \/ \E c \in Cell, r \in Ruleset : Publish(c, r)

Spec == Init /\ [][Next]_<<ledger, claims>>
=============================================================================
