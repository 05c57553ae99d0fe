---------------------------- MODULE MCLedgerOps ----------------------------
(* Small instances of LedgerOps: one cell with sales from two sources, two  *)
(* rulesets that can be deployed one after the other.                       *)
EXTENDS LedgerOps

MCCell     == {"sub"}
MCEvent    == {"old", "new"}
MCcellOf     == [e \in Event |-> "sub"]
MCsourceOf   == [e \in Event |-> IF e = "old" THEN "bonhams" ELSE "curator"]
MCobservedAt == [e \in Event |-> 0]
MCRealised   == Event
MCCorrupt    == {}
MCKept(S) == S
MCDispersed(S) == FALSE
MCv1 == [version |-> 1, minSamples |-> 1, minVolume |-> 2, minSources |-> 2,
         maxAge |-> 1]
MCv2 == [version |-> 2, minSamples |-> 1, minVolume |-> 1, minSources |-> 1,
         maxAge |-> 1]
MCRuleset == {MCv1, MCv2}
MCWeb == {"web1"}
=============================================================================
