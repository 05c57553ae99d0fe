---------------------------- MODULE MCReproduce ----------------------------
(* A small instance of Reproduce: one cell, a ruleset that needs one sale   *)
(* and lets it age; sales of two days that are dispersed together, of which *)
(* the harness does not find the older; and one with a corrupt price.       *)
EXTENDS Reproduce

MCCell     == {"sub"}
MCMixed  == {"old", "far", "bad"}
MCcellOf     == [e \in Event |-> "sub"]
MCsourceOf   == [e \in Event |-> IF e = "old" THEN "bonhams" ELSE "curator"]
MCobservedAt == [e \in Event |-> IF e = "old" THEN -1 ELSE 0]
MCRealised   == Event
MCUntidy     == {"old"}
MCCorrupt    == Event \cap {"bad"}
MCKept(S) == S
MCDispersed(S) == S = {"old", "far"}
MCRuleset == {[version |-> 1, minSamples |-> 1, minVolume |-> 2,
               minSources |-> 2, maxAge |-> 1]}
MCWeb == {"web1"}
=============================================================================
