--------------------------- MODULE MCVerdictStore ---------------------------
(* Small instances of VerdictStore.  Cell "sub" (a Submariner reference)    *)
(* has two sound sales, one of them a day older, a sale that the trim       *)
(* drops, and an ask.  Cell "date" has one sale, which is too few for       *)
(* ruleset MCv1 and enough for its successor MCv2.                          *)
EXTENDS VerdictStore

MCCell == {"sub", "date"}
MCSafetyEvents == {"new", "far", "ask", "one"}
MCLiveEvents   == {"old", "new", "far", "one"}
MCStaleEvents  == {"old", "new", "far"}

MCcellOf     == [e \in Event |-> IF e = "one" THEN "date" ELSE "sub"]
MCsourceOf   == [e \in Event |-> IF e = "old" THEN "bonhams" ELSE "curator"]
MCobservedAt == [e \in Event |-> IF e = "old" THEN -1 ELSE 0]
MCRealised   == Event \ {"ask"}
MCCorrupt    == {}

\* The sale "far" is too dear beside any other.
MCKept(S) == IF Cardinality(S) < 2 THEN S ELSE S \ {"far"}
MCDispersed(S) == "far" \in S

MCv1 == [version |-> 1, minSamples |-> 2, minVolume |-> 3, minSources |-> 2,
         maxAge |-> 1]
MCv2 == [MCv1 EXCEPT !.version = 2, !.minSamples = 1]
MCOneRuleset  == {MCv1}
MCTwoRulesets == {MCv1, MCv2}

MCOneWeb == {"web1"}
=============================================================================
