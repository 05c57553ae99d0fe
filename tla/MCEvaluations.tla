--------------------------- MODULE MCEvaluations ----------------------------
(***************************************************************************)
(* One watch from Japan to Portugal and one that nobody knows, and two     *)
(* dates of rates.  Two sales make a band that passes.  The rule is the    *)
(* one that is seeded for the corridor.                                    *)
(***************************************************************************)
EXTENDS Evaluations, TLC

MCRef == {"5711/1A"}
MCListing == {[ref |-> r, price |-> 6500000, currency |-> "JPY", to |-> "PT"] :
                r \in MCRef \cup {"steel watch"}}
MCFX == [d \in {1, 2} |-> [EUR |-> 100, USD |-> 109, JPY |-> 15700 + 30 * d]]
MCRules == {[from |-> "JP", to |-> "PT", duty |-> 45, vat |-> 230, insurance |-> 5]}
MCSymmetry == Permutations(Request) \cup Permutations(Sale)
=============================================================================
