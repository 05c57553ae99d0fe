---------------------------- MODULE MCEbayIngest ----------------------------
(* A small instance of EbayIngest: two listings found by two searches.      *)
EXTENDS EbayIngest

MCItems   == {"a", "b"}
MCFamilies  == {"submariner", "datejust"}
MCfamilyOf == [i \in Item |-> IF i = "a" THEN "submariner" ELSE "datejust"]
=============================================================================
