------------------------------ MODULE MCAlerts ------------------------------
(* A small instance of Alerts: watchers "ann" and "bob" of one reference,  *)
(* which gets two observations: one dated when it arrives, and one dated a *)
(* second before.                                                          *)
EXTENDS Alerts

MCTwoUsers == {"ann", "bob"}
MCOneRef == {"sub"}
MCNews    == {"n1", "n2"}
MCrefOf   == [n \in News |-> "sub"]
MClag     == [n \in News |-> IF n = "n1" THEN 0 ELSE 1]
MCBob     == {"bob"}
=============================================================================
