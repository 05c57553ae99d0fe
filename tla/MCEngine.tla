------------------------------ MODULE MCEngine ------------------------------
(***************************************************************************)
(* Small tables of rows for Engine, with the code's own thresholds.        *)
(***************************************************************************)
EXTENDS Engine

R(p, s, t) == [price |-> p, source |-> s, at |-> t]

\* For lists below the trim's floor and just at it: a corrupt row, two prices
\* that the trim keeps together, and one that it cuts off.
MCMixed(n) ==
  [row |-> {R(0, "bonhams", 0), R(10, "bonhams", 0),
            R(12, "reports", -1), R(40, "curator", -2)}, max |-> n]

\* Prices that each lie outside a band laid around the next but one.
MCSpread(n) ==
  [row |-> {R(10, "bonhams", 0), R(40, "reports", -1), R(120, "curator", -1)},
   max |-> n]

MCTables == {MCMixed(8), MCSpread(10)}
=============================================================================
