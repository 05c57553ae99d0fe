------------------------------- MODULE MCDesk -------------------------------
(***************************************************************************)
(* A text with everything in it and one that names no house and has no     *)
(* date that parses.  The same text pasted twice, and a premium, make two  *)
(* rows that are or are not the same event.                                *)
(***************************************************************************)
EXTENDS Desk, TLC

MCLine  == {"sale", "anonymous"}
MCHouse == [l \in MCLine |-> IF l = "anonymous" THEN "" ELSE "phillips"]
MCKeys  == [l \in MCLine |-> <<"5711/1A">>]
MCPrice == [l \in MCLine |-> [cents |-> 10000, decimals |-> 0]]
MCDay   == [l \in MCLine |-> IF l = "anonymous" THEN NoDay ELSE 1]
MCReport == {[ref |-> "5711/1A", price |-> [cents |-> 10000, decimals |-> 0], day |-> 1]}
MCRef   == {"5711/1A"}
MCCell  == {"nautilus"}
MCCellOf == [r \in MCRef |-> "nautilus"]
MCPremium == {0, 25}
MCNoPairs == {}

MCSymmetry == Permutations(Request)
=============================================================================
