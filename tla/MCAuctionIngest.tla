-------------------------- MODULE MCAuctionIngest ---------------------------
(* A small instance of AuctionIngest: the nightly loop and an operator's    *)
(* run; a sale of a lot whose title names the base of two references, then  *)
(* another candidate, and of a lot with a candidate in its own page only; a *)
(* second sale of a lot that the catalogue does not know; then a sale whose *)
(* page may fail to be fetched, with a lot in a currency without a rate and *)
(* one without a currency.                                                  *)
EXTENDS AuctionIngest, TLC

MCProcess == {"nightly", "operator"}
MCLot == {"base", "inside", "gap", "foreign", "bare"}
MCRef == {"5711/1A", "5711/1R", "126610LN"}
MCbaseOf  == {<<"5711", "5711/1A">>, <<"5711", "5711/1R">>}
MCaliasOf == {<<"hulk", "126610LN">>}
MCFirstCatalogue == {"5711/1A", "126610LN"}
MCInScope == {"5711/1A", "126610LN"}
MCSales == <<{"base", "inside"}, {"gap"}, {"foreign", "bare"}>>
MCBroken == {3}
MCtitleKeys == [l \in Lot |->
  CASE l = "base"   -> <<"5711", "hulk">>
    [] l = "inside" -> <<>>
    [] l = "gap"    -> <<"5711/1R">>
    [] OTHER        -> <<"126610LN">>]
MCpageKeys == [l \in Lot |->
  CASE l = "base"   -> <<"126610LN">>
    [] l = "inside" -> <<"126610LN", "5711/1A">>
    [] OTHER        -> <<>>]
MCFirstSold == {"base", "gap", "foreign", "bare"}
MCNoCurrency == {"bare"}
MCNoRate == {"foreign"}
MCRevisable == {"inside"}
=============================================================================
