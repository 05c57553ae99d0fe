----------------------------- MODULE MCAccounts -----------------------------
(* A small instance of Accounts: two addresses, two links, which may both   *)
(* be for one of them, two sessions and two requests at once.  A link lasts *)
(* no tick and a session one tick, so that both can end under a request.    *)
(* All of these are interchangeable names.                                  *)
EXTENDS Accounts, TLC

MCSymmetry ==
  Permutations(Email) \cup Permutations(Link) \cup Permutations(Session)
    \cup Permutations(Request)
=============================================================================
