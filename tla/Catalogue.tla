----------------------------- MODULE Catalogue ------------------------------
(***************************************************************************)
(* The reference resolver (internal/catalogue): an exact match, else the   *)
(* one reference that the key is the base of, else an alias of exactly one *)
(* reference.  It never guesses: two matches are as good as none.          *)
(*                                                                         *)
(* Keys are normalised inputs (upper case, no spaces); a reference is the  *)
(* key that spells it.                                                     *)
(***************************************************************************)
EXTENDS Integers, FiniteSets

CONSTANTS
  Ref,       \* references that can be in the catalogue
  baseOf,    \* pairs <<k, r>>: r is k followed by '/' or '-' and a suffix
  aliasOf,   \* pairs <<k, r>>: k is an alias of r
  NoRef      \* no reference: NeedsReview

ASSUME CatalogueAssumption == NoRef \notin Ref

\* Slip: the first of several matches is taken.
OnlyOneOrFirst(S) == IF S = {} THEN NoRef ELSE CHOOSE r \in S : TRUE

\* The one member of S, if it has just one.
OnlyOne(S) == IF \E r \in S : S = {r} THEN CHOOSE r \in S : TRUE ELSE NoRef

\* lookupExact over the references of catalogue cat.
lookupExact(cat, k) ==
  IF k \in cat THEN k ELSE OnlyOne({r \in cat : <<k, r>> \in baseOf})

\* lookupAlias: an alias row needs its reference to be there.
lookupAlias(cat, k) == OnlyOne({r \in cat : <<k, r>> \in aliasOf})

Lookup(cat, k) ==
  IF lookupExact(cat, k) # NoRef THEN lookupExact(cat, k) ELSE lookupAlias(cat, k)

\* The candidates of a text, in their order: the first that resolves wins.
FirstHit(cat, keys) ==
  LET hits == {i \in DOMAIN keys : Lookup(cat, keys[i]) # NoRef}
  IN  IF hits = {} THEN NoRef
      ELSE Lookup(cat, keys[CHOOSE i \in hits : \A j \in hits : i <= j])
=============================================================================
