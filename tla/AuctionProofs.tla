---------------------------- MODULE AuctionProofs ---------------------------
(***************************************************************************)
(* Proofs about modules Catalogue, Migrate and AuctionIngest, for every    *)
(* set of lots, sales, references and processes.                           *)
(***************************************************************************)
EXTENDS AuctionIngest, FiniteSetTheorems, WellFoundedInduction, TLAPS

USE CatalogueAssumption, MigrateAssumption

-----------------------------------------------------------------------------
(* A set of numbers that is not empty has a least one.                     *)
LEMMA Least ==
  ASSUME NEW T \in SUBSET Nat, T # {}
  PROVE  \E x \in T : \A y \in T : x <= y
  <1> DEFINE Up == {0..n : n \in T}
  <1>1. Up \subseteq FiniteSubsetsOf(Nat)
    <2>1. ASSUME NEW n \in T PROVE 0..n \in FiniteSubsetsOf(Nat)
      <3>1. IsFiniteSet(0..n)
        BY FS_Interval
      <3>2. 0..n \in SUBSET Nat
        OBVIOUS
      <3>3. QED
        BY <3>1, <3>2 DEF FiniteSubsetsOf
    <2>2. QED
      BY <2>1
  <1>2. Up # {}
    OBVIOUS
  <1>3. PICK u \in Up : \A v \in Up : <<v, u>> \notin StrictSubsetOrdering(Nat)
    <2> HIDE DEF Up
    <2> QED
      BY <1>1, <1>2, WFMin, FS_StrictSubsetOrderingWellFounded
  <1>4. PICK x \in T : u = 0..x
    OBVIOUS
  <1>5. ASSUME NEW y \in T, y < x PROVE FALSE
    <2>1. 0..y \in Up /\ 0..y \subseteq 0..x /\ 0..y # 0..x /\ 0..x \subseteq Nat
      BY <1>5
    <2>2. QED
      BY <1>3, <1>4, <2>1 DEF StrictSubsetOrdering
  <1>6. QED
    BY <1>5

(* A set's one member, if it has just one.                                 *)
LEMMA OnlyOneMember ==
  ASSUME NEW S \in SUBSET Ref
  PROVE  /\ OnlyOne(S) \in S \cup {NoRef}
         /\ \A r \in Ref : OnlyOne(S) = r <=> S = {r}
  <1>1. CASE \E r \in S : S = {r}
    BY <1>1 DEF OnlyOne
  <1>2. CASE ~\E r \in S : S = {r}
    BY <1>2 DEF OnlyOne
  <1>3. QED
    BY <1>1, <1>2

(* The resolver finds a reference of the catalogue that the key names, or  *)
(* none; and it finds what the catalogue says, no less and no more.        *)
LEMMA LookupFinds ==
  ASSUME NEW cat \in SUBSET Ref, NEW k
  PROVE  Lookup(cat, k) # NoRef => Lookup(cat, k) \in cat /\ Matches(k, Lookup(cat, k))
  <1> DEFINE bases   == {r \in cat : <<k, r>> \in baseOf}
             aliases == {r \in cat : <<k, r>> \in aliasOf}
  <1>1. k \in cat => lookupExact(cat, k) = k /\ k # NoRef
    BY DEF lookupExact
  <1>2. lookupExact(cat, k) # NoRef => k \in cat \/ lookupExact(cat, k) \in bases
    BY OnlyOneMember DEF lookupExact
  <1>3. lookupAlias(cat, k) # NoRef => lookupAlias(cat, k) \in aliases
    BY OnlyOneMember DEF lookupAlias
  <1>4. QED
    BY <1>1, <1>2, <1>3 DEF Lookup, Matches

LEMMA LookupSays ==
  ASSUME catalogue \in SUBSET Ref, NEW k, NEW r \in Ref
  PROVE  Lookup(catalogue, k) = r <=> Says(k, r)
  <1> DEFINE bases   == {s \in catalogue : <<k, s>> \in baseOf}
             aliases == {s \in catalogue : <<k, s>> \in aliasOf}
  <1>1. CASE k \in catalogue
    BY <1>1 DEF Lookup, lookupExact, Says
  <1>2. CASE k \notin catalogue
    <2>1. lookupExact(catalogue, k) = OnlyOne(bases) /\ lookupAlias(catalogue, k) = OnlyOne(aliases)
      BY <1>2 DEF lookupExact, lookupAlias
    <2>2. Says(k, r) <=> bases = {r} \/ (aliases = {r} /\ \A s \in Ref : bases # {s})
      BY <1>2 DEF Says
    <2>3. bases \in SUBSET Ref /\ aliases \in SUBSET Ref
      OBVIOUS
    <2> HIDE DEF bases, aliases
    <2>4. OnlyOne(bases) = NoRef <=> \A s \in Ref : bases # {s}
      BY <2>3, OnlyOneMember
    <2>5. /\ OnlyOne(bases) = r <=> bases = {r}
          /\ OnlyOne(aliases) = r <=> aliases = {r}
      BY <2>3, OnlyOneMember
    <2>6. QED
      BY <2>1, <2>2, <2>4, <2>5 DEF Lookup
  <1>3. QED
    BY <1>1, <1>2

(* The cascade takes the first candidate that resolves, if there is one.   *)
LEMMA FirstHitFinds ==
  ASSUME NEW cat \in SUBSET Ref, NEW ks, DOMAIN ks \subseteq Nat
  PROVE  IF FirstHit(cat, ks) = NoRef
         THEN \A i \in DOMAIN ks : Lookup(cat, ks[i]) = NoRef
         ELSE \E i \in DOMAIN ks :
                /\ FirstHit(cat, ks) = Lookup(cat, ks[i])
                /\ \A j \in DOMAIN ks : j < i => Lookup(cat, ks[j]) = NoRef
  <1> DEFINE hits == {i \in DOMAIN ks : Lookup(cat, ks[i]) # NoRef}
             i == CHOOSE i \in hits : \A j \in hits : i <= j
  <1>1. CASE hits = {}
    BY <1>1 DEF FirstHit
  <1>2. CASE hits # {}
    <2>1. FirstHit(cat, ks) = Lookup(cat, ks[i])
      BY <1>2 DEF FirstHit
    <2>2. \E x \in hits : \A y \in hits : x <= y
      BY <1>2, Least
    <2>3. i \in hits /\ \A j \in hits : i <= j
      BY <2>2
    <2>4. i \in DOMAIN ks /\ Lookup(cat, ks[i]) # NoRef
      BY <2>3
    <2>5. ASSUME NEW j \in DOMAIN ks, j < i PROVE Lookup(cat, ks[j]) = NoRef
      <3>1. j \notin hits
        <4> HIDE DEF hits, i
        <4> QED
          BY <2>3, <2>4, <2>5
      <3>2. QED
        BY <3>1
    <2>6. QED
      BY <2>1, <2>4, <2>5
  <1>3. QED
    BY <1>1, <1>2

-----------------------------------------------------------------------------
(* A program is at a migration only when those before it are recorded.     *)
InTurn ==
  \A p \in Process :
    /\ \A k \in Migration : k < place[p] => k \in applied
    /\ stage[p] = "apply" => place[p] \in Migration

MigrateInv == MigrateTypeOK /\ MigratedOnce /\ InTurn

MigrateNext(p) ==
  \/ Boot(p) \/ CheckMigration(p) \/ ApplyMigration(p)
  \/ Die(p) /\ UNCHANGED schema

LEMMA PlaceNumbers == LastMigration \in Nat /\ Migration \subseteq Nat
  BY DEF Migration

LEMMA MigrateInit1 == MigrateInit => MigrateInv
  BY PlaceNumbers DEF MigrateInit, MigrateInv, MigrateTypeOK, MigratedOnce, InTurn, Migration

LEMMA DieStep ==
  ASSUME MigrateInv, NEW p \in Process, Die(p), UNCHANGED schema
  PROVE  MigrateInv'
  BY DEF Die, schema, MigrateInv, MigrateTypeOK, MigratedOnce, InTurn, Migration

LEMMA CheckStep ==
  ASSUME MigrateInv, NEW p \in Process, CheckMigration(p)
  PROVE  MigrateInv'
  <1> USE DEF MigrateInv, MigrateTypeOK, InTurn, schema
  <1>1. CASE place[p] \in applied
    <2>1. place' = [place EXCEPT ![p] = place[p] + 1] /\ UNCHANGED <<stage, applied, effects>>
      BY <1>1 DEF CheckMigration
    <2>2. place[p] \in 1..LastMigration
      BY <1>1 DEF Migration
    <2>3. place' \in [Process -> 1..(LastMigration + 1)]
      BY <2>1, <2>2
    <2>4. \A k \in Migration : k < place[p] + 1 => k < place[p] \/ k = place[p]
      BY <2>2 DEF Migration
    <2>5. stage[p] = "check"
      BY DEF CheckMigration
    <2>6. QED
      BY <1>1, <2>1, <2>3, <2>4, <2>5 DEF MigratedOnce
  <1>2. CASE place[p] \notin applied
    <2>1. /\ stage' = [stage EXCEPT ![p] = IF place[p] \in Migration THEN "apply" ELSE "ready"]
          /\ UNCHANGED <<place, applied, effects>>
      BY <1>2 DEF CheckMigration
    <2>2. stage' \in [Process -> {"down", "check", "apply", "ready"}]
      BY <2>1
    <2>3. place[p] \notin Migration => \A k \in Migration : k < place[p]
      BY DEF Migration
    <2>4. stage'[p] = "ready" => applied = Migration
      BY <2>1, <2>3
    <2>5. QED
      BY <2>1, <2>2, <2>4 DEF MigratedOnce
  <1>3. QED
    BY <1>1, <1>2

LEMMA ApplyStep ==
  ASSUME MigrateInv, NEW p \in Process, ApplyMigration(p), place[p] \notin applied
  PROVE  MigrateInv'
  <1> USE DEF MigrateInv, MigrateTypeOK, InTurn
  <1> DEFINE m == place[p]
  <1>1. /\ applied' = applied \cup {m}
        /\ effects' = [effects EXCEPT ![m] = effects[m] + 1]
        /\ stage' = [stage EXCEPT ![p] = "check"]
        /\ place' = [place EXCEPT ![p] = m + 1]
    BY DEF ApplyMigration
  <1>2. m \in Migration /\ m \in Nat
    BY DEF ApplyMigration, Migration
  <1>3. MigrateTypeOK'
    <2>1. effects' \in [Migration -> Nat] /\ applied' \subseteq Migration
      BY <1>1, <1>2
    <2>2. m + 1 \in 1..(LastMigration + 1)
      BY <1>2 DEF Migration
    <2> HIDE DEF m
    <2>3. QED
      BY <1>1, <2>1, <2>2
  <1>4. InTurn'
    <2>1. \A k \in Migration : k < m + 1 => k < m \/ k = m
      BY <1>2 DEF Migration
    <2>2. QED
      BY <1>1, <2>1
  <1>5. \A k \in Migration : effects'[k] = IF k \in applied' THEN 1 ELSE 0
    BY <1>1, <1>2 DEF MigratedOnce
  <1>6. ASSUME NEW n \in applied', NEW k \in 1..n PROVE k \in applied'
    <2>1. CASE n = m
      BY <1>1, <1>2, <2>1 DEF Migration
    <2>2. CASE n # m
      BY <1>1, <1>6, <2>2 DEF MigratedOnce
    <2>3. QED
      BY <2>1, <2>2
  <1>7. ASSUME NEW q \in Process, stage'[q] = "ready" PROVE applied' = Migration
    BY <1>1, <1>2, <1>7 DEF MigratedOnce
  <1>8. QED
    BY <1>3, <1>4, <1>5, <1>6, <1>7 DEF MigratedOnce

LEMMA MigrateStep ==
  ASSUME MigrateInv, NEW p \in Process, MigrateNext(p)
  PROVE  MigrateInv'
  <1>1. CASE Boot(p)
    <2>1. /\ stage' = [stage EXCEPT ![p] = "check"] /\ place' = [place EXCEPT ![p] = 1]
          /\ UNCHANGED <<applied, effects>>
      BY <1>1 DEF Boot, schema
    <2>2. MigrateTypeOK'
      BY <2>1 DEF MigrateInv, MigrateTypeOK
    <2>3. InTurn'
      BY <2>1 DEF MigrateInv, MigrateTypeOK, InTurn, Migration
    <2>4. MigratedOnce'
      BY <2>1 DEF MigrateInv, MigrateTypeOK, MigratedOnce
    <2>5. QED
      BY <2>2, <2>3, <2>4 DEF MigrateInv
  <1>2. CASE ApplyMigration(p) /\ place[p] \in applied
    BY <1>2, DieStep DEF ApplyMigration
  <1>3. QED
    BY <1>1, <1>2, CheckStep, ApplyStep, DieStep DEF MigrateNext

\* What the runs do to the schema.
LEMMA MigrationSteps ==
  ASSUME [Next]_vars
  PROVE  UNCHANGED <<schema, boot>> \/ \E p \in Process : MigrateNext(p)
  <1> USE DEF world, tables, run
  <1>1. ASSUME NEW p \in Process, Start(p) PROVE MigrateNext(p)
    BY <1>1 DEF Start, MigrateNext
  <1>2. ASSUME NEW p \in Process, End(p), UNCHANGED schema PROVE MigrateNext(p)
    BY <1>2 DEF End, MigrateNext
  <1>3. ASSUME NEW p \in Process, FetchSale(p)
        PROVE  UNCHANGED <<schema, boot>> \/ MigrateNext(p)
    BY <1>2, <1>3 DEF FetchSale
  <1>4. ASSUME NEW p \in Process, Finish(p) \/ Fail(p) PROVE MigrateNext(p)
    BY <1>2, <1>4 DEF Finish, Fail
  <1>5. QED
    BY <1>1, <1>3, <1>4 DEF Next, vars, Sell, Revise, Learn, Disable, ResolveLot,
       AppendLot, queueForReview

LEMMA MigrateInvStep == MigrateInv /\ [Next]_vars => MigrateInv'
  <1> SUFFICES ASSUME MigrateInv, [Next]_vars PROVE MigrateInv'
    OBVIOUS
  <1>1. CASE UNCHANGED <<schema, boot>>
    BY <1>1 DEF schema, boot, MigrateInv, MigrateTypeOK, MigratedOnce, InTurn
  <1>2. QED
    BY <1>1, MigrationSteps, MigrateStep

(* However many programs start at once on one file, and wherever they are  *)
(* killed, the body of each migration takes effect once and in its turn,   *)
(* and no program works on a schema that is not complete.                  *)
THEOREM MigrationsTakeEffectOnce == Spec => []MigratedOnce
  <1>1. Init => MigrateInv
    BY MigrateInit1 DEF Init
  <1>2. MigrateInv => MigratedOnce
    BY DEF MigrateInv
  <1>3. QED
    BY <1>1, <1>2, MigrateInvStep, PTL DEF Spec

-----------------------------------------------------------------------------
(* The types that TypeOK leaves to the other variables: what a run has is  *)
(* kept for each process, and a page has prices.                           *)
RunType ==
  /\ sale \in [Process -> Nat]
  /\ todo \in [Process -> SUBSET Lot]
  /\ page = [p \in Process |-> page[p]] /\ hand = [p \in Process |-> hand[p]]
  /\ \A p \in Process : \A l \in DOMAIN page[p] : page[p][l] \in 1..2

TypeInv == MigrateInv /\ TypeOK /\ RunType

LEMMA SalesAreLots ==
  ASSUME NEW i \in DOMAIN Sales
  PROVE  Sales[i] \subseteq Lot /\ i \in Nat
  BY AuctionAssumption

LEMMA InitType == Init => TypeInv
  <1> SUFFICES ASSUME Init PROVE TypeInv
    OBVIOUS
  <1>1. MigrateInv
    BY MigrateInit1 DEF Init
  <1>2. RunType
    BY DEF Init, RunType, NoPage
  <1>3. TypeOK
    BY <1>1, AuctionAssumption DEF Init, TypeOK, NoPage, MigrateInv, Nothing
  <1>4. QED
    BY <1>1, <1>2, <1>3 DEF TypeInv

(* What is left when a run ends.                                           *)
LEMMA EndType ==
  ASSUME TypeInv, NEW p \in Process, End(p)
  PROVE  /\ RunType'
         /\ sale'[p] = 0 /\ todo'[p] = {} /\ page'[p] = NoPage /\ hand'[p] = Nothing
         /\ \A q \in Process \ {p} : /\ sale'[q] = sale[q] /\ todo'[q] = todo[q]
                                     /\ page'[q] = page[q] /\ hand'[q] = hand[q]
  BY DEF End, TypeInv, RunType, NoPage

(* The lot in hand is done with: it is not to be handled any more.         *)
LEMMA DoneType ==
  ASSUME TypeInv, NEW p \in Process, DoneWithLot(p), UNCHANGED <<sale, page>>
  PROVE  /\ RunType'
         /\ todo'[p] = todo[p] \ {hand[p].lot} /\ hand'[p] = Nothing
         /\ \A q \in Process \ {p} : todo'[q] = todo[q] /\ hand'[q] = hand[q]
  BY DEF DoneWithLot, TypeInv, RunType

RunOK(p) ==
  /\ sale[p] \in {0} \cup DOMAIN Sales
  /\ todo[p] \subseteq DOMAIN page[p] /\ DOMAIN page[p] \subseteq sold
  /\ hand[p] # Nothing => hand[p].lot \in todo[p] /\ hand[p].ref \in Ref \cup {NoRef}

TablesOK ==
  /\ catalogue \subseteq Ref /\ enabled \in BOOLEAN /\ sold \subseteq Lot
  /\ price \in [Lot -> 1..2]
  /\ ledger \subseteq Row /\ queue \in [Lot -> 0..MaxQueue]
  /\ faults \in 0..MaxFaults

LEMMA TypeParts == TypeOK <=> MigrateTypeOK /\ TablesOK /\ \A p \in Process : RunOK(p)
  BY DEF TypeOK, TablesOK, RunOK

LEMMA TypeFromParts ==
  ASSUME TypeInv, [Next]_vars, TablesOK', RunType', \A p \in Process : RunOK(p)'
  PROVE  TypeInv'
  <1>1. MigrateInv'
    BY MigrateInvStep DEF TypeInv
  <1>2. QED
    BY <1>1, TypeParts DEF TypeInv, MigrateInv, TypeOK, TablesOK, RunOK

\* The resolver gives a reference of the catalogue or none.
LEMMA FirstHitType ==
  ASSUME NEW cat \in SUBSET Ref, NEW ks
  PROVE  FirstHit(cat, ks) \in Ref \cup {NoRef}
  <1>1. ASSUME NEW k PROVE Lookup(cat, k) \in Ref \cup {NoRef}
    BY LookupFinds
  <1>2. QED
    BY <1>1 DEF FirstHit

LEMMA CandidatesType ==
  ASSUME NEW l \in Lot, NEW ks \in Candidates(l)
  PROVE  DOMAIN ks \subseteq Nat
  <1>1. DOMAIN titleKeys[l] \subseteq Nat /\ DOMAIN pageKeys[l] \subseteq Nat
    BY AuctionAssumption
  <1>2. DOMAIN << >> \subseteq Nat
    OBVIOUS
  <1>3. QED
    BY <1>1, <1>2 DEF Candidates

\* The two ways in which a lot is taken.
Resolved(p, l, ks, r) ==
  /\ l \in todo[p] /\ hand[p] = Nothing
  /\ ks \in Candidates(l) /\ r = FirstHit(catalogue, ks)
  /\ \/ /\ \/ l \in NoCurrency \/ ks = <<>> \/ r \in Ref \ InScope
           \/ l \in NoRate /\ r # NoRef
        /\ todo' = [todo EXCEPT ![p] = @ \ {l}] /\ UNCHANGED hand
     \/ /\ l \notin NoCurrency /\ ks # <<>> /\ r \notin Ref \ InScope
        /\ l \in NoRate => r = NoRef
        /\ hand' = [hand EXCEPT ![p] = [lot |-> l, ref |-> r]] /\ UNCHANGED todo

LEMMA ResolveEffect ==
  ASSUME NEW p \in Process, NEW l \in Lot, ResolveLot(p, l)
  PROVE  /\ \E ks, r : Resolved(p, l, ks, r)
         /\ UNCHANGED <<world, tables, boot, faults, sale, page>>
  BY DEF ResolveLot, Resolved

LEMMA ResolvedType ==
  ASSUME TypeInv, NEW p \in Process, NEW l \in Lot, NEW ks, NEW r, Resolved(p, l, ks, r),
         UNCHANGED <<world, tables, boot, faults, sale, page>>
  PROVE  /\ RunType' /\ TablesOK' /\ \A q \in Process : RunOK(q)'
         /\ r \in Ref \cup {NoRef}
  <1>1. r \in Ref \cup {NoRef}
    BY FirstHitType DEF Resolved, TypeInv, TypeOK
  <1>2. TablesOK'
    BY TypeParts DEF TypeInv, TablesOK, world, tables, Row
  <1>3. \A q \in Process : RunOK(q)
    BY TypeParts DEF TypeInv
  <1>4. CASE todo' = [todo EXCEPT ![p] = @ \ {l}] /\ UNCHANGED hand
    <2>1. RunType'
      BY <1>4 DEF TypeInv, RunType
    <2>2. todo'[p] = todo[p] \ {l} /\ \A q \in Process \ {p} : todo'[q] = todo[q]
      BY <1>4 DEF TypeInv, RunType
    <2>3. \A q \in Process : RunOK(q)'
      BY <1>3, <1>4, <2>2 DEF RunOK, Resolved, world
    <2>4. QED
      BY <1>1, <1>2, <2>1, <2>3
  <1>5. CASE hand' = [hand EXCEPT ![p] = [lot |-> l, ref |-> r]] /\ UNCHANGED todo
    <2>1. RunType'
      BY <1>5 DEF TypeInv, RunType
    <2>2. hand'[p] = [lot |-> l, ref |-> r] /\ \A q \in Process \ {p} : hand'[q] = hand[q]
      BY <1>5 DEF TypeInv, RunType
    <2>3. \A q \in Process : RunOK(q)'
      BY <1>1, <1>3, <1>5, <2>2 DEF RunOK, Resolved, world
    <2>4. QED
      BY <1>1, <1>2, <2>1, <2>3
  <1>6. QED
    BY <1>4, <1>5 DEF Resolved

LEMMA NextType == TypeInv /\ [Next]_vars => TypeInv'
  <1> SUFFICES ASSUME TypeInv, [Next]_vars PROVE TypeInv'
    OBVIOUS
  <1> USE DEF world, tables, run
  <1>0. TablesOK /\ RunType /\ \A p \in Process : RunOK(p)
    BY TypeParts DEF TypeInv
  <1>1. CASE UNCHANGED run /\ sold \subseteq sold' /\ TablesOK'
    <2>1. RunType' /\ \A p \in Process : RunOK(p)'
      BY <1>0, <1>1 DEF RunType, RunOK
    <2>2. QED
      BY <1>1, <2>1, TypeFromParts
  <1>2. ASSUME NEW l \in Lot, Sell(l) PROVE TypeInv'
    <2>1. TablesOK' /\ sold \subseteq sold'
      BY <1>0, <1>2 DEF Sell, TablesOK, Row
    <2>2. QED
      BY <1>1, <1>2, <2>1 DEF Sell
  <1>3. ASSUME NEW l \in Lot, Revise(l) PROVE TypeInv'
    <2>1. TablesOK'
      BY <1>0, <1>3 DEF Revise, TablesOK, Row
    <2>2. QED
      BY <1>1, <1>3, <2>1 DEF Revise
  <1>4. ASSUME NEW r \in Ref, Learn(r) PROVE TypeInv'
    <2>1. TablesOK'
      BY <1>0, <1>4 DEF Learn, TablesOK, Row
    <2>2. QED
      BY <1>1, <1>4, <2>1 DEF Learn
  <1>5. CASE Disable \/ \E p \in Process : Start(p)
    <2>1. TablesOK'
      BY <1>0, <1>5 DEF Disable, Start, TablesOK, Row
    <2>2. QED
      BY <1>1, <1>5, <2>1 DEF Disable, Start
  <1>6. ASSUME NEW p \in Process, End(p), UNCHANGED <<world, ledger, queue>>,
               faults' \in 0..MaxFaults
        PROVE  TypeInv'
    <2>1. TablesOK'
      BY <1>0, <1>6 DEF TablesOK, Row
    <2>2. RunType' /\ \A q \in Process : RunOK(q)'
      BY <1>0, <1>6, EndType DEF RunOK, NoPage
    <2>3. QED
      BY <2>1, <2>2, TypeFromParts
  <1>7. ASSUME NEW p \in Process, FetchSale(p) PROVE TypeInv'
    <2>1. CASE End(p)
      BY <1>0, <1>6, <1>7, <2>1 DEF FetchSale, TablesOK
    <2>2. CASE ~End(p)
      <3> DEFINE i == sale[p] + 1
      <3>1. /\ i \in DOMAIN Sales
            /\ sale' = [sale EXCEPT ![p] = i]
            /\ page' = [page EXCEPT ![p] = Published(i)]
            /\ todo' = [todo EXCEPT ![p] = Sales[i] \cap sold]
            /\ UNCHANGED <<boot, hand>> /\ UNCHANGED <<world, tables, faults>>
            /\ todo[p] = {}
        BY <1>7, <2>2 DEF FetchSale
      <3>2. i \in Nat /\ Sales[i] \subseteq Lot
        BY <3>1, SalesAreLots
      <3> HIDE DEF i
      <3>3. DOMAIN Published(i) = Sales[i] \cap sold
            /\ \A l \in DOMAIN Published(i) : Published(i)[l] \in 1..2
        BY <1>0, <3>2 DEF Published, TablesOK
      <3>4. RunType'
        BY <1>0, <3>1, <3>2, <3>3 DEF RunType
      <3>5. TablesOK'
        BY <1>0, <3>1 DEF TablesOK, Row
      <3>6. \A q \in Process : RunOK(q)'
        <4>1. /\ sale'[p] = i /\ page'[p] = Published(i)
              /\ todo'[p] = Sales[i] \cap sold /\ hand'[p] = hand[p]
              /\ \A q \in Process \ {p} : /\ sale'[q] = sale[q] /\ page'[q] = page[q]
                                          /\ todo'[q] = todo[q] /\ hand'[q] = hand[q]
          BY <1>0, <3>1 DEF RunType
        <4>2. hand[p] = Nothing
          BY <1>0, <3>1 DEF RunOK
        <4>3. RunOK(p)'
          BY <3>1, <3>3, <4>1, <4>2 DEF RunOK
        <4>4. QED
          BY <1>0, <3>1, <4>1, <4>3 DEF RunOK
      <3>7. QED
        BY <3>4, <3>5, <3>6, TypeFromParts
    <2>3. QED
      BY <2>1, <2>2
  <1>8. ASSUME NEW p \in Process, NEW l \in Lot, ResolveLot(p, l) PROVE TypeInv'
    BY <1>8, ResolveEffect, ResolvedType, TypeFromParts
  <1>9. ASSUME NEW p \in Process, DoneWithLot(p), UNCHANGED <<world, sale, page>>, TablesOK'
        PROVE  TypeInv'
    <2>1. RunType' /\ \A q \in Process : RunOK(q)'
      BY <1>0, <1>9, DoneType DEF RunOK
    <2>2. QED
      BY <1>9, <2>1, TypeFromParts
  <1>10. ASSUME NEW p \in Process, AppendLot(p) PROVE TypeInv'
    <2> DEFINE l == hand[p].lot
    <2>1. hand[p] # Nothing
      BY <1>10 DEF AppendLot, Nothing
    <2>2. l \in DOMAIN page[p] /\ l \in Lot /\ hand[p].ref \in Ref
      BY <1>0, <1>10, <2>1 DEF AppendLot, RunOK, TablesOK
    <2>3. [lot |-> l, ref |-> hand[p].ref, price |-> page[p][l]] \in Row
      BY <1>0, <2>2 DEF RunType, Row
    <2>4. TablesOK'
      BY <1>0, <1>10, <2>3 DEF AppendLot, TablesOK, Row
    <2>5. QED
      BY <1>9, <1>10, <2>4 DEF AppendLot
  <1>11. ASSUME NEW p \in Process, queueForReview(p) PROVE TypeInv'
    <2>1. MaxQueue \in Nat
      BY AuctionAssumption
    <2>2. TablesOK'
      <3> DEFINE l == hand[p].lot
      <3>1. queue' = [queue EXCEPT ![l] = IF queue[l] < MaxQueue THEN queue[l] + 1 ELSE queue[l]]
        BY <1>11 DEF queueForReview
      <3>2. l \in Lot
        BY <1>0, <1>11 DEF queueForReview, RunOK, TablesOK
      <3> HIDE DEF l
      <3>3. queue[l] \in 0..MaxQueue
        BY <1>0, <3>2 DEF TablesOK
      <3>4. (IF queue[l] < MaxQueue THEN queue[l] + 1 ELSE queue[l]) \in 0..MaxQueue
        BY <2>1, <3>3
      <3>5. queue' \in [Lot -> 0..MaxQueue]
        BY <1>0, <3>1, <3>4 DEF TablesOK
      <3>6. QED
        BY <1>0, <1>11, <3>5 DEF queueForReview, TablesOK, Row
    <2>3. QED
      BY <1>9, <1>11, <2>2 DEF queueForReview
  <1>12. ASSUME NEW p \in Process, Finish(p) \/ Fail(p) PROVE TypeInv'
    <2>1. MaxFaults \in Nat
      BY AuctionAssumption
    <2>2. faults' \in 0..MaxFaults
      BY <1>0, <1>12, <2>1 DEF Finish, Fail, TablesOK
    <2>3. QED
      BY <1>6, <1>12, <2>2 DEF Finish, Fail
  <1>13. CASE UNCHANGED vars
    BY <1>0, <1>1, <1>13 DEF vars, TablesOK, Row
  <1>14. QED
    BY <1>2, <1>3, <1>4, <1>5, <1>7, <1>8, <1>10, <1>11, <1>12, <1>13 DEF Next

(* A run works on what is on the page that it fetched, and what it enters  *)
(* is a sold lot under a reference with the price of that page.            *)
THEOREM TypeCorrect == Spec => []TypeOK
  <1>1. TypeInv => TypeOK
    BY DEF TypeInv
  <1>2. QED
    BY <1>1, InitType, NextType, PTL DEF Spec

-----------------------------------------------------------------------------
(* The catalogue only grows.                                               *)
GrowInv == FirstCatalogue \subseteq catalogue

LEMMA GrowStep == GrowInv /\ [Next]_vars => GrowInv'
  BY DEF GrowInv, Next, vars, world, tables, run, Sell, Revise, Learn, Disable, Start, FetchSale,
         ResolveLot, AppendLot, queueForReview, Finish, Fail

LEMMA CandidatesAreText ==
  ASSUME NEW l \in Lot, NEW ks \in Candidates(l), ks # <<>>
  PROVE  ks = Text(l)
  BY DEF Candidates, Text

LEMMA ResolvedIsNamed ==
  ASSUME TypeInv, NEW l \in Lot, NEW ks \in Candidates(l), ks # <<>>
  PROVE  LET r == FirstHit(catalogue, ks)
         IN  IF r = NoRef
             THEN \A i \in DOMAIN Text(l), s \in Ref : ~Says(Text(l)[i], s)
             ELSE /\ r \in catalogue /\ Names(l, r)
                  /\ \E i \in DOMAIN Text(l) : Matches(Text(l)[i], r)
  <1> DEFINE r == FirstHit(catalogue, ks)
  <1>1. catalogue \in SUBSET Ref
    BY DEF TypeInv, TypeOK
  <1>2. DOMAIN ks \subseteq Nat /\ ks = Text(l)
    BY CandidatesType, CandidatesAreText
  <1>3. \A k : Lookup(catalogue, k) = NoRef => \A s \in Ref : ~Says(k, s)
    BY <1>1, LookupSays
  <1>4. CASE r = NoRef
    <2>1. \A i \in DOMAIN ks : Lookup(catalogue, ks[i]) = NoRef
      BY <1>1, <1>2, <1>4, FirstHitFinds
    <2>2. QED
      BY <1>2, <1>3, <1>4, <2>1
  <1>5. CASE r # NoRef
    <2>1. PICK i \in DOMAIN ks :
            /\ r = Lookup(catalogue, ks[i])
            /\ \A j \in DOMAIN ks : j < i => Lookup(catalogue, ks[j]) = NoRef
      BY <1>1, <1>2, <1>5, FirstHitFinds
    <2>2. r \in catalogue /\ Matches(ks[i], r)
      BY <1>1, <1>5, <2>1, LookupFinds
    <2>3. Says(ks[i], r)
      BY <1>1, <2>1, <2>2, LookupSays
    <2>4. Names(l, r)
      BY <1>2, <1>3, <2>1, <2>3 DEF Names
    <2>5. QED
      BY <1>2, <1>5, <2>2, <2>4
  <1>6. QED
    BY <1>4, <1>5

\* What a step does to the ledger and to a run's hand.
TakenRightly(p) ==
  LET l == hand'[p].lot
      r == hand'[p].ref
  IN  hand'[p] \notin {hand[p], Nothing} =>
        IF r = NoRef THEN \A i \in DOMAIN Text(l), s \in Ref : ~Says(Text(l)[i], s)
        ELSE /\ Names(l, r) /\ r \in InScope
             /\ l \in sold \ (NoCurrency \cup NoRate)

FromHand ==
  \A row \in ledger' \ ledger :
    \E p \in Process : hand[p].lot = row.lot /\ hand[p].ref = row.ref

LEMMA FairStep ==
  ASSUME TypeInv, [Next]_vars
  PROVE  FromHand /\ \A p \in Process : TakenRightly(p)
  <1> USE DEF world, tables, run
  <1>1. CASE ledger' = ledger /\ \A p \in Process : hand'[p] \in {hand[p], Nothing}
    BY <1>1 DEF FromHand, TakenRightly
  <1>2. ASSUME NEW p \in Process, End(p), ledger' = ledger
        PROVE  FromHand /\ \A q \in Process : TakenRightly(q)
    BY <1>1, <1>2, EndType
  <1>3. ASSUME NEW p \in Process, FetchSale(p) PROVE FromHand /\ \A q \in Process : TakenRightly(q)
    BY <1>1, <1>2, <1>3 DEF FetchSale
  <1>4. ASSUME NEW p \in Process, NEW l \in Lot, ResolveLot(p, l)
        PROVE  FromHand /\ \A q \in Process : TakenRightly(q)
    <2>1. PICK ks, r : Resolved(p, l, ks, r)
      BY <1>4, ResolveEffect
    <2>2. UNCHANGED <<world, tables, boot, faults, sale, page>>
      BY <1>4, ResolveEffect
    <2>3. CASE hand' = hand
      BY <1>1, <2>2, <2>3
    <2>4. CASE hand' # hand
      <3>1. /\ hand' = [hand EXCEPT ![p] = [lot |-> l, ref |-> r]]
            /\ l \notin NoCurrency /\ (l \in NoRate => r = NoRef) /\ r \notin Ref \ InScope
            /\ ks # <<>> /\ ks \in Candidates(l) /\ r = FirstHit(catalogue, ks)
            /\ l \in todo[p]
        BY <2>1, <2>4 DEF Resolved
      <3>2. /\ hand'[p] = [lot |-> l, ref |-> r]
            /\ \A q \in Process \ {p} : hand'[q] = hand[q]
        BY <3>1 DEF TypeInv, RunType
      <3>3. IF r = NoRef
            THEN \A i \in DOMAIN Text(l), s \in Ref : ~Says(Text(l)[i], s)
            ELSE r \in catalogue /\ Names(l, r)
        BY <3>1, ResolvedIsNamed
      <3>4. l \in sold /\ catalogue \subseteq Ref
        BY <3>1 DEF TypeInv, TypeOK
      <3>5. TakenRightly(p)
        BY <3>1, <3>2, <3>3, <3>4 DEF TakenRightly
      <3>6. QED
        BY <2>2, <3>2, <3>5 DEF FromHand, TakenRightly
    <2>5. QED
      BY <2>3, <2>4
  <1>5. ASSUME NEW p \in Process, AppendLot(p) PROVE FromHand /\ \A q \in Process : TakenRightly(q)
    <2> DEFINE row == [lot |-> hand[p].lot, ref |-> hand[p].ref,
                       price |-> page[p][hand[p].lot]]
    <2>1. hand'[p] = Nothing /\ \A q \in Process \ {p} : hand'[q] = hand[q]
      BY <1>5, DoneType DEF AppendLot
    <2>2. ledger' = ledger \cup {row}
      BY <1>5 DEF AppendLot
    <2>3. hand[p].lot = row.lot /\ hand[p].ref = row.ref
      OBVIOUS
    <2> HIDE DEF row
    <2>4. QED
      BY <2>1, <2>2, <2>3 DEF FromHand, TakenRightly
  <1>6. ASSUME NEW p \in Process, queueForReview(p) PROVE FromHand /\ \A q \in Process : TakenRightly(q)
    <2>1. hand'[p] = Nothing /\ \A q \in Process \ {p} : hand'[q] = hand[q]
      BY <1>6, DoneType DEF queueForReview
    <2>2. QED
      BY <1>1, <1>6, <2>1 DEF queueForReview
  <1>7. ASSUME NEW p \in Process, Finish(p) \/ Fail(p) PROVE FromHand /\ \A q \in Process : TakenRightly(q)
    BY <1>2, <1>7 DEF Finish, Fail
  <1>8. CASE Disable \/ (\E l \in Lot : Sell(l) \/ Revise(l)) \/ (\E r \in Ref : Learn(r))
             \/ (\E p \in Process : Start(p)) \/ UNCHANGED vars
    BY <1>1, <1>8 DEF Disable, Sell, Revise, Learn, Start, vars
  <1>9. QED
    BY <1>3, <1>4, <1>5, <1>6, <1>7, <1>8 DEF Next

(* Whatever catalogue, texts and prices, and however runs interleave with  *)
(* one another and with additions to the catalogue, a lot is taken for     *)
(* what the first candidate that says something says alone, and for        *)
(* nothing else.                                                           *)
THEOREM NothingIsGuessed == Spec => NeverGuesses
  <1> DEFINE Step == FromHand /\ \A p \in Process : TakenRightly(p)
  <1>1. TypeInv /\ [Next]_vars => [Step]_vars
    BY FairStep
  <1>2. NeverGuesses <=> [][Step]_vars
    BY PTL DEF NeverGuesses, FromHand, TakenRightly
  <1>3. QED
    BY <1>1, <1>2, InitType, NextType, PTL DEF Spec

-----------------------------------------------------------------------------
\* While the catalogue is the first one, it alone decides on a lot's reference.
OnceInv ==
  catalogue = FirstCatalogue =>
    /\ \A p \in Process : hand[p].ref # NoRef =>
         hand[p].ref = FirstHit(FirstCatalogue, Text(hand[p].lot))
    /\ \A row \in ledger : row.ref = FirstHit(FirstCatalogue, Text(row.lot))

LEMMA OnceStep == TypeInv /\ GrowInv /\ OnceInv /\ [Next]_vars => OnceInv'
  <1> SUFFICES ASSUME TypeInv, GrowInv, OnceInv, [Next]_vars PROVE OnceInv'
    OBVIOUS
  <1> USE DEF world, tables, run
  <1>1. CASE /\ catalogue' = catalogue /\ ledger' = ledger
             /\ \A p \in Process : hand'[p] = hand[p] \/ hand'[p].ref = NoRef
    BY <1>1 DEF OnceInv
  <1>2. ASSUME NEW p \in Process, End(p), UNCHANGED <<world, ledger>> PROVE OnceInv'
    BY <1>1, <1>2, EndType DEF Nothing
  <1>3. ASSUME NEW p \in Process, FetchSale(p) PROVE OnceInv'
    <2>1. CASE End(p)
      BY <1>2, <1>3, <2>1 DEF FetchSale
    <2>2. CASE ~End(p)
      BY <1>1, <1>3, <2>2 DEF FetchSale
    <2>3. QED
      BY <2>1, <2>2
  <1>4. ASSUME NEW r \in Ref, Learn(r) PROVE OnceInv'
    BY <1>4 DEF Learn, OnceInv, GrowInv
  <1>5. ASSUME NEW p \in Process, NEW l \in Lot, ResolveLot(p, l) PROVE OnceInv'
    <2>1. PICK ks, r : Resolved(p, l, ks, r)
      BY <1>5, ResolveEffect
    <2>2. UNCHANGED <<world, tables, boot, faults, sale, page>>
      BY <1>5, ResolveEffect
    <2>3. CASE hand' = hand
      BY <1>1, <2>2, <2>3
    <2>4. CASE hand' # hand
      <3>1. /\ hand' = [hand EXCEPT ![p] = [lot |-> l, ref |-> r]]
            /\ ks # <<>> /\ ks \in Candidates(l) /\ r = FirstHit(catalogue, ks)
        BY <2>1, <2>4 DEF Resolved
      <3>2. /\ hand'[p] = [lot |-> l, ref |-> r]
            /\ \A q \in Process \ {p} : hand'[q] = hand[q]
        BY <3>1 DEF TypeInv, RunType
      <3>3. r = FirstHit(catalogue, Text(l))
        BY <3>1, CandidatesAreText
      <3>4. QED
        BY <2>2, <3>2, <3>3 DEF OnceInv
    <2>5. QED
      BY <2>3, <2>4
  <1>6. ASSUME NEW p \in Process, AppendLot(p) PROVE OnceInv'
    <2> DEFINE row == [lot |-> hand[p].lot, ref |-> hand[p].ref,
                       price |-> page[p][hand[p].lot]]
    <2>1. hand'[p] = Nothing /\ \A q \in Process \ {p} : hand'[q] = hand[q]
      BY <1>6, DoneType DEF AppendLot
    <2>2. ledger' = ledger \cup {row} /\ catalogue' = catalogue
          /\ row.lot = hand[p].lot /\ row.ref = hand[p].ref /\ hand[p].ref # NoRef
      BY <1>6 DEF AppendLot
    <2> HIDE DEF row
    <2>3. QED
      BY <2>1, <2>2 DEF OnceInv, Nothing
  <1>7. ASSUME NEW p \in Process, queueForReview(p) PROVE OnceInv'
    <2>1. hand'[p] = Nothing /\ \A q \in Process \ {p} : hand'[q] = hand[q]
      BY <1>7, DoneType DEF queueForReview
    <2>2. QED
      BY <1>1, <1>7, <2>1 DEF queueForReview, Nothing
  <1>8. ASSUME NEW p \in Process, Finish(p) \/ Fail(p) PROVE OnceInv'
    BY <1>2, <1>8 DEF Finish, Fail
  <1>9. CASE Disable \/ (\E l \in Lot : Sell(l) \/ Revise(l))
             \/ (\E p \in Process : Start(p)) \/ UNCHANGED vars
    BY <1>1, <1>9 DEF Disable, Sell, Revise, Start, vars
  <1>10. QED
    BY <1>3, <1>4, <1>5, <1>6, <1>7, <1>8, <1>9 DEF Next

LEMMA OnceInvImplies == TypeInv /\ OnceInv => OneRowPerSale
  <1> SUFFICES ASSUME TypeInv, OnceInv, catalogue = FirstCatalogue,
                      NEW a \in ledger, NEW b \in ledger, a.lot = b.lot, a.price = b.price
               PROVE  a = b
    BY DEF OneRowPerSale
  <1>1. a \in Row /\ b \in Row
    BY DEF TypeInv, TypeOK
  <1>2. a.ref = b.ref
    BY DEF OnceInv
  <1>3. QED
    BY <1>1, <1>2 DEF Row

(* Until the catalogue learns a reference, no number of runs, overlapping  *)
(* or killed, enters a lot twice with one price.                           *)
THEOREM SalesAreEnteredOnce == Spec => []OneRowPerSale
  <1>1. Init => GrowInv /\ OnceInv
    BY DEF Init, GrowInv, OnceInv, Nothing
  <1>2. QED
    BY <1>1, InitType, NextType, GrowStep, OnceStep, OnceInvImplies, PTL DEF Spec

-----------------------------------------------------------------------------
\* A lot of the page that is not to be handled any more is settled.
LeftInv ==
  \A p \in Process : \A l \in DOMAIN page[p] \cap Plain : l \in todo[p] \/ Settled(l)

LEMMA SettledStays ==
  ASSUME catalogue \subseteq catalogue', ledger \subseteq ledger',
         NEW l, queue[l] > 0 => queue'[l] > 0, Settled(l)
  PROVE  Settled(l)'
  BY DEF Settled

LEMMA LeftStays ==
  ASSUME LeftInv, catalogue \subseteq catalogue', ledger \subseteq ledger',
         \A l \in Lot : queue[l] > 0 => queue'[l] > 0,
         \A p \in Process :
           \/ page'[p] = page[p] /\ todo'[p] = todo[p]
           \/ \A l \in DOMAIN page'[p] \cap Plain : l \in todo'[p] \/ Settled(l)'
  PROVE  LeftInv'
  <1>1. ASSUME NEW l \in Plain, Settled(l) PROVE Settled(l)'
    BY <1>1, SettledStays DEF Plain
  <1>2. QED
    BY <1>1 DEF LeftInv

\* The lots of a run from which lot l is taken off.
LEMMA TakenOff ==
  ASSUME TypeInv, LeftInv, NEW p \in Process, NEW l \in Lot,
         page' = page, todo'[p] = todo[p] \ {l},
         \A q \in Process \ {p} : todo'[q] = todo[q],
         catalogue' = catalogue, ledger \subseteq ledger',
         \A k \in Lot : queue[k] > 0 => queue'[k] > 0,
         l \in Plain => Settled(l)'
  PROVE  LeftInv'
  <1>1. ASSUME NEW k \in Plain, Settled(k) PROVE Settled(k)'
    BY <1>1, SettledStays DEF Plain
  <1>2. \A k \in DOMAIN page'[p] \cap Plain : k \in todo'[p] \/ Settled(k)'
    BY <1>1 DEF LeftInv
  <1>3. QED
    BY <1>2, LeftStays

LEMMA LeftStep == TypeInv /\ LeftInv /\ [Next]_vars => LeftInv'
  <1> SUFFICES ASSUME TypeInv, LeftInv, [Next]_vars PROVE LeftInv'
    OBVIOUS
  <1> USE DEF world, tables, run
  <1>1. CASE /\ catalogue \subseteq catalogue' /\ UNCHANGED <<ledger, queue, page, todo>>
    BY <1>1, LeftStays
  <1>2. ASSUME NEW p \in Process, End(p), UNCHANGED <<catalogue, ledger, queue>>
        PROVE  LeftInv'
    BY <1>2, EndType, LeftStays DEF NoPage
  <1>3. ASSUME NEW p \in Process, FetchSale(p) PROVE LeftInv'
    <2>1. CASE End(p)
      BY <1>2, <1>3, <2>1 DEF FetchSale
    <2>2. CASE ~End(p)
      <3> DEFINE i == sale[p] + 1
      <3>1. /\ page' = [page EXCEPT ![p] = Published(i)]
            /\ todo' = [todo EXCEPT ![p] = Sales[i] \cap sold]
            /\ UNCHANGED <<catalogue, ledger, queue>>
        BY <1>3, <2>2 DEF FetchSale
      <3> HIDE DEF i
      <3>2. DOMAIN page'[p] = todo'[p]
            /\ \A q \in Process \ {p} : page'[q] = page[q] /\ todo'[q] = todo[q]
        BY <3>1 DEF TypeInv, RunType, Published
      <3>3. QED
        BY <3>1, <3>2, LeftStays
    <2>3. QED
      BY <2>1, <2>2
  <1>4. ASSUME NEW p \in Process, NEW l \in Lot, ResolveLot(p, l) PROVE LeftInv'
    <2>1. PICK ks, r : Resolved(p, l, ks, r)
      BY <1>4, ResolveEffect
    <2>2. UNCHANGED <<world, tables, boot, faults, sale, page>>
      BY <1>4, ResolveEffect
    <2>3. CASE todo' = todo
      BY <1>1, <2>2, <2>3
    <2>4. CASE todo' # todo
      <3>1. /\ todo' = [todo EXCEPT ![p] = @ \ {l}] /\ ks \in Candidates(l)
            /\ r = FirstHit(catalogue, ks)
            /\ \/ l \in NoCurrency \/ ks = <<>> \/ r \in Ref \ InScope
               \/ l \in NoRate /\ r # NoRef
        BY <2>1, <2>4 DEF Resolved
      <3>2. todo'[p] = todo[p] \ {l} /\ \A q \in Process \ {p} : todo'[q] = todo[q]
        BY <3>1 DEF TypeInv, RunType
      <3>3. ASSUME l \in Plain PROVE Settled(l)'
        <4>1. ks = titleKeys[l] /\ ks # <<>> /\ r \in Ref \ InScope
          BY <3>1, <3>3 DEF Plain, Candidates
        <4>2. ks = Text(l)
          BY <4>1 DEF Text
        <4>3. r # NoRef
          BY <4>1
        <4>4. r \in catalogue /\ \E i \in DOMAIN Text(l) : Matches(Text(l)[i], r)
          BY <3>1, <4>1, <4>3, ResolvedIsNamed
        <4>5. PICK i \in DOMAIN titleKeys[l] : Matches(titleKeys[l][i], r)
          BY <4>1, <4>2, <4>4
        <4>6. QED
          BY <2>2, <4>1, <4>4, <4>5 DEF Settled
      <3>4. QED
        BY <2>2, <3>2, <3>3, TakenOff
    <2>5. QED
      BY <2>3, <2>4
  <1>5. ASSUME NEW p \in Process, AppendLot(p) PROVE LeftInv'
    <2>1. PICK l \in Lot : l = hand[p].lot
      BY <1>5 DEF AppendLot, TypeInv, TypeOK, Nothing
    <2>2. todo'[p] = todo[p] \ {l} /\ \A q \in Process \ {p} : todo'[q] = todo[q]
      BY <1>5, <2>1, DoneType DEF AppendLot
    <2>3. /\ \E row \in ledger' : row.lot = l
          /\ ledger \subseteq ledger' /\ UNCHANGED <<catalogue, queue, page>>
      <3> DEFINE row == [lot |-> hand[p].lot, ref |-> hand[p].ref,
                         price |-> page[p][hand[p].lot]]
      <3>1. ledger' = ledger \cup {row} /\ UNCHANGED <<catalogue, queue, page>>
        BY <1>5 DEF AppendLot
      <3>2. row.lot = l
        BY <2>1
      <3> HIDE DEF row
      <3>3. QED
        BY <3>1, <3>2
    <2>4. Settled(l)'
      BY <2>3 DEF Settled
    <2>5. QED
      BY <2>1, <2>2, <2>3, <2>4, TakenOff
  <1>6. ASSUME NEW p \in Process, queueForReview(p) PROVE LeftInv'
    <2>0. PICK l \in Lot : l = hand[p].lot
      BY <1>6 DEF queueForReview, TypeInv, TypeOK
    <2>1. todo'[p] = todo[p] \ {l} /\ \A q \in Process \ {p} : todo'[q] = todo[q]
      BY <1>6, <2>0, DoneType DEF queueForReview
    <2>2. queue \in [Lot -> 0..MaxQueue] /\ MaxQueue \in Nat \ {0}
      BY AuctionAssumption DEF TypeInv, TypeOK
    <2>3. /\ queue' = [queue EXCEPT ![l] = IF queue[l] < MaxQueue THEN queue[l] + 1 ELSE queue[l]]
          /\ UNCHANGED <<catalogue, ledger, page>>
      BY <1>6, <2>0 DEF queueForReview
    <2>4. queue'[l] > 0 /\ \A k \in Lot : queue[k] > 0 => queue'[k] > 0
      <3>1. queue[l] \in 0..MaxQueue
        BY <2>2
      <3>2. queue'[l] > 0
        BY <2>2, <2>3, <3>1
      <3>3. \A k \in Lot \ {l} : queue'[k] = queue[k]
        BY <2>2, <2>3
      <3>4. QED
        BY <3>2, <3>3
    <2>5. Settled(l)'
      BY <2>4 DEF Settled
    <2>6. QED
      BY <2>1, <2>2, <2>3, <2>4, <2>5, TakenOff
  <1>7. ASSUME NEW p \in Process, Finish(p) \/ Fail(p) PROVE LeftInv'
    BY <1>2, <1>7 DEF Finish, Fail
  <1>8. CASE Disable \/ (\E l \in Lot : Sell(l) \/ Revise(l)) \/ (\E r \in Ref : Learn(r))
             \/ (\E p \in Process : Start(p)) \/ UNCHANGED vars
    BY <1>1, <1>8 DEF Disable, Sell, Revise, Learn, Start, vars
  <1>9. QED
    BY <1>3, <1>4, <1>5, <1>6, <1>7, <1>8 DEF Next

LEMMA LeftBehindStep ==
  ASSUME TypeInv, LeftInv, [Next]_vars, NEW p \in Process, sale'[p] > sale[p] \/ Finish(p),
         NEW l \in DOMAIN page[p] \cap Plain
  PROVE  Settled(l)
  <1> USE DEF world, tables, run
  <1>1. ASSUME NEW q \in Process, End(q) PROVE ~(sale'[p] > sale[p])
    <2>1. sale[p] \in Nat
      BY DEF TypeInv, RunType
    <2>2. sale'[p] = 0 \/ sale'[p] = sale[p]
      BY <1>1, EndType
    <2>3. QED
      BY <2>1, <2>2
  <1>2. CASE UNCHANGED sale /\ ~Finish(p)
    BY <1>2 DEF TypeInv, RunType
  <1>3. ASSUME NEW q \in Process, FetchSale(q), ~Finish(p) PROVE todo[p] = {}
    <2>1. CASE q = p
      BY <1>3, <2>1 DEF FetchSale
    <2>2. CASE q # p
      <3>1. sale'[p] = sale[p]
        BY <1>3, <2>2, EndType DEF FetchSale, TypeInv, RunType
      <3>2. QED
        BY <1>3, <3>1 DEF TypeInv, RunType
    <2>3. QED
      BY <2>1, <2>2
  <1>4. CASE Finish(p)
    BY <1>4 DEF Finish, LeftInv
  <1>5. ASSUME NEW q \in Process, Finish(q) \/ Fail(q), ~Finish(p) PROVE FALSE
    BY <1>1, <1>5 DEF Finish, Fail
  <1>6. ASSUME ~Finish(p) PROVE UNCHANGED sale \/ \E q \in Process : FetchSale(q) \/ Finish(q) \/ Fail(q)
    BY DEF Next, vars, Sell, Revise, Learn, Disable, Start, ResolveLot, AppendLot, queueForReview
  <1>7. QED
    BY <1>2, <1>3, <1>4, <1>5, <1>6 DEF LeftInv

(* A run, wherever other runs are and whatever the catalogue has learnt,   *)
(* goes on to the next sale only when every lot that it can settle is in   *)
(* the ledger, in the review queue or out of scope.                        *)
THEOREM NoLotIsLeftBehind == Spec => NoLotLeftBehind
  <1>1. Init => LeftInv
    BY DEF Init, LeftInv, NoPage
  <1>2. ASSUME TypeInv, LeftInv, [Next]_vars
        PROVE  [\A p \in Process : (sale'[p] > sale[p] \/ Finish(p))
                  => \A l \in DOMAIN page[p] \cap Plain : Settled(l)]_vars
    BY <1>2, LeftBehindStep
  <1>3. QED
    BY <1>1, <1>2, InitType, NextType, LeftStep, PTL DEF Spec, NoLotLeftBehind
=============================================================================
