---------------------------- MODULE StoreProofs ----------------------------
(***************************************************************************)
(* Proofs about the verdict store and the two tools that are run against   *)
(* it, the harness (Reproduce) and the operator's purge and import         *)
(* (LedgerOps), for every set of events, cells, rulesets and workers and   *)
(* every bound.                                                            *)
(***************************************************************************)
EXTENDS Reproduce, LedgerOps, FiniteSetTheorems, SequenceTheorems, TLAPS

USE EventAssumption, RulesetAssumption, TrimAssumption, BoundAssumption

(* The evidence that a prefix of the ledger holds is made of events.       *)
LEMMA EvidenceType ==
  ASSUME NEW l \in Seq(Event), NEW n \in 0..Len(l), NEW c \in Cell
  PROVE  /\ Prefix(l, n) \subseteq Event
         /\ Readable(Prefix(l, n)) \subseteq Event
         /\ Evidence(c, l, n) \subseteq Event
  BY DEF Prefix, Readable, Evidence, InCell

(* Appending leaves every earlier prefix of the ledger as it was: what a   *)
(* run read stays a moment of the ledger's past (INSERT OR IGNORE).        *)
LEMMA PrefixStable ==
  ASSUME NEW e \in Event, ledger \in Seq(Event), AppendObservation(e)
  PROVE  /\ ledger' \in Seq(Event)
         /\ Len(ledger) <= Len(ledger')
         /\ \A n \in 0..Len(ledger) : Prefix(ledger', n) = Prefix(ledger, n)
  <1>1. CASE e \in Recorded
    BY <1>1 DEF AppendObservation
  <1>2. CASE e \notin Recorded
    <2>1. ledger' = Append(ledger, e)
      BY <1>2 DEF AppendObservation
    <2>2. \A i \in 1..Len(ledger) : ledger'[i] = ledger[i]
      BY <2>1
    <2>3. QED
      BY <2>1, <2>2 DEF Prefix
  <1>3. QED
    BY <1>1, <1>2

(* What ComputeVerdict builds is a row of verdict_content.                 *)
LEMMA ComputeVerdictType ==
  ASSUME NEW c \in Cell, NEW S \in SUBSET Event, NEW r \in Ruleset,
         NEW t \in Nat, clock \in Nat
  PROVE  ComputeVerdict(c, S, r, t) \in Verdict
  <1>1. Kept(S) \in SUBSET Event
    OBVIOUS
  <1>2. FailingGates(S, r, t) \in SUBSET Gate
    BY DEF FailingGates
  <1>3. QED
    BY <1>1, <1>2 DEF ComputeVerdict, Verdict

(* A save leaves the other rows alone and stores, under its address, the   *)
(* row it was given with some creation time.                               *)
LEMMA SaveEffect ==
  ASSUME NEW v \in Verdict, verdicts \subseteq Verdict, SaveVerdictContent(v)
  PROVE  /\ verdicts' \subseteq Verdict
         /\ \E n \in Nat :
              verdicts' = {w \in verdicts : ~SameAddress(w, v)} \cup
                          {[v EXCEPT !.createdAt = n]}
  <1> DEFINE kin == CHOOSE w \in verdicts : SameAddress(w, v)
  <1> DEFINE at == IF \E w \in verdicts : SameAddress(w, v)
                   THEN kin.createdAt ELSE v.createdAt
  <1>1. at \in Nat
    <2>1. CASE \E w \in verdicts : SameAddress(w, v)
      <3>1. kin \in verdicts
        BY <2>1
      <3>2. QED
        BY <2>1, <3>1 DEF Verdict
    <2>2. CASE ~ \E w \in verdicts : SameAddress(w, v)
      BY <2>2 DEF Verdict
    <2>3. QED
      BY <2>1, <2>2
  <1>2. verdicts' = {w \in verdicts : ~SameAddress(w, v)} \cup
                    {[v EXCEPT !.createdAt = at]}
    BY DEF SaveVerdictContent
  <1> HIDE DEF at
  <1>3. [v EXCEPT !.createdAt = at] \in Verdict
    BY <1>1 DEF Verdict
  <1>4. QED
    BY <1>1, <1>2, <1>3

-----------------------------------------------------------------------------
(* The shape of the state, which every step keeps.                         *)
LEMMA InitTypeOK == Init => TypeOK
  BY DEF Init, TypeOK

LEMMA NextTypeOK == TypeOK /\ [Next]_vars => TypeOK'
  <1> SUFFICES ASSUME TypeOK, [Next]_vars PROVE TypeOK'
    OBVIOUS
  <1> USE DEF TypeOK
  <1>1. ASSUME NEW e \in Event, Ingest(e) PROVE TypeOK'
    BY <1>1, PrefixStable DEF Ingest, run
  <1>2. CASE NightlyRun
    BY <1>2 DEF NightlyRun, Begin, SaveRuleset, Worker
  <1>3. ASSUME NEW w \in Web, NEW e \in Event, CuratorRun(w, e) PROVE TypeOK'
    BY <1>3, PrefixStable DEF CuratorRun, Begin, Worker
  <1>4. ASSUME NEW w \in Worker, Select(w) PROVE TypeOK'
    <2>1. Readable(Recorded) \subseteq Event
      BY DEF Readable, Recorded, Prefix
    <2>2. {cellOf[e] : e \in Readable(Recorded)} \subseteq Cell
      BY <2>1
    <2>3. QED
      BY <1>4, <2>1, <2>2 DEF Select
  <1>5. ASSUME NEW w \in Worker, NEW c \in Cell, Save(w, c) PROVE TypeOK'
    <2> DEFINE S == InCell(c, rows[w])
    <2> DEFINE v == ComputeVerdict(c, S, current, now[w])
    <2>1. S \in SUBSET Event /\ now[w] \in Nat
      BY DEF InCell
    <2>2. v \in Verdict
      BY <2>1, ComputeVerdictType
    <2>3. verdicts' \subseteq Verdict
      <3>1. CASE Computable(S, current)
        <4>1. SaveVerdictContent(v)
          BY <1>5, <3>1 DEF Save
        <4> HIDE DEF v
        <4>2. QED
          BY <2>2, <4>1, SaveEffect
      <3>2. CASE ~Computable(S, current)
        BY <1>5, <3>2 DEF Save
      <3>3. QED
        BY <3>1, <3>2
    <2>4. QED
      BY <1>5, <2>3 DEF Save
  <1>6. ASSUME NEW w \in Worker, Finish(w) PROVE TypeOK'
    BY <1>6 DEF Finish, End
  <1>7. ASSUME NEW w \in Worker, Fail(w) PROVE TypeOK'
    BY <1>7 DEF Fail, End
  <1>8. ASSUME NEW r \in Ruleset, Deploy(r) PROVE TypeOK'
    BY <1>8 DEF Deploy
  <1>9. CASE Tick
    BY <1>9 DEF Tick, run
  <1>10. CASE UNCHANGED vars
    BY <1>10 DEF vars, run
  <1>11. QED
    BY <1>1, <1>2, <1>3, <1>4, <1>5, <1>6, <1>7, <1>8, <1>9, <1>10 DEF Next

(* The type invariant holds in every reachable state.                      *)
THEOREM TypeCorrect == Spec => []TypeOK
  BY InitTypeOK, NextTypeOK, PTL DEF Spec

-----------------------------------------------------------------------------
(***************************************************************************)
(* EvidenceIsSnapshot is not inductive: a save stores what the run read,   *)
(* at a time when the ledger may have grown.  It becomes inductive with    *)
(* what a saving run holds in memory: the rows of some past moment.        *)
(***************************************************************************)
RowsAreSnapshot ==
  \A w \in Worker : pc[w] = "saving" =>
    \E n \in 0..Len(ledger) : rows[w] = Readable(Prefix(ledger, n))

SnapshotInv == RowsAreSnapshot /\ EvidenceIsSnapshot

(* A step that only appends to the ledger or leaves it, and that neither   *)
(* stores a verdict nor lets a run read, keeps both parts.                 *)
LEMMA SnapshotFrame ==
  ASSUME TypeOK, SnapshotInv, verdicts' = verdicts,
         \A w \in Worker : pc'[w] = "saving" =>
            pc[w] = "saving" /\ rows'[w] = rows[w],
         Len(ledger) <= Len(ledger'), Len(ledger') \in Nat,
         \A n \in 0..Len(ledger) : Prefix(ledger', n) = Prefix(ledger, n)
  PROVE  SnapshotInv'
  <1>0. Len(ledger) \in Nat
    BY DEF TypeOK
  <1>1. RowsAreSnapshot'
    BY <1>0 DEF SnapshotInv, RowsAreSnapshot
  <1>2. EvidenceIsSnapshot'
    BY <1>0 DEF SnapshotInv, EvidenceIsSnapshot, Evidence
  <1>3. QED
    BY <1>1, <1>2 DEF SnapshotInv

LEMMA InitSnapshot == Init => SnapshotInv
  BY DEF Init, SnapshotInv, RowsAreSnapshot, EvidenceIsSnapshot

LEMMA NextSnapshot == TypeOK /\ SnapshotInv /\ [Next]_vars => SnapshotInv'
  <1> SUFFICES ASSUME TypeOK, SnapshotInv, [Next]_vars PROVE SnapshotInv'
    OBVIOUS
  <1>0. /\ ledger \in Seq(Event) /\ Len(ledger) \in Nat
        /\ pc \in [Worker -> {"idle", "begun", "saving"}]
        /\ rows \in [Worker -> SUBSET Event]
    BY DEF TypeOK
  <1>1. ASSUME NEW e \in Event, Ingest(e) PROVE SnapshotInv'
    BY <1>0, <1>1, PrefixStable, SnapshotFrame DEF Ingest, run
  <1>2. CASE NightlyRun
    BY <1>0, <1>2, SnapshotFrame DEF NightlyRun, Begin, Worker
  <1>3. ASSUME NEW w \in Web, NEW e \in Event, CuratorRun(w, e)
        PROVE  SnapshotInv'
    BY <1>0, <1>3, PrefixStable, SnapshotFrame DEF CuratorRun, Begin, Worker
  <1>4. ASSUME NEW w \in Worker, Select(w) PROVE SnapshotInv'
    <2>1. RowsAreSnapshot'
      <3> SUFFICES ASSUME NEW u \in Worker, pc'[u] = "saving"
                   PROVE  \E n \in 0..Len(ledger') :
                             rows'[u] = Readable(Prefix(ledger', n))
        BY DEF RowsAreSnapshot
      <3>1. CASE u = w
        BY <1>0, <1>4, <3>1 DEF Select, Recorded
      <3>2. CASE u # w
        BY <1>0, <1>4, <3>2 DEF Select, SnapshotInv, RowsAreSnapshot
      <3>3. QED
        BY <3>1, <3>2
    <2>2. EvidenceIsSnapshot'
      BY <1>4 DEF Select, SnapshotInv, EvidenceIsSnapshot
    <2>3. QED
      BY <2>1, <2>2 DEF SnapshotInv
  <1>5. ASSUME NEW w \in Worker, NEW c \in Cell, Save(w, c) PROVE SnapshotInv'
    <2> DEFINE S == InCell(c, rows[w])
    <2> DEFINE v == ComputeVerdict(c, S, current, now[w])
    <2>1. UNCHANGED <<ledger, pc, rows>> /\ pc[w] = "saving"
      BY <1>5 DEF Save
    <2>2. RowsAreSnapshot'
      BY <2>1 DEF SnapshotInv, RowsAreSnapshot
    <2>3. EvidenceIsSnapshot'
      <3>1. CASE Computable(S, current)
        <4>1. SaveVerdictContent(v)
          BY <1>5, <3>1 DEF Save
        <4>2. v \in Verdict
          BY ComputeVerdictType DEF TypeOK, InCell
        <4>3. v.cell = c /\ v.inputs = S
          BY DEF ComputeVerdict
        <4>4. PICK n \in 0..Len(ledger) : S = Evidence(c, ledger, n)
          BY <2>1 DEF SnapshotInv, RowsAreSnapshot, Evidence
        <4> HIDE DEF v, S
        <4>5. PICK t \in Nat :
                verdicts' = {u \in verdicts : ~SameAddress(u, v)} \cup
                            {[v EXCEPT !.createdAt = t]}
          BY <4>1, <4>2, SaveEffect DEF TypeOK
        <4>6. /\ [v EXCEPT !.createdAt = t].cell = c
              /\ [v EXCEPT !.createdAt = t].inputs = S
          BY <4>2, <4>3 DEF Verdict
        <4>7. QED
          BY <2>1, <4>4, <4>5, <4>6 DEF SnapshotInv, EvidenceIsSnapshot
      <3>2. CASE ~Computable(S, current)
        BY <1>5, <2>1, <3>2 DEF Save, SnapshotInv, EvidenceIsSnapshot
      <3>3. QED
        BY <3>1, <3>2
    <2>4. QED
      BY <2>2, <2>3 DEF SnapshotInv
  <1>6. ASSUME NEW w \in Worker, Finish(w) PROVE SnapshotInv'
    BY <1>0, <1>6, SnapshotFrame DEF Finish, End
  <1>7. ASSUME NEW w \in Worker, Fail(w) PROVE SnapshotInv'
    BY <1>0, <1>7, SnapshotFrame DEF Fail, End
  <1>8. ASSUME NEW r \in Ruleset, Deploy(r) PROVE SnapshotInv'
    BY <1>0, <1>8, SnapshotFrame DEF Deploy
  <1>9. CASE Tick
    BY <1>0, <1>9, SnapshotFrame DEF Tick, run
  <1>10. CASE UNCHANGED vars
    BY <1>0, <1>10, SnapshotFrame DEF vars, run
  <1>11. QED
    BY <1>1, <1>2, <1>3, <1>4, <1>5, <1>6, <1>7, <1>8, <1>9, <1>10 DEF Next

(* Every stored verdict rests on the whole evidence that its cell had      *)
(* after some prefix of the ledger, however runs overlap, fail or die.     *)
THEOREM SnapshotCorrect == Spec => []EvidenceIsSnapshot
  <1>1. Spec => []SnapshotInv
    BY TypeCorrect, InitSnapshot, NextSnapshot, PTL DEF Spec
  <1>2. SnapshotInv => EvidenceIsSnapshot
    BY DEF SnapshotInv
  <1>3. QED
    BY <1>1, <1>2, PTL

-----------------------------------------------------------------------------
(* What a row says of its own evidence, ruleset and time.                  *)
Reproduces(v) ==
  /\ Computable(v.inputs, v.rules)
  /\ v.range = Kept(v.inputs)
  /\ v.failing = FailingGates(v.inputs, v.rules, v.computedAt)

(* A save of a computed verdict keeps every row reproducible, although it  *)
(* replaces the result of a row with the same address.                     *)
LEMMA SaveReproduces ==
  ASSUME TypeOK, StoredClaimReproduces,
         NEW c \in Cell, NEW S \in SUBSET Event, NEW t \in Nat,
         Computable(S, current),
         SaveVerdictContent(ComputeVerdict(c, S, current, t))
  PROVE  StoredClaimReproduces'
  <1> DEFINE v == ComputeVerdict(c, S, current, t)
  <1>1. v \in Verdict
    BY ComputeVerdictType DEF TypeOK
  <1>2. v.inputs = S /\ v.rules = current /\ v.range = Kept(S) /\
        v.failing = FailingGates(S, current, t) /\ v.computedAt = t
    BY DEF ComputeVerdict
  <1>3. SaveVerdictContent(v)
    OBVIOUS
  <1> HIDE DEF v
  <1>4. PICK n \in Nat : verdicts' = {u \in verdicts : ~SameAddress(u, v)} \cup
                                     {[v EXCEPT !.createdAt = n]}
    BY <1>1, <1>3, SaveEffect DEF TypeOK
  <1> DEFINE x == [v EXCEPT !.createdAt = n]
  <1>5. /\ x.inputs = S /\ x.rules = current /\ x.range = Kept(S)
        /\ x.failing = FailingGates(S, current, t) /\ x.computedAt = t
    BY <1>1, <1>2 DEF Verdict
  <1> HIDE DEF x
  <1>6. Reproduces(x)
    BY <1>5 DEF Reproduces
  <1>7. \A u \in verdicts : Reproduces(u)
    BY DEF StoredClaimReproduces, Reproduces
  <1>8. \A u \in verdicts' : Reproduces(u)
    BY <1>4, <1>6, <1>7 DEF x
  <1>9. QED
    BY <1>8 DEF StoredClaimReproduces, Reproduces

LEMMA NextReproduces ==
  TypeOK /\ StoredClaimReproduces /\ [Next]_vars => StoredClaimReproduces'
  <1> SUFFICES ASSUME TypeOK, StoredClaimReproduces, [Next]_vars
               PROVE  StoredClaimReproduces'
    OBVIOUS
  <1>1. ASSUME NEW w \in Worker, NEW c \in Cell, Save(w, c)
        PROVE  StoredClaimReproduces'
    <2>1. InCell(c, rows[w]) \in SUBSET Event /\ now[w] \in Nat
      BY DEF TypeOK, InCell
    <2>2. CASE Computable(InCell(c, rows[w]), current)
      <3>1. SaveVerdictContent(
              ComputeVerdict(c, InCell(c, rows[w]), current, now[w]))
        BY <1>1, <2>2 DEF Save
      <3>2. QED
        BY <2>1, <2>2, <3>1, SaveReproduces
    <2>3. CASE ~Computable(InCell(c, rows[w]), current)
      BY <1>1, <2>3 DEF Save, StoredClaimReproduces
    <2>4. QED
      BY <2>2, <2>3
  <1>2. CASE UNCHANGED verdicts
    BY <1>2 DEF StoredClaimReproduces
  <1>3. UNCHANGED verdicts \/ \E w \in Worker, c \in Cell : Save(w, c)
    BY DEF Next, vars, Ingest, NightlyRun, CuratorRun, Select, Finish, Fail,
           Deploy, Tick
  <1>4. QED
    BY <1>1, <1>2, <1>3

(* Whatever overwrote it, a stored verdict follows from the evidence, the  *)
(* ruleset and the time that it stores.                                    *)
THEOREM ReproduciblyStored == Spec => []StoredClaimReproduces
  <1>1. Init => StoredClaimReproduces
    BY DEF Init, StoredClaimReproduces
  <1>2. QED
    BY <1>1, TypeCorrect, NextReproduces, PTL DEF Spec

-----------------------------------------------------------------------------
(***************************************************************************)
(* VerdictStore implements VerdictPromise under the mapping that forgets   *)
(* the times of a row and its freshness gate.                              *)
(***************************************************************************)
Bare(v) ==
  [cell |-> v.cell, inputs |-> v.inputs, rules |-> v.rules,
   range |-> v.range, failing |-> v.failing \ {"freshness"}]

(* Only the freshness gate looks at the time.                              *)
LEMMA OnlyFreshnessAges ==
  ASSUME NEW S, NEW r, NEW t, NEW u
  PROVE  FailingGates(S, r, t) \ {"freshness"} =
         FailingGates(S, r, u) \ {"freshness"}
  BY DEF FailingGates

(* The claim behind a row that reproduces is the claim that the promise    *)
(* makes for its address.                                                  *)
LEMMA BareIsClaim ==
  ASSUME NEW v, Reproduces(v)
  PROVE  Bare(v) = Promise!Claim(v.cell, v.inputs, v.rules)
  <1>1. v.failing \ {"freshness"} =
        FailingGates(v.inputs, v.rules, 0) \ {"freshness"}
    BY OnlyFreshnessAges DEF Reproduces
  <1>2. QED
    BY <1>1 DEF Bare, Promise!Claim, Reproduces, FailingGates,
                Promise!FailingGates, Gate, Promise!Gate, Cardinality,
                Promise!Cardinality

(* A save publishes one claim, or states one again.                        *)
LEMMA SavePublishes ==
  ASSUME TypeOK, StoredClaimReproduces,
         NEW c \in Cell, NEW S \in SUBSET Event, NEW t \in Nat,
         Computable(S, current),
         SaveVerdictContent(ComputeVerdict(c, S, current, t))
  PROVE  Claims' = Claims \cup {Promise!Claim(c, S, current)}
  <1> DEFINE v == ComputeVerdict(c, S, current, t)
  <1>1. v \in Verdict
    BY ComputeVerdictType DEF TypeOK
  <1>2. Reproduces(v) /\ v.cell = c /\ v.inputs = S /\ v.rules = current
    BY DEF ComputeVerdict, Reproduces
  <1>3. SaveVerdictContent(v)
    OBVIOUS
  <1> HIDE DEF v
  <1>4. PICK n \in Nat : verdicts' = {u \in verdicts : ~SameAddress(u, v)} \cup
                                     {[v EXCEPT !.createdAt = n]}
    BY <1>1, <1>3, SaveEffect DEF TypeOK
  <1> DEFINE x == [v EXCEPT !.createdAt = n]
  <1>5. Bare(x) = Bare(v)
    BY <1>1 DEF Bare, Verdict
  <1> HIDE DEF x
  <1>6. Bare(v) = Promise!Claim(c, S, current)
    BY <1>2, BareIsClaim
  <1>7. \A u \in verdicts : SameAddress(u, v) => Bare(u) = Bare(v)
    <2> SUFFICES ASSUME NEW u \in verdicts, SameAddress(u, v)
                 PROVE  Bare(u) = Bare(v)
      OBVIOUS
    <2>1. Reproduces(u)
      BY DEF StoredClaimReproduces, Reproduces
    <2>2. Bare(u) = Promise!Claim(u.cell, u.inputs, u.rules)
      BY <2>1, BareIsClaim
    <2>3. QED
      BY <1>2, <1>6, <2>2 DEF SameAddress
  <1>8. Claims = {Bare(u) : u \in verdicts} /\
        Claims' = {Bare(u) : u \in verdicts'}
    BY DEF Claims, Bare
  <1>9. verdicts' = {u \in verdicts : ~SameAddress(u, v)} \cup {x}
    BY <1>4 DEF x
  <1>10. QED
    BY <1>5, <1>6, <1>7, <1>8, <1>9

LEMMA InitPromise == Init => Promise!Init
  BY DEF Init, Promise!Init, Claims

LEMMA AppendPromise ==
  ASSUME TypeOK, NEW e \in Event, AppendObservation(e), UNCHANGED verdicts
  PROVE  [Promise!Next]_<<ledger, Claims>>
  <1>1. UNCHANGED Claims
    BY DEF Claims
  <1>2. CASE e \in Recorded
    BY <1>1, <1>2 DEF AppendObservation
  <1>3. CASE e \notin Recorded
    BY <1>1, <1>3 DEF AppendObservation, Recorded, Prefix, Promise!Prefix,
                      Promise!Record, Promise!Next
  <1>4. QED
    BY <1>2, <1>3

LEMMA NextPromise ==
  TypeOK /\ SnapshotInv /\ StoredClaimReproduces /\ [Next]_vars
    => [Promise!Next]_<<ledger, Claims>>
  <1> SUFFICES ASSUME TypeOK, SnapshotInv, StoredClaimReproduces, [Next]_vars
               PROVE  [Promise!Next]_<<ledger, Claims>>
    OBVIOUS
  <1>1. ASSUME NEW e \in Event, Ingest(e)
        PROVE  [Promise!Next]_<<ledger, Claims>>
    BY <1>1, AppendPromise DEF Ingest
  <1>2. ASSUME NEW w \in Web, NEW e \in Event, CuratorRun(w, e)
        PROVE  [Promise!Next]_<<ledger, Claims>>
    BY <1>2, AppendPromise DEF CuratorRun
  <1>3. ASSUME NEW w \in Worker, NEW c \in Cell, Save(w, c)
        PROVE  [Promise!Next]_<<ledger, Claims>>
    <2> DEFINE S == InCell(c, rows[w])
    <2>1. S \in SUBSET Event /\ now[w] \in Nat /\ current \in Ruleset
      BY DEF TypeOK, InCell
    <2>2. UNCHANGED ledger /\ pc[w] = "saving"
      BY <1>3 DEF Save
    <2>3. CASE Computable(S, current)
      <3>1. SaveVerdictContent(ComputeVerdict(c, S, current, now[w]))
        BY <1>3, <2>3 DEF Save
      <3>2. Claims' = Claims \cup {Promise!Claim(c, S, current)}
        BY <2>1, <2>3, <3>1, SavePublishes
      <3>3. PICK n \in 0..Len(ledger) : S = Evidence(c, ledger, n)
        BY <2>2 DEF SnapshotInv, RowsAreSnapshot, Evidence
      <3>4. S = Promise!Evidence(c, ledger, n)
        BY <3>3 DEF Evidence, InCell, Readable, Prefix, Promise!Evidence,
                    Promise!InCell, Promise!Readable, Promise!Prefix
      <3>5. Promise!Computable(S, current)
        BY <2>3 DEF Computable, Promise!Computable, Cardinality, Promise!Cardinality,
                    IsFiniteSet, Promise!IsFiniteSet
      <3> HIDE DEF S
      <3>6. Promise!Publish(c, current)
        BY <2>2, <3>2, <3>4, <3>5 DEF Promise!Publish
      <3>7. QED
        BY <2>1, <3>6 DEF Promise!Next
    <2>4. CASE ~Computable(S, current)
      BY <1>3, <2>4 DEF Save, Claims
    <2>5. QED
      BY <2>3, <2>4
  <1>4. CASE UNCHANGED <<ledger, verdicts>>
    BY <1>4 DEF Claims
  <1>5. \/ \E e \in Event : Ingest(e)
        \/ \E w \in Web, e \in Event : CuratorRun(w, e)
        \/ \E w \in Worker, c \in Cell : Save(w, c)
        \/ UNCHANGED <<ledger, verdicts>>
    BY DEF Next, vars, NightlyRun, Select, Finish, Fail, Deploy, Tick
  <1>6. QED
    BY <1>1, <1>2, <1>3, <1>4, <1>5

(* Overlapping, failing and killed compute runs do no more, seen through   *)
(* the two tables, than the promise allows: append-only evidence, and      *)
(* verdicts that, once made, keep saying what they said.                   *)
THEOREM Refinement == Spec => KeepsPromise
  <1>1. Spec => []SnapshotInv
    BY TypeCorrect, InitSnapshot, NextSnapshot, PTL DEF Spec
  <1>2. QED
    BY <1>1, TypeCorrect, ReproduciblyStored, InitPromise, NextPromise, PTL
       DEF Spec, KeepsPromise, Promise!Spec
-----------------------------------------------------------------------------
(***************************************************************************)
(* The harness, at work beside any number of runs, never blames code that  *)
(* is right.                                                               *)
(***************************************************************************)
USE NoneAssumption, MaxOpsAssumption

(* What LoadCellObservations finds for a cell.                             *)
Found(c) == InCell(c, (Recorded \cap Realised) \ Untidy)

(* What the harness holds between its two reads and the comparison.        *)
HeldReproduces ==
  hpc # "idle" => /\ Reproduces(stored)
                  /\ stored.inputs \ Untidy \subseteq Found(stored.cell)

ReadCovers == hpc = "computing" => stored.inputs \ Untidy \subseteq read

QuietUntilDone == hpc # "done" => outcome = None

HarnessInv ==
  /\ TypeOK /\ SnapshotInv /\ StoredClaimReproduces
  /\ HeldReproduces /\ ReadCovers /\ QuietUntilDone /\ FailOnlyOnNewEvidence

(* No step of the system takes a row out of the ledger.                    *)
LEMMA RecordedGrows == TypeOK /\ [Next]_vars => Recorded \subseteq Recorded'
  <1> SUFFICES ASSUME TypeOK, [Next]_vars PROVE Recorded \subseteq Recorded'
    OBVIOUS
  <1>1. ledger \in Seq(Event) /\ Len(ledger) \in Nat
    BY DEF TypeOK
  <1>2. ASSUME NEW e \in Event, AppendObservation(e)
        PROVE  Recorded \subseteq Recorded'
    <2>1. /\ Len(ledger) <= Len(ledger') /\ Len(ledger') \in Nat
          /\ Prefix(ledger', Len(ledger)) = Prefix(ledger, Len(ledger))
      BY <1>1, <1>2, PrefixStable
    <2>2. 1..Len(ledger) \subseteq 1..Len(ledger')
      BY <1>1, <2>1
    <2>3. Prefix(ledger', Len(ledger)) \subseteq Prefix(ledger', Len(ledger'))
      BY <2>2 DEF Prefix
    <2>4. QED
      BY <2>1, <2>3 DEF Recorded
  <1>3. CASE UNCHANGED ledger
    BY <1>3 DEF Recorded
  <1>4. UNCHANGED ledger \/ \E e \in Event : AppendObservation(e)
    BY DEF Next, vars, Ingest, NightlyRun, CuratorRun, Select, Save, Finish,
           Fail, Deploy, Tick
  <1>5. QED
    BY <1>2, <1>3, <1>4

(* The evidence of a stored verdict is found again, and so is whatever was *)
(* added since.                                                            *)
LEMMA StoredIsFound ==
  ASSUME TypeOK, SnapshotInv, NEW v \in verdicts
  PROVE  v.inputs \ Untidy \subseteq Found(v.cell)
  <1>1. PICK n \in 0..Len(ledger) : v.inputs = Evidence(v.cell, ledger, n)
    BY DEF SnapshotInv, EvidenceIsSnapshot
  <1>2. Prefix(ledger, n) \subseteq Recorded
    BY DEF TypeOK, Prefix, Recorded
  <1>3. QED
    BY <1>1, <1>2 DEF Evidence, InCell, Readable, Found

(* A step of the harness leaves the system's tables as the invariants of   *)
(* VerdictStore want them: the rulesets table is in none of them.          *)
LEMMA HarnessFrame ==
  ASSUME TypeOK, SnapshotInv, StoredClaimReproduces,
         UNCHANGED <<ledger, verdicts, current, clock, faults, run>>,
         SaveRuleset \/ UNCHANGED rulesets
  PROVE  /\ TypeOK' /\ SnapshotInv' /\ StoredClaimReproduces'
         /\ Recorded' = Recorded
  <1>1. TypeOK'
    BY DEF TypeOK, SaveRuleset, run
  <1>2. SnapshotInv'
    BY DEF SnapshotInv, RowsAreSnapshot, EvidenceIsSnapshot, run
  <1>3. QED
    BY <1>1, <1>2 DEF StoredClaimReproduces, Recorded

LEMMA InitHarness == HInit => HarnessInv
  BY InitTypeOK, InitSnapshot
     DEF HInit, HarnessInv, HeldReproduces, ReadCovers, QuietUntilDone,
         FailOnlyOnNewEvidence, Init, StoredClaimReproduces

LEMMA NextHarness == HarnessInv /\ [HNext]_hvars => HarnessInv'
  <1> SUFFICES ASSUME HarnessInv, [HNext]_hvars PROVE HarnessInv'
    OBVIOUS
  <1>1. CASE [Next]_vars /\ UNCHANGED harness
    <2>1. TypeOK' /\ SnapshotInv' /\ StoredClaimReproduces'
      BY <1>1, NextTypeOK, NextSnapshot, NextReproduces DEF HarnessInv
    <2>2. \A c : InCell(c, (Recorded \cap Realised) \ Untidy) \subseteq
                InCell(c, (Recorded' \cap Realised) \ Untidy)
      <3>1. Recorded \subseteq Recorded'
        BY <1>1, RecordedGrows DEF HarnessInv
      <3>2. QED
        BY <3>1 DEF InCell
    <2>3. HeldReproduces'
      <3>1. UNCHANGED <<hpc, stored>>
        BY <1>1 DEF harness
      <3>2. CASE hpc # "idle"
        <4>1. /\ Reproduces(stored)
              /\ stored.inputs \ Untidy \subseteq
                   InCell(stored.cell, (Recorded \cap Realised) \ Untidy)
          BY <3>2 DEF HarnessInv, HeldReproduces, Found
        <4>2. stored'.inputs \ Untidy \subseteq
                InCell(stored'.cell, (Recorded' \cap Realised) \ Untidy)
          BY <2>2, <3>1, <4>1
        <4>3. Reproduces(stored)'
          BY <3>1, <4>1 DEF Reproduces
        <4>4. QED
          BY <4>2, <4>3 DEF HeldReproduces, Found
      <3>3. CASE hpc = "idle"
        BY <3>1, <3>3 DEF HeldReproduces
      <3>4. QED
        BY <3>2, <3>3
    <2>4. QED
      BY <1>1, <2>1, <2>3 DEF HarnessInv, ReadCovers, QuietUntilDone,
                              FailOnlyOnNewEvidence, harness
  <1>2. ASSUME NEW c \in Cell, LoadVerdict(c) PROVE HarnessInv'
    <2>1. TypeOK' /\ SnapshotInv' /\ StoredClaimReproduces' /\
          Recorded' = Recorded
      BY <1>2, HarnessFrame DEF HarnessInv, LoadVerdict
    <2>2. stored' \in verdicts
      BY <1>2 DEF LoadVerdict, Latest
    <2>3. Reproduces(stored')
      BY <2>2 DEF HarnessInv, StoredClaimReproduces, Reproduces
    <2>4. stored'.inputs \ Untidy \subseteq Found(stored'.cell)
      BY <2>2, StoredIsFound DEF HarnessInv
    <2>5. hpc' = "loaded" /\ outcome' = None
      BY <1>2 DEF LoadVerdict, HarnessInv, QuietUntilDone
    <2>6. HeldReproduces'
      BY <2>1, <2>3, <2>4 DEF HeldReproduces, Found, Reproduces
    <2>7. QED
      BY <2>1, <2>5, <2>6 DEF HarnessInv, ReadCovers, QuietUntilDone,
                              FailOnlyOnNewEvidence
  <1>3. CASE LoadEvidence
    <2>1. TypeOK' /\ SnapshotInv' /\ StoredClaimReproduces' /\
          Recorded' = Recorded
      BY <1>3, HarnessFrame DEF HarnessInv, LoadEvidence, vars
    <2>2. UNCHANGED stored /\ hpc = "loaded" /\ read' = Found(stored.cell)
      BY <1>3 DEF LoadEvidence, Found
    <2>3. /\ Reproduces(stored)
          /\ stored.inputs \ Untidy \subseteq Found(stored.cell)
      BY <2>2 DEF HarnessInv, HeldReproduces
    <2>4. HeldReproduces'
      BY <2>1, <2>2, <2>3 DEF HeldReproduces, Found, Reproduces
    <2>5. ReadCovers'
      BY <2>2, <2>3 DEF ReadCovers
    <2>6. /\ outcome = None
          /\ \/ hpc' = "done" /\ outcome' = "error"
             \/ hpc' = "computing" /\ outcome' = outcome
      BY <1>3, <2>2 DEF LoadEvidence, HarnessInv, QuietUntilDone
    <2>7. QED
      BY <2>1, <2>4, <2>5, <2>6
         DEF HarnessInv, QuietUntilDone, FailOnlyOnNewEvidence
  <1>4. CASE Compare
    <2>1. TypeOK' /\ SnapshotInv' /\ StoredClaimReproduces' /\
          Recorded' = Recorded
      BY <1>4, HarnessFrame DEF HarnessInv, Compare, vars
    <2>2. UNCHANGED <<stored, read>> /\ hpc = "computing" /\ hpc' = "done"
      BY <1>4 DEF Compare
    <2>3. /\ Reproduces(stored)
          /\ stored.inputs \ Untidy \subseteq Found(stored.cell)
          /\ stored.inputs \ Untidy \subseteq read
      BY <2>2 DEF HarnessInv, HeldReproduces, ReadCovers
    <2>4. HeldReproduces'
      BY <2>1, <2>2, <2>3 DEF HeldReproduces, Found, Reproduces
    <2>5. stored.inputs = read => outcome' # "FAIL"
      <3> SUFFICES ASSUME stored.inputs = read PROVE outcome' # "FAIL"
        OBVIOUS
      <3> DEFINE w ==
            ComputeVerdict(stored.cell, read, stored.rules, stored.computedAt)
      <3>1. w.range = Kept(read) /\
            w.failing = FailingGates(read, stored.rules, stored.computedAt)
        BY DEF ComputeVerdict
      <3>2. Computable(read, stored.rules) /\ ~Mismatch(stored, w)
        BY <2>3, <3>1 DEF Reproduces, Mismatch
      <3>3. QED
        BY <1>4, <3>2 DEF Compare
    <2>6. FailOnlyOnNewEvidence'
      BY <2>2, <2>3, <2>5 DEF FailOnlyOnNewEvidence
    <2>7. QED
      BY <2>1, <2>2, <2>4, <2>6 DEF HarnessInv, ReadCovers, QuietUntilDone
  <1>5. CASE Restart
    <2>1. TypeOK' /\ SnapshotInv' /\ StoredClaimReproduces' /\
          Recorded' = Recorded
      BY <1>5, HarnessFrame DEF HarnessInv, Restart, vars
    <2>2. QED
      BY <1>5, <2>1 DEF Restart, HarnessInv, HeldReproduces, ReadCovers,
                        QuietUntilDone, FailOnlyOnNewEvidence
  <1>6. CASE UNCHANGED hvars
    BY <1>1, <1>6 DEF hvars
  <1>7. QED
    BY <1>1, <1>2, <1>3, <1>4, <1>5, <1>6 DEF HNext

(* A FAIL of the harness always means that the cell has evidence which the *)
(* stored verdict never saw, never that the computation went wrong.        *)
THEOREM NeverBlamesTheCode == HSpec => []FailOnlyOnNewEvidence
  <1>1. HarnessInv => FailOnlyOnNewEvidence
    BY DEF HarnessInv
  <1>2. QED
    BY <1>1, InitHarness, NextHarness, PTL DEF HSpec

-----------------------------------------------------------------------------
LEMMA InitHarnessType == HInit => HTypeOK
  BY InitTypeOK DEF HInit, HTypeOK

LEMMA NextHarnessType == HTypeOK /\ [HNext]_hvars => HTypeOK'
  <1> SUFFICES ASSUME HTypeOK, [HNext]_hvars PROVE HTypeOK'
    OBVIOUS
  <1>1. TypeOK'
    <2>1. CASE [Next]_vars
      BY <2>1, NextTypeOK DEF HTypeOK
    <2>2. CASE \E c \in Cell : LoadVerdict(c)
      BY <2>2 DEF LoadVerdict, HTypeOK, TypeOK, SaveRuleset, run
    <2>3. QED
      BY <2>1, <2>2 DEF HNext, hvars, LoadEvidence, Compare, Restart
  <1>2. CASE UNCHANGED harness
    BY <1>1, <1>2 DEF harness, HTypeOK
  <1>3. ASSUME NEW c \in Cell, LoadVerdict(c) PROVE HTypeOK'
    <2>1. stored' \in Verdict
      BY <1>3 DEF LoadVerdict, Latest, HTypeOK, TypeOK
    <2>2. stored' # None
      BY <2>1
    <2>3. QED
      BY <1>1, <1>3, <2>1, <2>2 DEF LoadVerdict, HTypeOK
  <1>4. CASE LoadEvidence
    <2>1. read' \subseteq Event
      <3>1. Recorded \subseteq Event
        BY DEF Recorded, Prefix, HTypeOK, TypeOK
      <3>2. QED
        BY <1>4, <3>1 DEF LoadEvidence, InCell
    <2>2. QED
      BY <1>1, <1>4, <2>1 DEF LoadEvidence, HTypeOK
  <1>5. CASE Compare
    BY <1>1, <1>5 DEF Compare, HTypeOK
  <1>6. CASE Restart
    BY <1>1, <1>6 DEF Restart, HTypeOK
  <1>7. QED
    BY <1>2, <1>3, <1>4, <1>5, <1>6 DEF HNext, hvars

(* The harness holds a verdict of the store from its first read to its     *)
(* outcome, and nothing of the cell before (cmd/reproduce).                *)
THEOREM HarnessTypeCorrect == HSpec => []HTypeOK
  BY InitHarnessType, NextHarnessType, PTL DEF HSpec

(* A store on which the harness is run keeps the promise too: the harness  *)
(* writes nothing that the promise is about.                               *)
THEOREM HarnessRefinement == HSpec => KeepsPromise
  <1>1. HInit => Init
    BY DEF HInit
  <1>2. HarnessInv /\ [HNext]_hvars => [Promise!Next]_<<ledger, Claims>>
    <2> SUFFICES ASSUME HarnessInv, [HNext]_hvars
                 PROVE  [Promise!Next]_<<ledger, Claims>>
      OBVIOUS
    <2>1. CASE [Next]_vars
      BY <2>1, NextPromise DEF HarnessInv
    <2>2. CASE UNCHANGED <<ledger, verdicts>>
      BY <2>2 DEF Claims
    <2>3. [Next]_vars \/ UNCHANGED <<ledger, verdicts>>
      BY DEF HNext, hvars, vars, LoadVerdict, LoadEvidence, Compare, Restart
    <2>4. QED
      BY <2>1, <2>2, <2>3
  <1>3. QED
    BY InitHarness, NextHarness, InitPromise, <1>1, <1>2, PTL
       DEF HSpec, KeepsPromise, Promise!Spec
-----------------------------------------------------------------------------
(***************************************************************************)
(* The operator's tool.  A purge keeps the order of the rows it leaves, so *)
(* the ledger stays a sequence of events, but no longer an append-only     *)
(* one: nothing above that rests on prefixes holds of OSpec.               *)
(***************************************************************************)

(* DELETE ... WHERE source_id = s takes exactly the rows of that source.   *)
LEMMA RemovedSource ==
  ASSUME ledger \in Seq(Event), NEW s, RemoveSource(s)
  PROVE  /\ ledger' \in Seq(Event)
         /\ Recorded' = {e \in Recorded : sourceOf[e] # s}
  <1> DEFINE kept == {i \in DOMAIN ledger : sourceOf[ledger[i]] # s}
  <1> DEFINE n == Cardinality(kept)
  <1>1. DOMAIN ledger = 1..Len(ledger) /\ Len(ledger) \in Nat
    OBVIOUS
  <1>2. IsFiniteSet(kept) /\ n \in Nat
    <2>1. IsFiniteSet(1..Len(ledger))
      BY <1>1, FS_Interval
    <2>2. kept \in SUBSET (1..Len(ledger))
      BY <1>1
    <2> HIDE DEF kept
    <2>3. QED
      BY <2>1, <2>2, FS_Subset, FS_CardinalityType
  <1>3. PICK f \in Bijection(1..n, kept) :
               ledger' = [i \in DOMAIN f |-> ledger[f[i]]]
    BY DEF RemoveSource
  <1>4. /\ f \in [1..n -> kept]
        /\ \A k \in kept : \E i \in 1..n : f[i] = k
    BY <1>3 DEF Bijection, Surjection, Injection
  <1>5. \A k \in kept : ledger[k] \in Event /\ k \in 1..Len(ledger)
    BY <1>1
  <1>6. ledger' = [i \in 1..n |-> ledger[f[i]]]
    BY <1>3, <1>4
  <1>7. ledger' \in [1..n -> Event]
    BY <1>4, <1>5, <1>6
  <1>8. ledger' \in Seq(Event) /\ Len(ledger') = n
    <2> HIDE DEF n
    <2>1. ledger' \in Seq(Event)
      BY <1>2, <1>7, SeqDef
    <2>2. DOMAIN ledger' = 1..n /\ DOMAIN ledger' = 1..Len(ledger')
          /\ Len(ledger') \in Nat
      BY <1>7, <2>1, LenProperties
    <2>3. QED
      BY <1>2, <2>1, <2>2
  <1>9. Recorded' = {ledger[k] : k \in kept}
    <2> HIDE DEF kept
    <2>1. Recorded' = {ledger'[i] : i \in 1..n}
      BY <1>8 DEF Recorded, Prefix
    <2> HIDE DEF n
    <2>2. \A i \in 1..n : f[i] \in kept /\ ledger'[i] = ledger[f[i]]
      BY <1>4, <1>6
    <2>3. \A k \in kept : \E i \in 1..n : ledger'[i] = ledger[k]
      BY <1>4, <2>2
    <2>4. \A e : (\E i \in 1..n : e = ledger'[i]) <=>
                (\E k \in kept : e = ledger[k])
      BY <2>2, <2>3
    <2>5. \A e : e \in {ledger'[i] : i \in 1..n} <=>
                e \in {ledger[k] : k \in kept}
      <3>1. \A e : e \in {ledger'[i] : i \in 1..n} <=>
                  (\E i \in 1..n : e = ledger'[i])
        OBVIOUS
      <3>2. \A e : e \in {ledger[k] : k \in kept} <=>
                  (\E k \in kept : e = ledger[k])
        OBVIOUS
      <3>3. QED
        BY <2>4, <3>1, <3>2
    <2>6. {ledger'[i] : i \in 1..n} = {ledger[k] : k \in kept}
      BY <2>5
    <2>7. QED
      BY <2>1, <2>6
  <1>10. Recorded = {ledger[i] : i \in 1..Len(ledger)}
    BY DEF Recorded, Prefix
  <1>11. {ledger[k] : k \in kept} =
         {e \in {ledger[i] : i \in 1..Len(ledger)} : sourceOf[e] # s}
    <2> DEFINE all == {ledger[i] : i \in 1..Len(ledger)}
    <2>1. \A k : k \in kept <=> k \in 1..Len(ledger) /\ sourceOf[ledger[k]] # s
      BY <1>1
    <2> HIDE DEF kept
    <2>2. ASSUME NEW k \in kept
          PROVE  ledger[k] \in all /\ sourceOf[ledger[k]] # s
      BY <2>1
    <2>3. ASSUME NEW e \in all, sourceOf[e] # s
          PROVE  e \in {ledger[k] : k \in kept}
      BY <2>1, <2>3
    <2>4. \A x : x \in {ledger[k] : k \in kept} <=>
                 x \in {e \in all : sourceOf[e] # s}
      BY <2>2, <2>3
    <2>5. QED
      BY <2>4
  <1>12. QED
    BY <1>8, <1>9, <1>10, <1>11

LEMMA InitOpsType == OInit => OTypeOK
  <1> SUFFICES ASSUME OInit PROVE OTypeOK
    OBVIOUS
  <1>1. TypeOK
    BY InitTypeOK DEF OInit
  <1>2. opsDone \in 0..MaxOps
    BY DEF OInit
  <1>3. QED
    BY <1>1, <1>2 DEF OInit, OTypeOK

LEMMA NextOpsType == OTypeOK /\ [ONext]_ovars => OTypeOK'
  <1> SUFFICES ASSUME OTypeOK, [ONext]_ovars PROVE OTypeOK'
    OBVIOUS
  <1>0. TypeOK /\ ledger \in Seq(Event)
    BY DEF OTypeOK, TypeOK
  <1>1. CASE Work
    <2>1. TypeOK'
      BY <1>0, <1>1, NextTypeOK DEF Work
    <2>2. QED
      BY <1>1, <2>1 DEF Work, OTypeOK, NoRun
  <1>2. ASSUME NEW S \in SUBSET Source, StartPurge(S) PROVE OTypeOK'
    BY <1>0, <1>2 DEF StartPurge, Start, NoRun, OTypeOK, TypeOK, vars, run
  <1>3. ASSUME NEW E \in SUBSET Event, StartImport(E) PROVE OTypeOK'
    BY <1>0, <1>3 DEF StartImport, Start, NoRun, OTypeOK, TypeOK, vars, run
  <1>4. ASSUME NEW s \in Source, Purge(s) PROVE OTypeOK'
    <2>1. ledger' \in Seq(Event)
      BY <1>0, <1>4, RemovedSource DEF Purge
    <2>2. QED
      BY <1>4, <2>1 DEF Purge, OTypeOK, TypeOK, run
  <1>5. ASSUME NEW e \in Event, Import(e) PROVE OTypeOK'
    <2>1. ledger' \in Seq(Event)
      BY <1>0, <1>5, PrefixStable DEF Import
    <2>2. QED
      BY <1>5, <2>1 DEF Import, OTypeOK, TypeOK, run
  <1>6. CASE Clear
    <2>1. verdicts' \subseteq Verdict /\ faults' \in Nat
      BY <1>0, <1>6 DEF Clear, TypeOK
    <2>2. TypeOK'
      BY <1>0, <1>6, <2>1 DEF Clear, TypeOK, run
    <2>3. left' = {} /\ quiet' \in BOOLEAN /\ tool' = "cleared"
      BY <1>6 DEF Clear, OTypeOK
    <2>4. opsDone' \in 0..MaxOps
      BY <1>6 DEF Clear, OTypeOK
    <2>5. QED
      BY <2>2, <2>3, <2>4 DEF OTypeOK
  <1>7. CASE Abort
    BY <1>7 DEF Abort, OTypeOK, TypeOK, vars, run
  <1>8. CASE UNCHANGED ovars
    BY <1>8 DEF ovars, ops, vars, run, OTypeOK, TypeOK
  <1>9. QED
    BY <1>1, <1>2, <1>3, <1>4, <1>5, <1>6, <1>7, <1>8 DEF ONext

(* The tool leaves tables of the right shape, whatever it is used for and  *)
(* wherever it is stopped.                                                 *)
THEOREM ToolTypeCorrect == OSpec => []OTypeOK
  BY InitOpsType, NextOpsType, PTL DEF OSpec

(* A purge takes evidence away from under the stored verdicts; that each   *)
(* of them follows from what it names itself survives even that.           *)
THEOREM ReproduciblyStoredUnderTool == OSpec => []StoredClaimReproduces
  <1>1. OInit => StoredClaimReproduces
    BY DEF OInit, Init, StoredClaimReproduces
  <1>2. OTypeOK /\ StoredClaimReproduces /\ [ONext]_ovars
          => StoredClaimReproduces'
    <2> SUFFICES ASSUME OTypeOK, StoredClaimReproduces, [ONext]_ovars
                 PROVE  StoredClaimReproduces'
      OBVIOUS
    <2>1. CASE Work
      BY <2>1, NextReproduces DEF Work, OTypeOK
    <2>2. CASE verdicts' = verdicts \/ verdicts' = {}
      BY <2>2 DEF StoredClaimReproduces
    <2>3. QED
      BY <2>1, <2>2 DEF ONext, ovars, vars, StartPurge, StartImport, Start,
                        Purge, Import, Clear, Abort
  <1>3. QED
    BY <1>1, <1>2, ToolTypeCorrect, PTL DEF OSpec

(***************************************************************************)
(* QuietPurgeIsClean is not inductive: a run under way could still store   *)
(* what it read before the purge.  While the tool was quiet, either there  *)
(* is no run yet or, after the clearing, every run has read what is there. *)
(***************************************************************************)
NoRunBeforeClearing == tool \in {"purging", "importing"} /\ quiet => NoRun

RunsReadTheRest ==
  tool = "cleared" /\ quiet =>
    \A w \in Worker : pc[w] = "saving" => rows[w] \subseteq Recorded

QuietInv == NoRunBeforeClearing /\ RunsReadTheRest /\ QuietPurgeIsClean

(* A step of the system after a quiet clearing stores nothing but what is  *)
(* in the ledger, and reads nothing else.                                  *)
LEMMA WorkIsClean ==
  ASSUME OTypeOK, Next, NothingForgottenIsUsed,
         \A w \in Worker : pc[w] = "saving" => rows[w] \subseteq Recorded
  PROVE  /\ NothingForgottenIsUsed'
         /\ \A w \in Worker : pc'[w] = "saving" => rows'[w] \subseteq Recorded'
  <1>0. /\ TypeOK /\ verdicts \subseteq Verdict /\ clock \in Nat
        /\ pc \in [Worker -> {"idle", "begun", "saving"}]
        /\ now \in [Worker -> Nat] /\ current \in Ruleset
        /\ rows \in [Worker -> SUBSET Event]
    BY DEF OTypeOK, TypeOK
  <1>1. Recorded \subseteq Recorded'
    BY <1>0, RecordedGrows
  <1>2. ASSUME NEW w \in Worker, Select(w)
        PROVE  \A u \in Worker : pc'[u] = "saving" => rows'[u] \subseteq Recorded'
    BY <1>0, <1>1, <1>2 DEF Select, Readable, Recorded
  <1>3. ASSUME NEW w \in Worker, NEW c \in Cell, Save(w, c)
        PROVE  NothingForgottenIsUsed'
    <2> DEFINE S == InCell(c, rows[w])
    <2> DEFINE v == ComputeVerdict(c, S, current, now[w])
    <2>1. S \subseteq Recorded /\ S \subseteq Event
      BY <1>0, <1>3 DEF Save, InCell
    <2>2. CASE Computable(S, current)
      <3>1. SaveVerdictContent(v)
        BY <1>3, <2>2 DEF Save
      <3>2. v \in Verdict
        BY <1>0, <2>1, ComputeVerdictType
      <3>3. v.inputs = S
        BY DEF ComputeVerdict
      <3> HIDE DEF v, S
      <3>4. PICK n \in Nat :
              verdicts' = {u \in verdicts : ~SameAddress(u, v)} \cup
                          {[v EXCEPT !.createdAt = n]}
        BY <1>0, <3>1, <3>2, SaveEffect
      <3>5. [v EXCEPT !.createdAt = n].inputs = S
        BY <3>2, <3>3 DEF Verdict
      <3>6. QED
        BY <1>1, <2>1, <3>4, <3>5 DEF NothingForgottenIsUsed
    <2>3. CASE ~Computable(S, current)
      BY <1>1, <1>3, <2>3 DEF Save, NothingForgottenIsUsed
    <2>4. QED
      BY <2>2, <2>3
  <1>4. ASSUME verdicts' = verdicts PROVE NothingForgottenIsUsed'
    <2> SUFFICES ASSUME NEW v \in verdicts PROVE v.inputs \subseteq Recorded'
      BY <1>4 DEF NothingForgottenIsUsed
    <2>1. v.inputs \subseteq Recorded
      BY DEF NothingForgottenIsUsed
    <2>2. QED
      BY <1>1, <2>1
  <1>5. ASSUME \A u \in Worker : pc'[u] = "saving" =>
                  pc[u] = "saving" /\ rows'[u] = rows[u]
        PROVE  \A u \in Worker : pc'[u] = "saving" => rows'[u] \subseteq Recorded'
    <2> SUFFICES ASSUME NEW u \in Worker, pc'[u] = "saving"
                 PROVE  rows'[u] \subseteq Recorded'
      OBVIOUS
    <2>1. rows'[u] \subseteq Recorded
      BY <1>5
    <2>2. QED
      BY <1>1, <2>1
  <1>6. verdicts' = verdicts \/ \E w \in Worker, c \in Cell : Save(w, c)
    BY DEF Next, Ingest, NightlyRun, CuratorRun, Select, Finish, Fail, Deploy,
           Tick
  <1>7. \/ \A u \in Worker : pc'[u] = "saving" =>
              pc[u] = "saving" /\ rows'[u] = rows[u]
        \/ \E w \in Worker : Select(w)
    <2>1. \A w \in Worker : Begin(w) =>
            \A u \in Worker : pc'[u] = "saving" =>
              pc[u] = "saving" /\ rows'[u] = rows[u]
      BY <1>0 DEF Begin
    <2>2. \A w \in Worker : End(w) =>
            \A u \in Worker : pc'[u] = "saving" =>
              pc[u] = "saving" /\ rows'[u] = rows[u]
      BY <1>0 DEF End
    <2>3. QED
      BY <2>1, <2>2 DEF Next, Ingest, NightlyRun, CuratorRun, Save, Finish,
                        Fail, Deploy, Tick, run, Worker
  <1>8. QED
    BY <1>2, <1>3, <1>4, <1>5, <1>6, <1>7

LEMMA NextQuiet == OTypeOK /\ QuietInv /\ [ONext]_ovars => QuietInv'
  <1> SUFFICES ASSUME OTypeOK, QuietInv, [ONext]_ovars PROVE QuietInv'
    OBVIOUS
  <1>1. CASE Work
    <2>1. NoRunBeforeClearing'
      BY <1>1 DEF Work, NoRunBeforeClearing
    <2>2. CASE tool' = "cleared" /\ quiet'
      <3>1. tool = "cleared" /\ quiet /\ Next
        BY <1>1, <2>2 DEF Work
      <3>2. /\ NothingForgottenIsUsed
            /\ \A w \in Worker : pc[w] = "saving" => rows[w] \subseteq Recorded
        BY <3>1 DEF QuietInv, RunsReadTheRest, QuietPurgeIsClean
      <3>3. QED
        BY <2>1, <3>1, <3>2, WorkIsClean
           DEF QuietInv, RunsReadTheRest, QuietPurgeIsClean
    <2>3. CASE ~(tool' = "cleared" /\ quiet')
      BY <2>1, <2>3 DEF QuietInv, RunsReadTheRest, QuietPurgeIsClean
    <2>4. QED
      BY <2>2, <2>3
  <1>2. ASSUME NEW step \in {"purging", "importing"}, NEW L, Start(step, L)
        PROVE  QuietInv'
    BY <1>2 DEF Start, QuietInv, NoRunBeforeClearing, RunsReadTheRest,
                QuietPurgeIsClean, NoRun, vars, run
  <1>3. CASE (\E s \in Source : Purge(s)) \/ (\E e \in Event : Import(e))
    BY <1>3 DEF Purge, Import, QuietInv, NoRunBeforeClearing, RunsReadTheRest,
                QuietPurgeIsClean, NoRun, run
  <1>4. CASE Clear
    <2>1. NoRunBeforeClearing'
      BY <1>4 DEF Clear, NoRunBeforeClearing
    <2>2. CASE quiet'
      <3>1. verdicts' = {} /\ NoRun /\ UNCHANGED pc
        BY <1>4, <2>2 DEF Clear, QuietInv, NoRunBeforeClearing, run
      <3>2. QED
        BY <2>1, <3>1 DEF QuietInv, RunsReadTheRest, QuietPurgeIsClean,
                          NothingForgottenIsUsed, NoRun
    <2>3. CASE ~quiet'
      BY <2>1, <2>3 DEF QuietInv, RunsReadTheRest, QuietPurgeIsClean
    <2>4. QED
      BY <2>2, <2>3
  <1>5. CASE Abort
    BY <1>5 DEF Abort, QuietInv, NoRunBeforeClearing, RunsReadTheRest,
                QuietPurgeIsClean
  <1>6. CASE UNCHANGED ovars
    BY <1>6 DEF ovars, ops, vars, run, QuietInv, NoRunBeforeClearing, NoRun,
                RunsReadTheRest, QuietPurgeIsClean, NothingForgottenIsUsed,
                Recorded
  <1>7. QED
    BY <1>1, <1>2, <1>3, <1>4, <1>5, <1>6 DEF ONext, StartPurge, StartImport

(* A purge that no compute run overlapped leaves no verdict that rests on  *)
(* a deleted observation, however many runs start, fail or are deployed    *)
(* over after it.                                                          *)
THEOREM QuietPurgesAreClean == OSpec => []QuietPurgeIsClean
  <1>1. OInit => QuietInv
    BY DEF OInit, QuietInv, NoRunBeforeClearing, RunsReadTheRest,
           QuietPurgeIsClean
  <1>2. QuietInv => QuietPurgeIsClean
    BY DEF QuietInv
  <1>3. QED
    BY <1>1, <1>2, NextQuiet, ToolTypeCorrect, PTL DEF OSpec
=============================================================================
