----------------------------- MODULE DeskProofs -----------------------------
(***************************************************************************)
(* Proofs about module Desk, for every set of texts, reports, premiums,    *)
(* rates and requests and every number of staged rows.                     *)
(***************************************************************************)
EXTENDS Desk, FiniteSetTheorems, SequenceTheorems, TLAPS

USE DeskAssumption, CatalogueAssumption

(* The resolver gives a reference of the catalogue or none.                *)
LEMMA FirstHitType ==
  ASSUME NEW cat \in SUBSET Ref, NEW ks
  PROVE  FirstHit(cat, ks) \in Ref \cup {NoRef}
  <1>1. ASSUME NEW S \in SUBSET Ref PROVE OnlyOne(S) \in Ref \cup {NoRef}
    BY DEF OnlyOne
  <1>2. ASSUME NEW k PROVE Lookup(cat, k) \in Ref \cup {NoRef}
    <2>1. lookupExact(cat, k) \in Ref \cup {NoRef}
      BY <1>1 DEF lookupExact
    <2>2. lookupAlias(cat, k) \in Ref \cup {NoRef}
      BY <1>1 DEF lookupAlias
    <2>3. QED
      BY <2>1, <2>2 DEF Lookup
  <1>3. QED
    BY <1>2 DEF FirstHit

(* A price with a premium is an amount.                                    *)
LEMMA TotalType ==
  ASSUME NEW l \in Line, NEW pct \in Premium
  PROVE  Total(l, pct) \in Amount
  <1>1. price[l] \in Amount /\ pct \in Nat
    OBVIOUS
  <1>2. price[l].cents \in Nat
    BY <1>1 DEF Amount
  <1>3. ASSUME NEW a \in Nat, NEW b \in Nat PROVE a * b \in Nat
    OBVIOUS
  <1>4. price[l].cents * (100 + pct) \in Nat
    <2>1. 100 + pct \in Nat
      BY <1>1
    <2>2. QED
      BY <1>2, <1>3, <2>1
  <1>5. ASSUME NEW n \in Nat PROVE [cents |-> (n + 50) \div 100, decimals |-> 2] \in Amount
    BY DEF Amount
  <1>6. QED
    BY <1>1, <1>4, <1>5 DEF Total

(* Overwriting a staged row.                                               *)
LEMMA StagedExcept ==
  ASSUME staged \in Seq(StagedRow), NEW i \in Rows, NEW row \in StagedRow
  PROVE  LET s == [staged EXCEPT ![i] = row]
         IN  /\ s \in Seq(StagedRow) /\ Len(s) = Len(staged)
             /\ \A j \in Rows : s[j] = IF j = i THEN row ELSE staged[j]
  BY ExceptSeq DEF Rows

(* An append adds the event if it is not there and nothing else.           *)
LEMMA AppendEffect ==
  ASSUME NEW o, AppendObservation(o)
  PROVE  /\ observations \subseteq observations'
         /\ observations' \subseteq observations \cup {o}
         /\ \E x \in observations' : x.event = o.event
         /\ \A x \in observations' :
              x \in observations \/ \A y \in observations : y.event # x.event
  BY DEF AppendObservation

(* What the state of a request holds, by how far the request is.           *)
LEMMA RequestFields ==
  ASSUME NEW x \in RequestState
  PROVE  /\ x # Idle <=> x.at \in {"loaded", "ledged", "refused", "marked", "computing"}
         /\ x # Idle => x.row \in Rows
         /\ x.at = "ledged" => x.obs \in EventRow
  BY DEF RequestState, Idle

LEMMA RequestStates ==
  ASSUME NEW i \in Rows
  PROVE  /\ Idle \in RequestState
         /\ \A a \in {"loaded", "refused", "marked", "computing"} :
              [at |-> a, row |-> i] \in RequestState
         /\ \A e \in EventRow : [at |-> "ledged", row |-> i, obs |-> e] \in RequestState
  BY DEF RequestState

(* The event of a line with a reference and a date.                        *)
LEMMA LineEvent ==
  ASSUME NEW l \in Line, NEW r \in Ref, NEW pct \in Premium, day[l] # NoDay
  PROVE  Event(house[l], r, Total(l, pct), day[l]) \in EventRow
  <1>1. day[l] \in Nat
    OBVIOUS
  <1>2. Total(l, pct) \in Amount
    BY TotalType
  <1>3. QED
    BY <1>1, <1>2 DEF Event, EventRow

LEMMA RowFields ==
  ASSUME TypeOK, NEW i \in Rows
  PROVE  /\ staged[i] \in StagedRow /\ staged[i].line \in Line
         /\ staged[i].ref \in Ref \cup {NoRef} /\ staged[i].obs \subseteq EventRow
         /\ Rows \subseteq Nat
  <1>1. staged[i] \in StagedRow
    BY DEF TypeOK, Rows
  <1>2. QED
    BY <1>1 DEF StagedRow, Rows, TypeOK

(* Overwriting row i with one of the same line.                            *)
LEMMA Restage ==
  ASSUME TypeOK, NEW i \in Rows, NEW row \in StagedRow,
         staged' = [staged EXCEPT ![i] = row]
  PROVE  /\ staged' \in Seq(StagedRow) /\ Rows' = Rows
         /\ \A j \in Rows \ {i} : staged'[j] = staged[j]
         /\ staged'[i] = row
  <1>1. staged' \in Seq(StagedRow) /\ Len(staged') = Len(staged)
        /\ \A j \in Rows : staged'[j] = IF j = i THEN row ELSE staged[j]
    BY StagedExcept DEF TypeOK
  <1>2. QED
    BY <1>1 DEF Rows

LEMMA RestageLedged ==
  ASSUME TypeOK, NEW i \in Rows, NEW e \in EventRow,
         staged' = [staged EXCEPT ![i] = [@ EXCEPT !.status = "ledged", !.obs = {e}]]
  PROVE  /\ staged' \in Seq(StagedRow) /\ Rows' = Rows
         /\ \A j \in Rows \ {i} : staged'[j] = staged[j]
         /\ staged'[i].status = "ledged" /\ staged'[i].obs = {e}
         /\ staged'[i].line = staged[i].line /\ staged'[i].ref = staged[i].ref
  <1> DEFINE row == [staged[i] EXCEPT !.status = "ledged", !.obs = {e}]
  <1>1. row \in StagedRow /\ row.status = "ledged" /\ row.obs = {e}
        /\ row.line = staged[i].line /\ row.ref = staged[i].ref
    BY RowFields DEF StagedRow
  <1>2. staged' = [staged EXCEPT ![i] = row]
    OBVIOUS
  <1> HIDE DEF row
  <1>3. QED
    BY <1>1, <1>2, Restage

LEMMA RestageStatus ==
  ASSUME TypeOK, NEW i \in Rows, NEW s,
         s \in {"ledged", "discarded", "unresolved"},
         staged' = [staged EXCEPT ![i] = [@ EXCEPT !.status = s]]
  PROVE  /\ staged' \in Seq(StagedRow) /\ Rows' = Rows
         /\ \A j \in Rows \ {i} : staged'[j] = staged[j]
         /\ staged'[i].status = s /\ staged'[i].obs = staged[i].obs
         /\ staged'[i].line = staged[i].line /\ staged'[i].ref = staged[i].ref
  <1> DEFINE row == [staged[i] EXCEPT !.status = s]
  <1>1. row \in StagedRow /\ row.status = s /\ row.obs = staged[i].obs
        /\ row.line = staged[i].line /\ row.ref = staged[i].ref
    BY RowFields DEF StagedRow
  <1>2. staged' = [staged EXCEPT ![i] = row]
    OBVIOUS
  <1> HIDE DEF row
  <1>3. QED
    BY <1>1, <1>2, Restage

-----------------------------------------------------------------------------
(* The history of a row that something happens to.                         *)
LEMMA UpsetType ==
  ASSUME TypeOK, NEW i \in Rows, Upset(i)
  PROVE  upset' \subseteq Rows /\ entered' \subseteq Rows \X EventRow /\ late' \subseteq Rows
  BY DEF Upset, TypeOK

LEMMA TouchType ==
  ASSUME TypeOK, NEW i \in Rows, Touch(i)
  PROVE  upset' \subseteq Rows /\ entered' \subseteq Rows \X EventRow /\ late' \subseteq Rows
  BY UpsetType DEF Touch, TypeOK, history

LEMMA InitType == Init => TypeOK
  <1> SUFFICES ASSUME Init PROVE TypeOK
    OBVIOUS
  <1>1. req \in [Request -> RequestState]
    BY DEF Init, RequestState
  <1>2. staged \in Seq(StagedRow)
    BY DEF Init
  <1>3. /\ verdicts \in [Cell -> SUBSET SUBSET EventRow] /\ latest \in [Cell -> SUBSET EventRow]
        /\ run \in [Runner -> [seen : SUBSET EventRow, left : SUBSET Cell]]
    BY DEF Init, NoRun
  <1>4. QED
    BY <1>1, <1>2, <1>3 DEF Init, TypeOK

(* What a compute run sees and does has the right shape.                   *)
LEMMA RealisedType == TypeOK => Realised \subseteq EventRow
  BY DEF TypeOK, Realised

ComputeOK ==
  /\ verdicts \in [Cell -> SUBSET SUBSET EventRow] /\ latest \in [Cell -> SUBSET EventRow]
  /\ run \in [Runner -> [seen : SUBSET EventRow, left : SUBSET Cell]]
  /\ crowded \in BOOLEAN

LEMMA SelectType ==
  ASSUME TypeOK, NEW p \in Runner, Select(p)
  PROVE  ComputeOK'
  <1>1. {cellOf[e.ref] : e \in Realised} \subseteq Cell
    BY RealisedType DEF EventRow
  <1>2. [seen |-> Realised, left |-> {cellOf[e.ref] : e \in Realised}]
          \in [seen : SUBSET EventRow, left : SUBSET Cell]
    BY <1>1, RealisedType
  <1>3. run' \in [Runner -> [seen : SUBSET EventRow, left : SUBSET Cell]]
    BY <1>2 DEF Select, TypeOK
  <1>4. crowded' \in BOOLEAN /\ UNCHANGED <<verdicts, latest>>
    BY DEF Select
  <1>5. QED
    BY <1>3, <1>4 DEF TypeOK, ComputeOK, EventRow, Amount, Runner

LEMMA SaveType ==
  ASSUME TypeOK, NEW p \in Runner, NEW c \in Cell, Save(p, c)
  PROVE  ComputeOK'
  <1> DEFINE S == InCell(c, run[p].seen)
  <1>1. run[p] \in [seen : SUBSET EventRow, left : SUBSET Cell]
    BY DEF TypeOK
  <1>2. S \in SUBSET EventRow
    BY <1>1 DEF InCell
  <1>3. run' \in [Runner -> [seen : SUBSET EventRow, left : SUBSET Cell]]
    <2>1. NoRun \in [seen : SUBSET EventRow, left : SUBSET Cell]
      BY DEF NoRun
    <2>2. [seen |-> run[p].seen, left |-> run[p].left \ {c}]
            \in [seen : SUBSET EventRow, left : SUBSET Cell]
      BY <1>1
    <2>3. PICK x \in [seen : SUBSET EventRow, left : SUBSET Cell] :
            run' = [run EXCEPT ![p] = x]
      BY <2>1, <2>2 DEF Save, Tick
    <2>4. QED
      BY <2>3 DEF TypeOK
  <1>4. /\ verdicts' = [verdicts EXCEPT ![c] = @ \cup {S}]
        /\ latest' = latest \/ latest' = [latest EXCEPT ![c] = S]
    BY DEF Save
  <1>5. crowded' \in BOOLEAN
    BY DEF Save, TypeOK
  <1> HIDE DEF S
  <1>6. verdicts' \in [Cell -> SUBSET SUBSET EventRow] /\ latest' \in [Cell -> SUBSET EventRow]
    BY <1>2, <1>4 DEF TypeOK
  <1>7. QED
    BY <1>3, <1>5, <1>6 DEF ComputeOK, EventRow, Amount, Runner

LEMMA CutOffType ==
  ASSUME TypeOK, NEW p \in Runner, run' = [run EXCEPT ![p] = NoRun],
         UNCHANGED <<verdicts, latest, crowded>>
  PROVE  ComputeOK'
  <1>1. NoRun \in [seen : SUBSET EventRow, left : SUBSET Cell]
    BY DEF NoRun
  <1>2. run' \in [Runner -> [seen : SUBSET EventRow, left : SUBSET Cell]]
    BY <1>1 DEF TypeOK
  <1>3. QED
    BY <1>2 DEF TypeOK, ComputeOK, EventRow, Amount, Runner

(* A request moves on from one state of a staged row to another.           *)
LEMMA RequestMoves ==
  ASSUME TypeOK, NEW q \in Request, NEW x \in RequestState,
         req' = [req EXCEPT ![q] = x], Rows' = Rows
  PROVE  req' \in [Request -> RequestState']
  <1>1. RequestState' = RequestState
    BY DEF RequestState, Idle, EventRow, Amount
  <1>2. QED
    BY <1>1 DEF TypeOK

LEMMA NextType == TypeOK /\ [Next]_vars => TypeOK'
  <1> SUFFICES ASSUME TypeOK, [Next]_vars PROVE TypeOK'
    OBVIOUS
  <1> USE DEF desk, compute, history
  <1>1. ASSUME NEW r \in Ref, Learn(r) PROVE TypeOK'
    BY <1>1 DEF Learn, TypeOK, Rows, RequestState, Idle, EventRow, Amount
  <1>2. ASSUME NEW l \in Line, Paste(l) PROVE TypeOK'
    <2> DEFINE ref == FirstHit(catalogue, keys[l])
               row == [line |-> l, ref |-> ref, obs |-> {},
                       status |-> IF ref = NoRef THEN "unresolved" ELSE "parsed"]
    <2>1. ref \in Ref \cup {NoRef}
      BY FirstHitType DEF TypeOK
    <2>2. staged' = Append(staged, row)
      BY <1>2 DEF Paste
    <2> HIDE DEF ref
    <2>3. row \in StagedRow
      BY <2>1 DEF StagedRow
    <2> HIDE DEF row
    <2>4. staged' \in Seq(StagedRow) /\ Len(staged') = Len(staged) + 1 /\ Len(staged) \in Nat
      BY <2>2, <2>3 DEF TypeOK
    <2>5. Rows \subseteq Rows'
      BY <2>4 DEF Rows
    <2>6. RequestState \subseteq RequestState'
      BY <2>5 DEF RequestState, Idle, EventRow, Amount
    <2>7. Rows \X EventRow \subseteq Rows' \X EventRow
      BY <2>5
    <2>8. req' \in [Request -> RequestState']
      BY <1>2, <2>6 DEF Paste, TypeOK
    <2>9. QED
      BY <1>2, <2>4, <2>5, <2>7, <2>8 DEF Paste, TypeOK
  <1>3. ASSUME NEW q \in Request, NEW i \in Rows, LoadLine(q, i) PROVE TypeOK'
    <2>1. Rows' = Rows
      BY <1>3 DEF LoadLine, Rows
    <2>2. req' \in [Request -> RequestState']
      BY <1>3, <2>1, RequestStates, RequestMoves DEF LoadLine
    <2>3. Touch(i)
      BY <1>3 DEF LoadLine
    <2>4. QED
      BY <1>3, <2>1, <2>2, <2>3, TouchType DEF LoadLine, TypeOK, EventRow, Amount
  <1>4. ASSUME NEW q \in Request, NEW pct \in Premium, LedgerLine(q, pct) PROVE TypeOK'
    <2> DEFINE i == req[q].row
               l == LoadedLine(q)
               e == Event(house[l], staged[i].ref, Total(l, pct), day[l])
    <2>1. i \in Rows /\ l = staged[i].line
      BY <1>4, RequestFields DEF LedgerLine, LoadedLine, TypeOK
    <2>2. l \in Line
      BY <2>1, RowFields
    <2>3. /\ e.ref \in catalogue /\ e.day # NoDay
          /\ \E x \in Rates \cup {NoRates} : AppendObservation([event |-> e, usd |-> x])
          /\ entered' = IF i \in upset THEN entered ELSE entered \cup {<<i, e>>}
          /\ req' = [req EXCEPT ![q] = [at |-> "ledged", row |-> i, obs |-> e]]
          /\ UNCHANGED <<desk, compute, upset, late>>
      BY <1>4 DEF LedgerLine, TypeOK
    <2>4. staged[i].ref \in Ref /\ day[l] # NoDay
      BY <2>3 DEF Event, TypeOK
    <2>5. e \in EventRow
      BY <2>2, <2>4, LineEvent
    <2> HIDE DEF i, l, e
    <2>6. Rows' = Rows
      BY <2>3 DEF Rows
    <2>7. req' \in [Request -> RequestState']
      BY <2>1, <2>3, <2>5, <2>6, RequestStates, RequestMoves
    <2>8. observations' \subseteq [event : EventRow, usd : Rates \cup {NoRates}]
      BY <2>3, <2>5, AppendEffect DEF TypeOK
    <2>9. entered' \subseteq Rows \X EventRow
      BY <2>1, <2>3, <2>5 DEF TypeOK
    <2>10. QED
      BY <2>3, <2>6, <2>7, <2>8, <2>9 DEF TypeOK, EventRow, Amount
  <1>5. ASSUME NEW q \in Request, RefuseLine(q) \/ BreakLine(q) PROVE TypeOK'
    <2>1. Rows' = Rows /\ req[q].row \in Rows
      BY <1>5, RequestFields DEF RefuseLine, BreakLine, Rows, TypeOK
    <2>2. req' = [req EXCEPT ![q] = [at |-> "refused", row |-> req[q].row]]
      BY <1>5 DEF RefuseLine, BreakLine, TypeOK
    <2>3. req' \in [Request -> RequestState']
      BY <2>1, <2>2, RequestStates, RequestMoves
    <2>4. UNCHANGED history \/ Upset(req[q].row)
      BY <1>5 DEF RefuseLine, BreakLine
    <2>5. QED
      BY <1>5, <2>1, <2>3, <2>4, UpsetType DEF RefuseLine, BreakLine, TypeOK, EventRow, Amount
  <1>6. ASSUME NEW q \in Request, MarkLedged(q) PROVE TypeOK'
    <2>1. req[q].row \in Rows /\ req[q].obs \in EventRow
      BY <1>6, RequestFields DEF MarkLedged, TypeOK
    <2>2. /\ staged' = [staged EXCEPT ![req[q].row] =
                        [@ EXCEPT !.status = "ledged", !.obs = {req[q].obs}]]
          /\ req' = [req EXCEPT ![q] = [at |-> "marked", row |-> req[q].row]]
      BY <1>6 DEF MarkLedged, TypeOK
    <2>3. staged' \in Seq(StagedRow) /\ Rows' = Rows
      BY <2>1, <2>2, RestageLedged
    <2>4. req' \in [Request -> RequestState']
      BY <2>1, <2>2, <2>3, RequestStates, RequestMoves
    <2>5. QED
      BY <1>6, <2>3, <2>4 DEF MarkLedged, TypeOK, EventRow, Amount
  <1>7. ASSUME NEW q \in Request, MarkUnresolved(q) PROVE TypeOK'
    <2>1. req[q].row \in Rows
      BY <1>7, RequestFields DEF MarkUnresolved, TypeOK
    <2>2. staged' \in Seq(StagedRow) /\ Rows' = Rows
      BY <1>7, <2>1, RestageStatus DEF MarkUnresolved
    <2>3. req' \in [Request -> RequestState']
      BY <1>7, <2>1, <2>2, RequestStates, RequestMoves DEF MarkUnresolved
    <2>4. QED
      BY <1>7, <2>2, <2>3 DEF MarkUnresolved, TypeOK, EventRow, Amount
  <1>8. ASSUME NEW q \in Request, LoseMark(q) PROVE TypeOK'
    <2>1. Rows' = Rows /\ req[q].row \in Rows
      BY <1>8, RequestFields DEF LoseMark, Rows, TypeOK
    <2>2. \/ req' = [req EXCEPT ![q] = [at |-> "marked", row |-> req[q].row]]
          \/ req' = [req EXCEPT ![q] = Idle]
      BY <1>8 DEF LoseMark, TypeOK
    <2>3. req' \in [Request -> RequestState']
      BY <2>1, <2>2, RequestStates, RequestMoves
    <2>4. Upset(req[q].row)
      BY <1>8 DEF LoseMark
    <2>5. QED
      BY <1>8, <2>1, <2>3, <2>4, UpsetType DEF LoseMark, TypeOK, EventRow, Amount
  <1>9. ASSUME NEW q \in Request, Die(q) PROVE TypeOK'
    <2>1. Rows' = Rows /\ req[q].row \in Rows
      BY <1>9, RequestFields DEF Die, Rows, TypeOK
    <2>2. req' \in [Request -> RequestState']
      BY <1>9, <2>1, RequestStates, RequestMoves DEF Die
    <2>3. Upset(req[q].row)
      BY <1>9 DEF Die
    <2>4. ComputeOK'
      BY <1>9, CutOffType DEF Die, Runner
    <2>5. QED
      BY <1>9, <2>1, <2>2, <2>3, <2>4, UpsetType DEF Die, TypeOK, ComputeOK, EventRow, Amount
  <1>10. ASSUME NEW q \in Request, Recompute(q) PROVE TypeOK'
    <2>1. Rows' = Rows /\ req[q].row \in Rows
      BY <1>10, RequestFields DEF Recompute, Rows, TypeOK
    <2>2. req' = [req EXCEPT ![q] = [at |-> "computing", row |-> req[q].row]]
      BY <1>10 DEF Recompute, TypeOK
    <2>3. req' \in [Request -> RequestState']
      BY <2>1, <2>2, RequestStates, RequestMoves
    <2>4. ComputeOK'
      BY <1>10, SelectType DEF Recompute, Runner
    <2>5. QED
      BY <1>10, <2>1, <2>3, <2>4 DEF Recompute, TypeOK, ComputeOK, EventRow, Amount
  <1>11. ASSUME NEW q \in Request, Redirect(q) PROVE TypeOK'
    <2>1. Rows' = Rows
      BY <1>11 DEF Redirect, Rows
    <2>2. req' \in [Request -> RequestState']
      BY <1>11, <2>1, RequestMoves DEF Redirect, RequestState
    <2>3. QED
      BY <1>11, <2>1, <2>2 DEF Redirect, TypeOK, EventRow, Amount
  <1>12. ASSUME \/ NightlyRun \/ KillNightly
                \/ \E p \in Runner, c \in Cell : Save(p, c)
         PROVE  TypeOK'
    <2>1. ComputeOK'
      BY <1>12, SelectType, SaveType, CutOffType DEF NightlyRun, KillNightly, Runner
    <2>2. UNCHANGED <<desk, observations, req, history>>
      BY <1>12 DEF NightlyRun, KillNightly, Save
    <2>3. QED
      BY <2>1, <2>2 DEF TypeOK, ComputeOK, Rows, RequestState, Idle, EventRow, Amount
  <1>13. ASSUME NEW i \in Rows, Discard(i) PROVE TypeOK'
    <2>1. staged' \in Seq(StagedRow) /\ Rows' = Rows
      BY <1>13, RestageStatus DEF Discard
    <2>2. upset' \subseteq Rows /\ entered' \subseteq Rows \X EventRow /\ late' \subseteq Rows
      <3>1. CASE Touch(i)
        BY <3>1, TouchType
      <3>2. CASE late' = late \cup {i} /\ UNCHANGED <<upset, entered>>
        BY <3>2 DEF TypeOK
      <3>3. QED
        BY <1>13, <3>1, <3>2 DEF Discard
    <2>3. RequestState' = RequestState
      BY <2>1 DEF RequestState, Idle, EventRow, Amount
    <2>4. QED
      BY <1>13, <2>1, <2>2, <2>3 DEF Discard, TypeOK, EventRow, Amount
  <1>14. ASSUME NEW r \in Report, VerifyReport(r) PROVE TypeOK'
    <2> DEFINE e == Event("user_reported", r.ref, r.price, r.day)
    <2>1. e \in EventRow
      BY DEF Event, EventRow
    <2>2. \E x \in Rates \cup {NoRates} : AppendObservation([event |-> e, usd |-> x])
      BY <1>14 DEF VerifyReport
    <2> HIDE DEF e
    <2>3. observations' \subseteq [event : EventRow, usd : Rates \cup {NoRates}]
      BY <2>1, <2>2, AppendEffect DEF TypeOK
    <2>4. QED
      BY <1>14, <2>3 DEF VerifyReport, TypeOK, Rows, RequestState, Idle, EventRow, Amount
  <1>15. ASSUME NEW r \in Report, RejectReport(r) PROVE TypeOK'
    BY <1>15 DEF RejectReport, TypeOK, Rows, RequestState, Idle, EventRow, Amount
  <1>16. CASE UNCHANGED vars
    BY <1>16 DEF vars, TypeOK, Rows, RequestState, Idle, EventRow, Amount
  <1>17. QED
    BY <1>1, <1>2, <1>3, <1>4, <1>5, <1>6, <1>7, <1>8, <1>9, <1>10, <1>11, <1>12,
       <1>13, <1>14, <1>15, <1>16 DEF Next

(* What enters the ledger has a reference, a date and an amount, whatever  *)
(* was pasted, and every request works on a row that is staged.            *)
THEOREM TypeCorrect == Spec => []TypeOK
  BY InitType, NextType, PTL DEF Spec

-----------------------------------------------------------------------------
(* Event e is a sale of row i that the ledger has.                         *)
Backing(i, e) ==
  /\ \E pct \in Premium :
       e = Event(house[staged[i].line], staged[i].ref,
                 Total(staged[i].line, pct), day[staged[i].line])
  /\ \E o \in observations : o.event = e

RowBacked(i) == staged[i].status = "ledged" =>
  \E e : staged[i].obs = {e} /\ Backing(i, e)

\* Between the append and the UPDATE the request knows the event that the
\* row will point at.
RequestBacked(q) == req[q].at = "ledged" => Backing(req[q].row, req[q].obs)

BackedInv ==
  /\ \A i \in Rows : RowBacked(i)
  /\ \A q \in Request : RequestBacked(q)

LEMMA BackedInvImplies == BackedInv => LedgedLineIsBacked
  BY DEF BackedInv, RowBacked, Backing, LedgedLineIsBacked

(* The ledger forgets nothing and a row keeps its line and its reference,  *)
(* so only the rows and requests that become ledged have to be looked at.  *)
LEMMA BackedStays ==
  ASSUME TypeOK, BackedInv, observations \subseteq observations',
         \A j \in Rows : staged'[j].line = staged[j].line /\ staged'[j].ref = staged[j].ref,
         \A j \in Rows' :
           \/ j \in Rows /\ staged'[j] = staged[j]
           \/ RowBacked(j)',
         \A q \in Request : req'[q] = req[q] \/ RequestBacked(q)'
  PROVE  BackedInv'
  <1>1. ASSUME NEW j \in Rows, NEW e, Backing(j, e) PROVE Backing(j, e)'
    BY <1>1 DEF Backing
  <1>2. ASSUME NEW j \in Rows' PROVE RowBacked(j)'
    BY <1>1 DEF BackedInv, RowBacked
  <1>3. ASSUME NEW q \in Request PROVE RequestBacked(q)'
    <2>1. CASE req'[q] = req[q] /\ req[q].at = "ledged"
      <3>1. req[q].row \in Rows
        BY <2>1, RequestFields DEF TypeOK
      <3>2. Backing(req[q].row, req[q].obs)
        BY <2>1 DEF BackedInv, RequestBacked
      <3>3. ASSUME NEW i \in Rows, NEW e, i = req[q].row, e = req[q].obs, Backing(i, e)
            PROVE  RequestBacked(q)'
        <4>1. Backing(i, e)'
          BY <1>1, <3>3
        <4>2. req'[q].row = i /\ req'[q].obs = e
          BY <2>1, <3>3
        <4>3. QED
          BY <4>1, <4>2 DEF RequestBacked, Backing
      <3>4. QED
        BY <3>1, <3>2, <3>3
    <2>2. CASE req'[q] = req[q] /\ req[q].at # "ledged"
      BY <2>2 DEF RequestBacked
    <2>3. QED
      BY <2>1, <2>2
  <1>4. QED
    BY <1>2, <1>3 DEF BackedInv

LEMMA BackedStep == TypeOK /\ BackedInv /\ [Next]_vars => BackedInv'
  <1> SUFFICES ASSUME TypeOK, BackedInv, [Next]_vars PROVE BackedInv'
    OBVIOUS
  <1> USE DEF desk, compute
  <1>1. CASE /\ UNCHANGED <<staged, req>>
             /\ observations \subseteq observations'
    BY <1>1, BackedStays DEF Rows
  <1>2. ASSUME NEW l \in Line, Paste(l) PROVE BackedInv'
    <2> DEFINE ref == FirstHit(catalogue, keys[l])
               row == [line |-> l, ref |-> ref, obs |-> {},
                       status |-> IF ref = NoRef THEN "unresolved" ELSE "parsed"]
    <2>1. ref \in Ref \cup {NoRef}
      BY FirstHitType DEF TypeOK
    <2>2. staged' = Append(staged, row)
      BY <1>2 DEF Paste
    <2> HIDE DEF ref
    <2>3. row \in StagedRow /\ row.status # "ledged"
      BY <2>1 DEF StagedRow
    <2> HIDE DEF row
    <2>4. /\ Len(staged') = Len(staged) + 1 /\ Len(staged) \in Nat
          /\ staged'[Len(staged) + 1] = row
          /\ \A j \in Rows : staged'[j] = staged[j]
      BY <2>2, <2>3 DEF TypeOK, Rows
    <2>5. ASSUME NEW j \in Rows' PROVE (j \in Rows /\ staged'[j] = staged[j]) \/ RowBacked(j)'
      BY <2>3, <2>4 DEF Rows, RowBacked
    <2>6. QED
      BY <1>2, <2>4, <2>5, BackedStays DEF Paste
  <1>3. ASSUME NEW q \in Request, NEW pct \in Premium, LedgerLine(q, pct) PROVE BackedInv'
    <2> DEFINE i == req[q].row
               l == LoadedLine(q)
               e == Event(house[l], staged[i].ref, Total(l, pct), day[l])
    <2>1. l = staged[i].line
      BY DEF LoadedLine
    <2>2. /\ \E x \in Rates \cup {NoRates} : AppendObservation([event |-> e, usd |-> x])
          /\ req' = [req EXCEPT ![q] = [at |-> "ledged", row |-> i, obs |-> e]]
          /\ staged' = staged
      BY <1>3 DEF LedgerLine, TypeOK
    <2>3. observations \subseteq observations' /\ \E x \in observations' : x.event = e
      BY <2>2, AppendEffect
    <2>4. req'[q].row = i /\ req'[q].obs = e /\ \A p \in Request \ {q} : req'[p] = req[p]
      BY <2>2 DEF TypeOK
    <2>5. RequestBacked(q)'
      BY <2>1, <2>2, <2>3, <2>4 DEF RequestBacked, Backing
    <2> HIDE DEF i, l, e
    <2>6. QED
      BY <2>2, <2>3, <2>4, <2>5, BackedStays DEF Rows
  <1>4. ASSUME NEW q \in Request, MarkLedged(q) PROVE BackedInv'
    <2>1. req[q].row \in Rows /\ req[q].obs \in EventRow
      BY <1>4, RequestFields DEF MarkLedged, TypeOK
    <2>2. PICK i \in Rows, e \in EventRow : i = req[q].row /\ e = req[q].obs
      BY <2>1
    <2>3. staged' = [staged EXCEPT ![i] = [@ EXCEPT !.status = "ledged", !.obs = {e}]]
      BY <1>4, <2>2 DEF MarkLedged
    <2>4. /\ Rows' = Rows
          /\ \A j \in Rows \ {i} : staged'[j] = staged[j]
          /\ staged'[i].obs = {e}
          /\ staged'[i].line = staged[i].line /\ staged'[i].ref = staged[i].ref
      BY <2>3, RestageLedged
    <2>5. Backing(i, e)
      BY <1>4, <2>2 DEF MarkLedged, BackedInv, RequestBacked
    <2>6. RowBacked(i)'
      BY <1>4, <2>4, <2>5 DEF MarkLedged, RowBacked, Backing
    <2>7. \A p \in Request : req'[p] = req[p] \/ RequestBacked(p)'
      BY <1>4 DEF MarkLedged, TypeOK, RequestBacked
    <2>8. \A j \in Rows : staged'[j].line = staged[j].line /\ staged'[j].ref = staged[j].ref
      BY <2>4
    <2>9. observations' = observations
      BY <1>4 DEF MarkLedged
    <2>10. QED
      BY <2>4, <2>6, <2>7, <2>8, <2>9, BackedStays
  <1>5. ASSUME NEW i \in Rows, NEW s \in {"discarded", "unresolved"},
               staged' = [staged EXCEPT ![i] = [@ EXCEPT !.status = s]],
               observations' = observations,
               \A q \in Request : req'[q] = req[q] \/ RequestBacked(q)'
        PROVE  BackedInv'
    <2>1. /\ Rows' = Rows
          /\ \A j \in Rows \ {i} : staged'[j] = staged[j]
          /\ staged'[i].status = s
          /\ staged'[i].line = staged[i].line /\ staged'[i].ref = staged[i].ref
      BY <1>5, RestageStatus
    <2>2. RowBacked(i)'
      BY <2>1 DEF RowBacked
    <2>3. \A j \in Rows : staged'[j].line = staged[j].line /\ staged'[j].ref = staged[j].ref
      BY <2>1
    <2>4. QED
      BY <1>5, <2>1, <2>2, <2>3, BackedStays
  <1>6. ASSUME NEW q \in Request, MarkUnresolved(q) PROVE BackedInv'
    <2>1. req[q].row \in Rows
      BY <1>6, RequestFields DEF MarkUnresolved, TypeOK
    <2>2. \A p \in Request : req'[p] = req[p] \/ RequestBacked(p)'
      BY <1>6 DEF MarkUnresolved, TypeOK, RequestBacked, Idle
    <2>3. QED
      BY <1>5, <1>6, <2>1, <2>2 DEF MarkUnresolved
  <1>7. ASSUME NEW i \in Rows, Discard(i) PROVE BackedInv'
    BY <1>5, <1>7 DEF Discard
  <1>8. ASSUME NEW q \in Request, UNCHANGED <<staged, observations>>,
               \/ \E i \in Rows : LoadLine(q, i)
               \/ RefuseLine(q) \/ BreakLine(q) \/ LoseMark(q)
               \/ Recompute(q) \/ Redirect(q) \/ Die(q)
        PROVE  BackedInv'
    <2>1. \A p \in Request : req'[p] = req[p] \/ req'[p].at # "ledged"
      <3>1. \A p \in Request \ {q} : req'[p] = req[p]
        BY <1>8 DEF LoadLine, RefuseLine, BreakLine, LoseMark, Recompute, Redirect, Die,
           TypeOK
      <3>2. req'[q].at # "ledged"
        <4>1. CASE LoseMark(q)
          BY <4>1 DEF LoseMark, TypeOK, Idle
        <4>2. CASE RefuseLine(q) \/ BreakLine(q)
          <5>1. req' = [req EXCEPT ![q] = [at |-> "refused", row |-> req[q].row]]
            BY <4>2 DEF RefuseLine, BreakLine, TypeOK
          <5>2. QED
            BY <5>1 DEF TypeOK
        <4>3. CASE Redirect(q) \/ Die(q)
          BY <4>3 DEF Redirect, Die, TypeOK, Idle
        <4>6. CASE Recompute(q)
          BY <4>6 DEF Recompute, TypeOK
        <4>4. ASSUME NEW i \in Rows, LoadLine(q, i) PROVE req'[q].at # "ledged"
          BY <4>4 DEF LoadLine, TypeOK
        <4>5. QED
          BY <1>8, <4>1, <4>2, <4>3, <4>4, <4>6
      <3>3. QED
        BY <3>1, <3>2
    <2>2. QED
      BY <1>8, <2>1, BackedStays DEF RequestBacked, Rows
  <1>9. ASSUME NEW r \in Report, VerifyReport(r) PROVE BackedInv'
    BY <1>1, <1>9, AppendEffect DEF VerifyReport
  <1>10. QED
    BY <1>1, <1>2, <1>3, <1>4, <1>6, <1>7, <1>8, <1>9 DEF Next, vars, Learn, LoadLine,
       RefuseLine, BreakLine, LoseMark, Recompute, NightlyRun, Save, Redirect, Die,
       KillNightly, RejectReport

(* Whatever requests interleave on a row and whichever of their statements *)
(* fail, a row marked 'ledged' points at an observation of its own sale.   *)
THEOREM LedgedLinesAreBacked == Spec => []LedgedLineIsBacked
  <1>1. Init => BackedInv
    BY DEF Init, BackedInv, RowBacked, RequestBacked, Rows, Idle
  <1>2. QED
    BY <1>1, InitType, NextType, BackedStep, BackedInvImplies, PTL DEF Spec

-----------------------------------------------------------------------------
\* Row i has entered nothing, or just event e.
NothingOf(i) == \A e : <<i, e>> \notin entered
JustOf(i, e) == \A x : <<i, x>> \in entered <=> x = e

\* How far the one request on row i is, and what the row has entered by then.
WorkedRow(i) ==
  \A q \in Request : WorksOn(q, i) =>
    /\ \A p \in Request : WorksOn(p, i) => p = q
    /\ i \notin late
    /\ req[q].at \in {"loaded", "refused"} => staged[i].status = "parsed" /\ NothingOf(i)
    /\ req[q].at = "ledged" => staged[i].status = "parsed" /\ JustOf(i, req[q].obs)
    /\ req[q].at \in {"marked", "computing"} => staged[i].status = "ledged" /\ \E e : JustOf(i, e)

\* What a row has entered when no request is on it.
RestingRow(i) ==
  \/ WorkedOn(i)
  \/ staged[i].status # "ledged" /\ i \notin late /\ NothingOf(i)
  \/ staged[i].status = "ledged" /\ i \notin late /\ \E e : JustOf(i, e)
  \/ staged[i].status = "discarded" /\ i \in late /\ \E e : JustOf(i, e)

QuietInv == \A i \in Rows : i \notin upset => WorkedRow(i) /\ RestingRow(i)

LEMMA QuietInvImplies == TypeOK /\ QuietInv => QuietLineHasOnePrice
  <1> SUFFICES ASSUME TypeOK, QuietInv, NEW i \in Rows, i \notin upset
               PROVE  LET events == {x[2] : x \in {y \in entered : y[1] = i}}
                      IN  /\ Cardinality(events) <= 1
                          /\ ~WorkedOn(i) =>
                               (events # {} <=> staged[i].status = "ledged" \/ i \in late)
    BY DEF QuietLineHasOnePrice
  <1> DEFINE events == {x[2] : x \in {y \in entered : y[1] = i}}
  <1>1. \A e : e \in events <=> <<i, e>> \in entered
    <2>1. \A x \in entered : x = <<x[1], x[2]>>
      BY DEF TypeOK
    <2>2. QED
      BY <2>1
  <1>2. NothingOf(i) => events = {}
    BY <1>1 DEF NothingOf
  <1>3. \A e : JustOf(i, e) => events = {e}
    BY <1>1 DEF JustOf
  <1> HIDE DEF events
  <1>4. WorkedRow(i) /\ RestingRow(i)
    BY DEF QuietInv
  <1>5. NothingOf(i) \/ \E e : JustOf(i, e)
    <2>1. ASSUME NEW q \in Request, WorksOn(q, i)
          PROVE  NothingOf(i) \/ \E e : JustOf(i, e)
      <3>1. req[q].at \in {"loaded", "ledged", "refused", "marked", "computing"}
        BY <2>1, RequestFields DEF WorksOn, TypeOK
      <3>2. QED
        BY <1>4, <2>1, <3>1 DEF WorkedRow
    <2>2. QED
      BY <1>4, <2>1 DEF RestingRow, WorkedOn
  <1>6. events = {} \/ \E e : events = {e}
    BY <1>2, <1>3, <1>5
  <1>7. Cardinality(events) <= 1
    <2>1. CASE events = {}
      <3>1. Cardinality(events) = 0
        BY <2>1, FS_EmptySet
      <3>2. QED
        BY <3>1
    <2>2. ASSUME NEW e, events = {e} PROVE Cardinality(events) <= 1
      <3>1. Cardinality({e}) = 1
        BY FS_Singleton
      <3>2. QED
        BY <2>2, <3>1
    <2>3. QED
      BY <1>6, <2>1, <2>2
  <1>8. ~WorkedOn(i) => (events # {} <=> staged[i].status = "ledged" \/ i \in late)
    BY <1>2, <1>3, <1>4 DEF RestingRow
  <1>9. QED
    BY <1>7, <1>8 DEF events

\* Nothing happens to row i.
Untouched(i) ==
  /\ \A q \in Request : WorksOn(q, i)' <=> WorksOn(q, i)
  /\ \A q \in Request : WorksOn(q, i) => req'[q] = req[q]
  /\ staged'[i] = staged[i]
  /\ (i \in upset' <=> i \in upset) /\ (i \in late' <=> i \in late)
  /\ \A e : <<i, e>> \in entered' <=> <<i, e>> \in entered

LEMMA UntouchedStays ==
  ASSUME NEW i \in Rows, QuietInv, Untouched(i), i \notin upset'
  PROVE  WorkedRow(i)' /\ RestingRow(i)'
  <1>1. WorkedRow(i) /\ RestingRow(i)
    BY DEF QuietInv, Untouched
  <1>2. NothingOf(i) <=> NothingOf(i)'
    BY DEF Untouched, NothingOf
  <1>3. \A e : JustOf(i, e) <=> JustOf(i, e)'
    BY DEF Untouched, JustOf
  <1>4. WorkedOn(i)' <=> WorkedOn(i)
    BY DEF Untouched, WorkedOn
  <1>5. RestingRow(i)'
    BY <1>1, <1>2, <1>3, <1>4 DEF Untouched, RestingRow
  <1>6. WorkedRow(i)'
    <2> SUFFICES ASSUME NEW q \in Request, WorksOn(q, i)'
                 PROVE  /\ \A p \in Request : WorksOn(p, i)' => p = q
                        /\ i \notin late'
                        /\ req'[q].at \in {"loaded", "refused"} =>
                             staged'[i].status = "parsed" /\ NothingOf(i)'
                        /\ req'[q].at = "ledged" =>
                             staged'[i].status = "parsed"
                             /\ \A x : <<i, x>> \in entered' <=> x = req'[q].obs
                        /\ req'[q].at \in {"marked", "computing"} =>
                             staged'[i].status = "ledged" /\ \E e : JustOf(i, e)'
      BY DEF WorkedRow, JustOf
    <2>1. WorksOn(q, i) /\ req'[q] = req[q]
      BY DEF Untouched
    <2>2. req[q].at = "ledged" => \A x : <<i, x>> \in entered <=> x = req[q].obs
      BY <1>1, <2>1 DEF WorkedRow, JustOf
    <2>3. QED
      BY <1>1, <1>2, <1>3, <2>1, <2>2 DEF Untouched, WorkedRow
  <1>7. QED
    BY <1>5, <1>6

\* History changes at most for row r.
HistoryOff(r) == \A j \in Rows \ {r} :
  /\ (j \in upset' <=> j \in upset) /\ (j \in late' <=> j \in late)
  /\ \A e : <<j, e>> \in entered' <=> <<j, e>> \in entered

LEMMA UpsetOff ==
  ASSUME NEW r \in Rows, Upset(r)
  PROVE  HistoryOff(r) /\ r \in upset'
  <1>1. \A j \in Rows \ {r} : \A e : <<j, e>> \in entered' <=> <<j, e>> \in entered
    <2>1. entered' = {x \in entered : x[1] # r}
      BY DEF Upset
    <2>2. QED
      BY <2>1
  <1>2. QED
    BY <1>1 DEF Upset, HistoryOff

(* A step about row r leaves the other rows as they are.                   *)
LEMMA OtherRows ==
  ASSUME TypeOK, QuietInv, NEW r \in Rows, Rows' = Rows, HistoryOff(r),
         \A j \in Rows \ {r} : staged'[j] = staged[j],
         \A q \in Request : \/ req'[q] = req[q]
                            \/ /\ req[q] = Idle \/ req[q].row = r
                               /\ req'[q] = Idle \/ req'[q].row = r,
         r \notin upset' => WorkedRow(r)' /\ RestingRow(r)'
  PROVE  QuietInv'
  <1>1. ASSUME NEW j \in Rows \ {r} PROVE Untouched(j)
    <2>1. \A q \in Request : WorksOn(q, j)' <=> WorksOn(q, j)
      BY <1>1 DEF WorksOn, Idle
    <2>2. \A q \in Request : WorksOn(q, j) => req'[q] = req[q]
      BY <1>1 DEF WorksOn, Idle
    <2>3. QED
      BY <1>1, <2>1, <2>2 DEF Untouched, HistoryOff
  <1>2. ASSUME NEW j \in Rows', j \notin upset' PROVE WorkedRow(j)' /\ RestingRow(j)'
    BY <1>1, <1>2, UntouchedStays
  <1>3. QED
    BY <1>2 DEF QuietInv

LEMMA NothingHappens ==
  ASSUME QuietInv, UNCHANGED <<staged, req, upset, entered, late>>
  PROVE  QuietInv'
  <1>1. Rows' = Rows /\ \A j \in Rows : Untouched(j)
    BY DEF Rows, Untouched, WorksOn
  <1>2. QED
    BY <1>1, UntouchedStays DEF QuietInv

\* The request that is on a quiet row is the only one.
LEMMA OnlyRequest ==
  ASSUME TypeOK, QuietInv, NEW q \in Request, req[q] # Idle, req[q].row \notin upset
  PROVE  LET r == req[q].row
         IN  /\ r \in Rows /\ WorksOn(q, r) /\ r \notin late
             /\ \A p \in Request : WorksOn(p, r) => p = q
             /\ req[q].at \in {"loaded", "refused"} => staged[r].status = "parsed" /\ NothingOf(r)
             /\ req[q].at = "ledged" => staged[r].status = "parsed" /\ JustOf(r, req[q].obs)
             /\ req[q].at \in {"marked", "computing"} => staged[r].status = "ledged" /\ \E e : JustOf(r, e)
  <1>1. req[q].row \in Rows /\ WorksOn(q, req[q].row)
    BY RequestFields DEF TypeOK, WorksOn
  <1>2. WorkedRow(req[q].row)
    BY <1>1 DEF QuietInv
  <1>3. QED
    BY <1>1, <1>2 DEF WorkedRow

(* A row at rest after a step: a request is on it, or it has what it needs.*)
LEMMA RestsNow ==
  ASSUME NEW r,
         \/ \E q \in Request : WorksOn(q, r)'
         \/ staged'[r].status # "ledged" /\ r \notin late' /\ NothingOf(r)'
         \/ staged'[r].status = "ledged" /\ r \notin late' /\ \E e : JustOf(r, e)'
         \/ staged'[r].status = "discarded" /\ r \in late' /\ \E e : JustOf(r, e)'
  PROVE  RestingRow(r)'
  <1>1. ASSUME NEW q \in Request, WorksOn(q, r)' PROVE WorkedOn(r)'
    BY <1>1 DEF WorkedOn
  <1>2. CASE \E q \in Request : WorksOn(q, r)'
    BY <1>1, <1>2 DEF RestingRow
  <1>3. QED
    BY <1>2 DEF RestingRow

LEMMA NoRequestWorks ==
  ASSUME NEW r, \A p \in Request : ~WorksOn(p, r)'
  PROVE  WorkedRow(r)'
  BY DEF WorkedRow

LEMMA QuietLoad ==
  ASSUME TypeOK, QuietInv, NEW q \in Request, NEW i \in Rows, LoadLine(q, i)
  PROVE  QuietInv'
  <1>1. /\ req[q] = Idle /\ staged[i].status = "parsed"
        /\ req'[q] = [at |-> "loaded", row |-> i]
        /\ \A p \in Request \ {q} : req'[p] = req[p]
        /\ Touch(i) /\ staged' = staged /\ Rows' = Rows
    BY DEF LoadLine, TypeOK, desk, Rows
  <1>2. HistoryOff(i)
    BY <1>1, UpsetOff DEF Touch, HistoryOff, history
  <1>3. ASSUME i \notin upset' PROVE WorkedRow(i)' /\ RestingRow(i)'
    <2>1. ~WorkedOn(i) /\ UNCHANGED history
      BY <1>1, <1>3, UpsetOff DEF Touch
    <2>2. NothingOf(i) /\ i \notin late
      BY <1>1, <1>3, <2>1 DEF QuietInv, RestingRow, history
    <2>3. \A p \in Request : WorksOn(p, i)' => p = q
      BY <1>1, <2>1 DEF WorksOn, WorkedOn
    <2>4. WorksOn(q, i)'
      BY <1>1 DEF WorksOn, Idle
    <2>5. NothingOf(i)' /\ i \notin late'
      BY <2>1, <2>2 DEF history, NothingOf
    <2>6. WorkedRow(i)'
      BY <1>1, <2>3, <2>5 DEF WorkedRow
    <2>7. RestingRow(i)'
      BY <2>4, RestsNow
    <2>8. QED
      BY <2>6, <2>7
  <1>4. QED
    BY <1>1, <1>2, <1>3, OtherRows

\* The history of a row is upset while a request is on it.
LEMMA QuietUpset ==
  ASSUME TypeOK, QuietInv, NEW q \in Request, req[q] # Idle, Upset(req[q].row),
         req'[q] = Idle \/ req'[q].row = req[q].row,
         \A p \in Request \ {q} : req'[p] = req[p], staged' = staged
  PROVE  QuietInv'
  <1>1. PICK r \in Rows : r = req[q].row
    BY RequestFields DEF TypeOK
  <1>2. HistoryOff(r) /\ r \in upset'
    BY <1>1, UpsetOff
  <1>3. Rows' = Rows
    BY DEF Rows
  <1>4. QED
    BY <1>1, <1>2, <1>3, OtherRows

\* A request moves on with its row while nothing is entered.
LEMMA QuietMove ==
  ASSUME TypeOK, QuietInv, NEW q \in Request, req[q] # Idle,
         NEW r \in Rows, r = req[q].row, UNCHANGED history, Rows' = Rows,
         \A j \in Rows \ {r} : staged'[j] = staged[j],
         \A p \in Request \ {q} : req'[p] = req[p],
         \/ /\ req'[q] = [at |-> "refused", row |-> r]
            /\ req[q].at = "loaded" /\ staged' = staged
         \/ /\ req'[q] = [at |-> "marked", row |-> r]
            /\ req[q].at = "ledged" /\ staged'[r].status = "ledged"
         \/ /\ req'[q] = Idle
            /\ req[q].at = "refused" /\ staged'[r].status = "unresolved"
         \/ /\ req'[q] = [at |-> "computing", row |-> r]
            /\ req[q].at = "marked" /\ staged' = staged
         \/ /\ req'[q] = Idle
            /\ req[q].at = "computing" /\ staged' = staged
  PROVE  QuietInv'
  <1>1. HistoryOff(r)
    BY DEF HistoryOff, history
  <1>2. ASSUME r \notin upset' PROVE WorkedRow(r)' /\ RestingRow(r)'
    <2>1. /\ r \notin late
          /\ \A p \in Request : WorksOn(p, r) => p = q
          /\ req[q].at \in {"loaded", "refused"} => staged[r].status = "parsed" /\ NothingOf(r)
          /\ req[q].at = "ledged" => staged[r].status = "parsed" /\ JustOf(r, req[q].obs)
          /\ req[q].at \in {"marked", "computing"} => staged[r].status = "ledged" /\ \E e : JustOf(r, e)
      BY <1>2, OnlyRequest DEF history
    <2>2. \A p \in Request : WorksOn(p, r)' => p = q
      BY <2>1 DEF WorksOn
    <2>3. (NothingOf(r) => NothingOf(r)') /\ (\A e : JustOf(r, e) => JustOf(r, e)')
          /\ r \notin late'
      BY <2>1 DEF NothingOf, JustOf, history
    <2>4. CASE req'[q] = [at |-> "refused", row |-> r] /\ req[q].at = "loaded" /\ staged' = staged
      <3>1. WorksOn(q, r)' /\ req'[q].at = "refused"
        BY <2>4 DEF WorksOn, Idle
      <3>2. WorkedRow(r)'
        BY <2>1, <2>2, <2>3, <2>4, <3>1 DEF WorkedRow
      <3>3. QED
        BY <3>1, <3>2, RestsNow
    <2>5. CASE req'[q] = [at |-> "marked", row |-> r] /\ req[q].at = "ledged"
               /\ staged'[r].status = "ledged"
      <3>1. WorksOn(q, r)' /\ req'[q].at = "marked"
        BY <2>5 DEF WorksOn, Idle
      <3>2. \E e : JustOf(r, e)'
        BY <2>1, <2>3, <2>5
      <3>3. WorkedRow(r)'
        BY <2>2, <2>3, <2>5, <3>1, <3>2 DEF WorkedRow
      <3>4. QED
        BY <3>1, <3>3, RestsNow
    <2>6. CASE req'[q] = Idle /\ req[q].at = "refused" /\ staged'[r].status = "unresolved"
      <3>1. \A p \in Request : ~WorksOn(p, r)'
        BY <2>2, <2>6 DEF WorksOn
      <3>2. NothingOf(r)'
        BY <2>1, <2>3, <2>6
      <3>3. QED
        BY <2>3, <2>6, <3>1, <3>2, RestsNow, NoRequestWorks
    <2>7. CASE req'[q] = Idle /\ req[q].at = "computing" /\ staged' = staged
      <3>1. \A p \in Request : ~WorksOn(p, r)'
        BY <2>2, <2>7 DEF WorksOn
      <3>2. staged'[r].status = "ledged" /\ \E e : JustOf(r, e)'
        BY <2>1, <2>3, <2>7
      <3>3. QED
        BY <2>3, <3>1, <3>2, RestsNow, NoRequestWorks
    <2>8. CASE req'[q] = [at |-> "computing", row |-> r] /\ req[q].at = "marked"
               /\ staged' = staged
      <3>1. WorksOn(q, r)' /\ req'[q].at = "computing"
        BY <2>8 DEF WorksOn, Idle
      <3>2. staged'[r].status = "ledged" /\ \E e : JustOf(r, e)'
        BY <2>1, <2>3, <2>8
      <3>3. WorkedRow(r)'
        BY <2>2, <2>3, <2>8, <3>1, <3>2 DEF WorkedRow
      <3>4. QED
        BY <3>1, <3>3, RestsNow
    <2>9. QED
      BY <2>4, <2>5, <2>6, <2>7, <2>8
  <1>3. QED
    BY <1>1, <1>2, OtherRows

LEMMA QuietLedger ==
  ASSUME TypeOK, QuietInv, NEW q \in Request, NEW pct \in Premium, LedgerLine(q, pct)
  PROVE  QuietInv'
  <1>1. req[q].at = "loaded" /\ req[q] # Idle
    BY DEF LedgerLine, Idle
  <1>2. PICK r \in Rows : r = req[q].row
    BY <1>1, RequestFields DEF TypeOK
  <1>3. PICK e : /\ req'[q] = [at |-> "ledged", row |-> r, obs |-> e]
                 /\ \A p \in Request \ {q} : req'[p] = req[p]
                 /\ entered' = IF r \in upset THEN entered ELSE entered \cup {<<r, e>>}
                 /\ staged' = staged /\ Rows' = Rows /\ upset' = upset /\ late' = late
    <2> DEFINE l == LoadedLine(q)
               e == Event(house[l], staged[req[q].row].ref, Total(l, pct), day[l])
    <2>1. /\ req' = [req EXCEPT ![q] = [at |-> "ledged", row |-> req[q].row, obs |-> e]]
          /\ entered' = IF req[q].row \in upset THEN entered
                        ELSE entered \cup {<<req[q].row, e>>}
          /\ UNCHANGED <<staged, upset, late>>
      BY DEF LedgerLine, desk, TypeOK
    <2> HIDE DEF l, e
    <2>2. QED
      BY <1>2, <2>1 DEF TypeOK, Rows
  <1>4. HistoryOff(r)
    BY <1>3 DEF HistoryOff
  <1>5. ASSUME r \notin upset' PROVE WorkedRow(r)' /\ RestingRow(r)'
    <2>1. /\ r \notin late
          /\ \A p \in Request : WorksOn(p, r) => p = q
          /\ staged[r].status = "parsed" /\ NothingOf(r)
      BY <1>1, <1>2, <1>3, <1>5, OnlyRequest
    <2>2. entered' = entered \cup {<<r, e>>}
      BY <1>3, <1>5
    <2>3. \A x : <<r, x>> \in entered' <=> x = req'[q].obs
      BY <1>3, <2>1, <2>2 DEF NothingOf
    <2>4. \A p \in Request : WorksOn(p, r)' => p = q
      BY <1>3, <2>1 DEF WorksOn
    <2>5. WorksOn(q, r)' /\ req'[q].at = "ledged"
      BY <1>3 DEF WorksOn, Idle
    <2>6. WorkedRow(r)'
      BY <1>3, <2>1, <2>3, <2>4, <2>5 DEF WorkedRow, JustOf
    <2>7. QED
      BY <2>5, <2>6, RestsNow
  <1>6. QED
    BY <1>2, <1>3, <1>4, <1>5, OtherRows

LEMMA QuietDiscard ==
  ASSUME TypeOK, QuietInv, NEW i \in Rows, Discard(i)
  PROVE  QuietInv'
  <1>1. /\ staged[i].status # "discarded" /\ req' = req
        /\ Rows' = Rows /\ (\A j \in Rows \ {i} : staged'[j] = staged[j])
        /\ staged'[i].status = "discarded"
    BY RestageStatus DEF Discard
  <1>2. HistoryOff(i)
    BY UpsetOff DEF Discard, Touch, HistoryOff, history
  <1>3. ASSUME i \notin upset' PROVE WorkedRow(i)' /\ RestingRow(i)'
    <2>1. i \notin upset /\ ~WorkedOn(i) /\ UNCHANGED <<upset, entered>>
      BY <1>3, UpsetOff DEF Discard, Touch, Upset, history
    <2>2. \A p \in Request : ~WorksOn(p, i)'
      BY <1>1, <2>1 DEF WorkedOn, WorksOn
    <2>3. RestingRow(i)
      BY <2>1 DEF QuietInv
    <2>4. CASE staged[i].status = "ledged"
      <3>1. late' = late \cup {i}
        BY <2>1, <2>4 DEF Discard
      <3>2. PICK e : JustOf(i, e)
        BY <2>1, <2>3, <2>4 DEF RestingRow
      <3>3. JustOf(i, e)'
        BY <2>1, <3>2 DEF JustOf
      <3>4. QED
        BY <1>1, <2>2, <3>1, <3>3, RestsNow, NoRequestWorks
    <2>5. CASE staged[i].status # "ledged"
      <3>1. UNCHANGED history
        BY <2>1, <2>5 DEF Discard, Touch
      <3>2. i \notin late /\ NothingOf(i)
        BY <1>1, <2>1, <2>3, <2>5 DEF RestingRow
      <3>3. i \notin late' /\ NothingOf(i)'
        BY <3>1, <3>2 DEF history, NothingOf
      <3>4. QED
        BY <1>1, <2>2, <3>3, RestsNow, NoRequestWorks
    <2>6. QED
      BY <2>4, <2>5
  <1>4. QED
    BY <1>1, <1>2, <1>3, OtherRows

LEMMA QuietPaste ==
  ASSUME TypeOK, QuietInv, NEW l \in Line, Paste(l)
  PROVE  QuietInv'
  <1> DEFINE ref == FirstHit(catalogue, keys[l])
             row == [line |-> l, ref |-> ref, obs |-> {},
                     status |-> IF ref = NoRef THEN "unresolved" ELSE "parsed"]
             n   == Len(staged) + 1
  <1>1. ref \in Ref \cup {NoRef}
    BY FirstHitType DEF TypeOK
  <1>2. staged' = Append(staged, row) /\ UNCHANGED <<req, upset, entered, late>>
    BY DEF Paste, history
  <1> HIDE DEF ref
  <1>3. row \in StagedRow /\ row.status # "ledged"
    BY <1>1 DEF StagedRow
  <1> HIDE DEF row
  <1>4. /\ Rows' = Rows \cup {n} /\ n \notin Rows /\ n \in Nat
        /\ staged'[n] = row
        /\ \A j \in Rows : staged'[j] = staged[j]
    BY <1>2, <1>3 DEF TypeOK, Rows
  <1>5. \A j \in Rows : Untouched(j)
    BY <1>2, <1>4 DEF Untouched, WorksOn
  <1>6. PICK m : m = n
    OBVIOUS
  <1> HIDE DEF n
  <1>7. \A q \in Request : ~WorksOn(q, m)'
    <2>1. \A q \in Request : req[q] # Idle => req[q].row \in Rows
      BY RequestFields DEF TypeOK
    <2>2. QED
      BY <1>2, <1>4, <1>6, <2>1 DEF WorksOn
  <1>8. NothingOf(m)' /\ m \notin late'
    BY <1>2, <1>4, <1>6 DEF NothingOf, TypeOK
  <1>9. staged'[m].status # "ledged"
    BY <1>3, <1>4, <1>6
  <1>10. WorkedRow(m)' /\ RestingRow(m)'
    BY <1>7, <1>8, <1>9, RestsNow, NoRequestWorks
  <1>11. ASSUME NEW j \in Rows', j \notin upset' PROVE WorkedRow(j)' /\ RestingRow(j)'
    BY <1>4, <1>5, <1>6, <1>10, <1>11, UntouchedStays
  <1>12. QED
    BY <1>11 DEF QuietInv

LEMMA QuietMark ==
  ASSUME TypeOK, QuietInv, NEW q \in Request,
         RefuseLine(q) \/ MarkLedged(q) \/ MarkUnresolved(q) \/ Recompute(q) \/ Redirect(q)
  PROVE  QuietInv'
  <1>1. req[q] # Idle
    <2>1. req[q].at \in {"loaded", "ledged", "refused", "marked", "computing"}
      BY DEF RefuseLine, MarkLedged, MarkUnresolved, Recompute, Redirect
    <2>2. QED
      BY <2>1, RequestFields DEF TypeOK
  <1>2. PICK r \in Rows : r = req[q].row
    BY <1>1, RequestFields DEF TypeOK
  <1> USE DEF desk
  <1>3. CASE RefuseLine(q)
    <2>1. /\ req' = [req EXCEPT ![q] = [at |-> "refused", row |-> r]]
          /\ req[q].at = "loaded" /\ staged' = staged /\ UNCHANGED history /\ Rows' = Rows
      BY <1>2, <1>3 DEF RefuseLine, TypeOK, Rows
    <2>2. req'[q] = [at |-> "refused", row |-> r] /\ \A p \in Request \ {q} : req'[p] = req[p]
      BY <2>1 DEF TypeOK
    <2>3. QED
      BY <1>1, <1>2, <2>1, <2>2, QuietMove
  <1>4. CASE MarkLedged(q)
    <2>1. req[q].at = "ledged" /\ req[q].obs \in EventRow
      BY <1>1, <1>4, RequestFields DEF MarkLedged, TypeOK
    <2>2. PICK e \in EventRow : e = req[q].obs
      BY <2>1
    <2>3. /\ staged' = [staged EXCEPT ![r] = [@ EXCEPT !.status = "ledged", !.obs = {e}]]
          /\ req' = [req EXCEPT ![q] = [at |-> "marked", row |-> r]] /\ UNCHANGED history
      BY <1>2, <1>4, <2>2 DEF MarkLedged, TypeOK
    <2>4. /\ Rows' = Rows /\ (\A j \in Rows \ {r} : staged'[j] = staged[j])
          /\ staged'[r].status = "ledged"
      BY <2>3, RestageLedged
    <2>5. req'[q] = [at |-> "marked", row |-> r] /\ \A p \in Request \ {q} : req'[p] = req[p]
      BY <2>3 DEF TypeOK
    <2>6. QED
      BY <1>1, <1>2, <2>1, <2>3, <2>4, <2>5, QuietMove
  <1>5. CASE MarkUnresolved(q)
    <2>1. /\ staged' = [staged EXCEPT ![r] = [@ EXCEPT !.status = "unresolved"]]
          /\ req' = [req EXCEPT ![q] = Idle] /\ UNCHANGED history /\ req[q].at = "refused"
      BY <1>2, <1>5 DEF MarkUnresolved
    <2>2. /\ Rows' = Rows /\ (\A j \in Rows \ {r} : staged'[j] = staged[j])
          /\ staged'[r].status = "unresolved"
      BY <2>1, RestageStatus
    <2>3. req'[q] = Idle /\ \A p \in Request \ {q} : req'[p] = req[p]
      BY <2>1 DEF TypeOK
    <2>4. QED
      BY <1>1, <1>2, <2>1, <2>2, <2>3, QuietMove
  <1>6. CASE Recompute(q)
    <2>1. /\ req' = [req EXCEPT ![q] = [at |-> "computing", row |-> r]]
          /\ UNCHANGED history /\ req[q].at = "marked" /\ staged' = staged /\ Rows' = Rows
      BY <1>2, <1>6 DEF Recompute, Rows, TypeOK
    <2>2. req'[q] = [at |-> "computing", row |-> r] /\ \A p \in Request \ {q} : req'[p] = req[p]
      BY <2>1 DEF TypeOK
    <2>3. QED
      BY <1>1, <1>2, <2>1, <2>2, QuietMove
  <1>7. CASE Redirect(q)
    <2>1. /\ req' = [req EXCEPT ![q] = Idle] /\ UNCHANGED history /\ req[q].at = "computing"
          /\ staged' = staged /\ Rows' = Rows
      BY <1>7 DEF Redirect, Rows
    <2>2. req'[q] = Idle /\ \A p \in Request \ {q} : req'[p] = req[p]
      BY <2>1 DEF TypeOK
    <2>3. QED
      BY <1>1, <1>2, <2>1, <2>2, QuietMove
  <1>8. QED
    BY <1>3, <1>4, <1>5, <1>6, <1>7

LEMMA QuietFailure ==
  ASSUME TypeOK, QuietInv, NEW q \in Request, BreakLine(q) \/ LoseMark(q) \/ Die(q)
  PROVE  QuietInv'
  <1>1. req[q] # Idle /\ Upset(req[q].row) /\ staged' = staged
    BY DEF BreakLine, LoseMark, Die, Idle, desk
  <1>2. \/ req' = [req EXCEPT ![q] = [at |-> "refused", row |-> req[q].row]]
        \/ req' = [req EXCEPT ![q] = [at |-> "marked", row |-> req[q].row]]
        \/ req' = [req EXCEPT ![q] = Idle]
    BY DEF BreakLine, LoseMark, Die, TypeOK
  <1>3. /\ req'[q] = Idle \/ req'[q].row = req[q].row
        /\ \A p \in Request \ {q} : req'[p] = req[p]
    BY <1>2 DEF TypeOK
  <1>4. QED
    BY <1>1, <1>3, QuietUpset

LEMMA QuietStep == TypeOK /\ QuietInv /\ [Next]_vars => QuietInv'
  <1> SUFFICES ASSUME TypeOK, QuietInv, [Next]_vars PROVE QuietInv'
    OBVIOUS
  <1>1. CASE \/ \E r \in Ref : Learn(r)
             \/ \E r \in Report : VerifyReport(r) \/ RejectReport(r)
             \/ NightlyRun \/ KillNightly
             \/ \E p \in Runner, c \in Cell : Save(p, c)
             \/ UNCHANGED vars
    BY <1>1, NothingHappens DEF Learn, NightlyRun, KillNightly, Save, VerifyReport, RejectReport, vars, desk, history
  <1>2. QED
    BY <1>1, QuietLoad, QuietLedger, QuietMark, QuietFailure, QuietDiscard, QuietPaste DEF Next

(* A line that one request at a time worked on, without a failed           *)
(* statement, has put one price into the ledger if it was ledged and none  *)
(* otherwise, whatever happened to the other lines and to the catalogue.   *)
THEOREM QuietLinesHaveOnePrice == Spec => []QuietLineHasOnePrice
  <1>1. Init => QuietInv
    BY DEF Init, QuietInv, Rows
  <1>2. QED
    BY <1>1, InitType, NextType, QuietStep, QuietInvImplies, PTL DEF Spec

-----------------------------------------------------------------------------
\* Event e is evidence of a stored verdict of its cell.
InVerdict(e) == \E S \in verdicts[cellOf[e.ref]] : e \in S

\* A request on row i has its recompute before it, or one under way that has
\* seen event e and not yet saved e's cell.
Coming(i, e) == \E q \in Request :
  /\ WorksOn(q, i)
  /\ req[q].at = "computing" => e \in run[q].seen /\ cellOf[e.ref] \in run[q].left

ComputedRow(i) == staged[i].status = "ledged" =>
  \A e \in staged[i].obs \cap Realised : InVerdict(e) \/ Coming(i, e)

ComputedInv == \A i \in Rows : i \notin upset => ComputedRow(i)

LEMMA ComputedInvImplies == ComputedInv => LedgedLineIsComputed
  <1>1. ASSUME NEW i, ~WorkedOn(i), NEW e PROVE ~Coming(i, e)
    BY <1>1 DEF Coming, WorkedOn
  <1>2. QED
    BY <1>1 DEF ComputedInv, ComputedRow, LedgedLineIsComputed, LedgedInPeace, InVerdict

\* What the events of the ledger are worth is as before.
SameWorth == \A e : (\E x \in observations : x.event = e) => (e \in Realised' <=> e \in Realised)

LEMMA SameWorthOf ==
  ASSUME observations' = observations
  PROVE  SameWorth
  BY DEF SameWorth, Realised

(* An event that the ledger has gets no dollars later on.                  *)
LEMMA SameWorthAppend ==
  ASSUME NEW o, AppendObservation(o)
  PROVE  SameWorth
  <1> SUFFICES ASSUME NEW e, \E x \in observations : x.event = e
               PROVE  e \in Realised' <=> e \in Realised
    BY DEF SameWorth
  <1>1. \A x \in observations' : x.event = e => x \in observations
    BY AppendEffect
  <1>2. observations \subseteq observations'
    BY AppendEffect
  <1>3. QED
    BY <1>1, <1>2 DEF Realised

LEMMA UpsetGrows == TypeOK /\ [Next]_vars => upset \subseteq upset'
  BY DEF Next, vars, history, Learn, Paste, LoadLine, Touch, Upset, LedgerLine,
     RefuseLine, BreakLine, MarkLedged, MarkUnresolved, LoseMark, Recompute, NightlyRun,
     Save, Redirect, Die, KillNightly, Discard, VerifyReport, RejectReport

\* For row i nothing gets worse: no verdict is lost, and a recompute that is
\* on its way stays on its way or has stored a verdict.
NothingLost(i) ==
  /\ \A c \in Cell : verdicts[c] \subseteq verdicts'[c]
  /\ \A e \in EventRow : Coming(i, e) => Coming(i, e)' \/ InVerdict(e) \/ InVerdict(e)'

LEMMA InVerdictStays ==
  ASSUME NEW e \in EventRow, \A c \in Cell : verdicts[c] \subseteq verdicts'[c], InVerdict(e)
  PROVE  InVerdict(e)'
  <1>1. cellOf[e.ref] \in Cell
    BY DEF EventRow
  <1>2. QED
    BY <1>1 DEF InVerdict

LEMMA ComputedStays ==
  ASSUME TypeOK, BackedInv, ComputedInv, NEW i \in Rows, i \notin upset,
         staged'[i] = staged[i], SameWorth, NothingLost(i)
  PROVE  ComputedRow(i)'
  <1> SUFFICES ASSUME staged[i].status = "ledged", NEW e \in staged[i].obs, e \in Realised'
               PROVE  InVerdict(e)' \/ Coming(i, e)'
    BY DEF ComputedRow
  <1>1. e \in EventRow
    BY RowFields
  <1>2. \E x \in observations : x.event = e
    BY DEF BackedInv, RowBacked, Backing
  <1>3. e \in Realised
    BY <1>2 DEF SameWorth
  <1>4. InVerdict(e) \/ Coming(i, e)
    BY <1>3 DEF ComputedInv, ComputedRow
  <1>5. QED
    BY <1>1, <1>4, InVerdictStays DEF NothingLost

(* A request that is not on row i leaves its verdicts coming.              *)
LEMMA ComingStays ==
  ASSUME NEW i, NEW e, Coming(i, e),
         \A q \in Request : WorksOn(q, i) => req'[q] = req[q] /\ run'[q] = run[q]
  PROVE  Coming(i, e)'
  <1>1. PICK q \in Request :
          /\ WorksOn(q, i)
          /\ req[q].at = "computing" => e \in run[q].seen /\ cellOf[e.ref] \in run[q].left
    BY DEF Coming
  <1>2. req'[q] = req[q] /\ run'[q] = run[q]
    BY <1>1
  <1>3. /\ WorksOn(q, i)'
        /\ req'[q].at = "computing" => e \in run'[q].seen /\ cellOf[e.ref] \in run'[q].left
    BY <1>1, <1>2 DEF WorksOn
  <1>4. QED
    BY <1>3 DEF Coming

\* A step of request q about its row r.
LEMMA ComputedOther ==
  ASSUME TypeOK, BackedInv, ComputedInv, NEW r \in Rows, NEW q \in Request,
         req[q] = Idle \/ req[q].row = r,
         \A p \in Request \ {q} : req'[p] = req[p] /\ run'[p] = run[p],
         Rows' = Rows, upset \subseteq upset',
         \A j \in Rows \ {r} : staged'[j] = staged[j],
         SameWorth, verdicts' = verdicts, r \notin upset' => ComputedRow(r)'
  PROVE  ComputedInv'
  <1>1. ASSUME NEW j \in Rows \ {r}, j \notin upset' PROVE ComputedRow(j)'
    <2>1. \A p \in Request : WorksOn(p, j) => p # q
      BY <1>1 DEF WorksOn
    <2>2. \A e \in EventRow : Coming(j, e) => Coming(j, e)'
      BY <2>1, ComingStays
    <2>3. NothingLost(j)
      BY <2>2 DEF NothingLost
    <2>4. QED
      BY <1>1, <2>3, ComputedStays
  <1>2. QED
    BY <1>1 DEF ComputedInv

(* A request with its recompute before it.                                 *)
LEMMA ComingNow ==
  ASSUME NEW q \in Request, NEW r, req'[q] # Idle, req'[q].row = r, req'[q].at # "computing"
  PROVE  ComputedRow(r)'
  <1>1. \A e : Coming(r, e)'
    BY DEF Coming, WorksOn
  <1>2. QED
    BY <1>1 DEF ComputedRow

(* A row that is left alone while verdicts are stored and runs begin and   *)
(* end.                                                                    *)
LEMMA ComputedElsewhere ==
  ASSUME TypeOK, BackedInv, ComputedInv, UNCHANGED <<staged, upset>>, SameWorth,
         \A j \in Rows : NothingLost(j)
  PROVE  ComputedInv'
  BY ComputedStays DEF ComputedInv, Rows

LEMMA ComputedSave ==
  ASSUME TypeOK, BackedInv, ComputedInv, NEW p \in Runner, NEW c \in Cell, Save(p, c)
  PROVE  ComputedInv'
  <1>1. UNCHANGED <<staged, upset, req, observations>>
    BY DEF Save, desk, history
  <1>2. verdicts' = [verdicts EXCEPT ![c] = @ \cup {InCell(c, run[p].seen)}]
    BY DEF Save
  <1>3. \A d \in Cell : verdicts[d] \subseteq verdicts'[d]
    BY <1>2 DEF TypeOK
  <1>4. InCell(c, run[p].seen) \in verdicts'[c]
    BY <1>2 DEF TypeOK
  <1>5. /\ run'[p] = IF run[p].left = {c} THEN NoRun
                     ELSE [seen |-> run[p].seen, left |-> run[p].left \ {c}]
        /\ \A x \in Runner \ {p} : run'[x] = run[x]
    BY DEF Save, Tick, TypeOK
  <1>6. run[p] \in [seen : SUBSET EventRow, left : SUBSET Cell]
    BY DEF TypeOK
  <1>7. ASSUME NEW j \in Rows, NEW e \in EventRow, Coming(j, e)
        PROVE  Coming(j, e)' \/ InVerdict(e)'
    <2>1. PICK q \in Request :
            /\ WorksOn(q, j)
            /\ req[q].at = "computing" => e \in run[q].seen /\ cellOf[e.ref] \in run[q].left
      BY <1>7 DEF Coming
    <2>2. WorksOn(q, j)' /\ req'[q] = req[q] /\ q \in Runner
      BY <1>1, <2>1 DEF WorksOn, Runner
    <2>3. CASE req[q].at # "computing" \/ q # p
      <3>1. req'[q].at = "computing" => e \in run'[q].seen /\ cellOf[e.ref] \in run'[q].left
        BY <1>5, <2>1, <2>2, <2>3
      <3>2. QED
        BY <2>2, <3>1 DEF Coming
    <2>4. CASE req[q].at = "computing" /\ q = p /\ cellOf[e.ref] = c
      <3>1. e \in InCell(c, run[p].seen)
        BY <2>1, <2>4 DEF InCell
      <3>2. QED
        BY <1>4, <2>4, <3>1 DEF InVerdict
    <2>5. CASE req[q].at = "computing" /\ q = p /\ cellOf[e.ref] # c
      <3>1. run[p].left # {c} /\ e \in run[p].seen /\ cellOf[e.ref] \in run[p].left
        BY <2>1, <2>5
      <3>2. e \in run'[p].seen /\ cellOf[e.ref] \in run'[p].left
        BY <1>5, <1>6, <2>5, <3>1
      <3>3. QED
        BY <2>2, <2>5, <3>2 DEF Coming
    <2>6. QED
      BY <2>3, <2>4, <2>5
  <1>8. \A j \in Rows : NothingLost(j)
    BY <1>3, <1>7 DEF NothingLost
  <1>9. QED
    BY <1>1, <1>8, SameWorthOf, ComputedElsewhere

LEMMA ComputedStep == TypeOK /\ BackedInv /\ ComputedInv /\ [Next]_vars => ComputedInv'
  <1> SUFFICES ASSUME TypeOK, BackedInv, ComputedInv, [Next]_vars PROVE ComputedInv'
    OBVIOUS
  <1> USE DEF desk, compute
  <1>1. upset \subseteq upset'
    BY UpsetGrows
  <1>2. CASE UNCHANGED <<staged, req, verdicts, upset>> /\ SameWorth
             /\ \A q \in Request : run'[q] = run[q]
    <2>1. \A j \in Rows : NothingLost(j)
      BY <1>2, ComingStays DEF NothingLost
    <2>2. QED
      BY <1>2, <2>1, ComputedElsewhere
  <1>3. CASE \/ \E r \in Ref : Learn(r)
             \/ \E r \in Report : RejectReport(r)
             \/ UNCHANGED vars
    BY <1>2, <1>3, SameWorthOf DEF Learn, RejectReport, vars, history
  <1>4. ASSUME NEW r \in Report, VerifyReport(r) PROVE ComputedInv'
    BY <1>2, <1>4, SameWorthAppend DEF VerifyReport, history
  <1>5. CASE NightlyRun \/ KillNightly
    <2>1. \A q \in Request : run'[q] = run[q]
      BY <1>5 DEF NightlyRun, KillNightly, Select, TypeOK, Runner
    <2>2. UNCHANGED <<staged, req, verdicts, upset, observations>>
      BY <1>5 DEF NightlyRun, KillNightly, Select, history
    <2>3. QED
      BY <1>2, <2>1, <2>2, SameWorthOf
  <1>6. ASSUME NEW q \in Request, NEW r \in Rows, req[q] = Idle \/ req[q].row = r,
               NEW x, req' = [req EXCEPT ![q] = x],
               \A p \in Request \ {q} : run'[p] = run[p],
               UNCHANGED <<staged, verdicts>>, SameWorth,
               (x # Idle /\ x.row = r /\ x.at # "computing") \/ r \in upset'
        PROVE  ComputedInv'
    <2>1. req'[q] = x /\ \A p \in Request \ {q} : req'[p] = req[p]
      BY <1>6 DEF TypeOK
    <2>2. Rows' = Rows
      BY <1>6 DEF Rows
    <2>3. r \notin upset' => ComputedRow(r)'
      BY <1>6, <2>1, ComingNow
    <2>4. QED
      BY <1>1, <1>6, <2>1, <2>2, <2>3, ComputedOther
  <1>7. ASSUME NEW q \in Request, NEW r \in Rows, LoadLine(q, r) PROVE ComputedInv'
    <2> DEFINE x == [at |-> "loaded", row |-> r]
    <2>1. x # Idle /\ x.row = r /\ x.at # "computing"
      BY DEF Idle
    <2>2. /\ req[q] = Idle /\ req' = [req EXCEPT ![q] = x]
          /\ UNCHANGED <<staged, verdicts, run, observations>>
      BY <1>7 DEF LoadLine
    <2> HIDE DEF x
    <2>3. QED
      BY <1>6, <2>1, <2>2, SameWorthOf
  <1>8. ASSUME NEW q \in Request, NEW pct \in Premium, LedgerLine(q, pct) PROVE ComputedInv'
    <2> DEFINE l == LoadedLine(q)
               e == Event(house[l], staged[req[q].row].ref, Total(l, pct), day[l])
               x == [at |-> "ledged", row |-> req[q].row, obs |-> e]
    <2>1. /\ \E u \in Rates \cup {NoRates} : AppendObservation([event |-> e, usd |-> u])
          /\ req' = [req EXCEPT ![q] = x] /\ UNCHANGED <<staged, verdicts, run>>
      BY <1>8 DEF LedgerLine, TypeOK
    <2>2. x # Idle /\ x.row = req[q].row /\ x.at # "computing"
      BY DEF Idle
    <2>3. req[q].row \in Rows
      BY <1>8, RequestFields DEF LedgerLine, TypeOK
    <2> HIDE DEF l, e, x
    <2>4. SameWorth
      BY <2>1, SameWorthAppend
    <2>5. QED
      BY <1>6, <2>1, <2>2, <2>3, <2>4
  <1>9. ASSUME NEW q \in Request, RefuseLine(q) \/ BreakLine(q) PROVE ComputedInv'
    <2> DEFINE x == [at |-> "refused", row |-> req[q].row]
    <2>1. req' = [req EXCEPT ![q] = x] /\ UNCHANGED <<staged, verdicts, run, observations>>
      BY <1>9 DEF RefuseLine, BreakLine, TypeOK
    <2>2. x # Idle /\ x.row = req[q].row /\ x.at # "computing"
      BY DEF Idle
    <2>3. req[q].row \in Rows
      BY <1>9, RequestFields DEF RefuseLine, BreakLine, TypeOK
    <2> HIDE DEF x
    <2>4. QED
      BY <1>6, <2>1, <2>2, <2>3, SameWorthOf
  <1>10. ASSUME NEW q \in Request, LoseMark(q) \/ Die(q) PROVE ComputedInv'
    <2>1. PICK x : req' = [req EXCEPT ![q] = x]
      BY <1>10 DEF LoseMark, Die
    <2>2. UNCHANGED <<staged, verdicts, observations>> /\ Upset(req[q].row)
      BY <1>10 DEF LoseMark, Die
    <2>3. req[q].row \in Rows
      BY <1>10, RequestFields DEF LoseMark, Die, TypeOK
    <2>4. req[q].row \in upset'
      BY <2>2 DEF Upset
    <2>5. \A p \in Request \ {q} : run'[p] = run[p]
      BY <1>10 DEF LoseMark, Die, TypeOK, Runner
    <2>6. QED
      BY <1>6, <2>1, <2>2, <2>3, <2>4, <2>5, SameWorthOf
  <1>11. ASSUME NEW q \in Request, Recompute(q) PROVE ComputedInv'
    <2>1. PICK r \in Rows : r = req[q].row
      BY <1>11, RequestFields DEF Recompute, TypeOK
    <2>2. /\ req'[q] = [at |-> "computing", row |-> r]
          /\ \A p \in Request \ {q} : req'[p] = req[p] /\ run'[p] = run[p]
          /\ run'[q] = [seen |-> Realised, left |-> {cellOf[e.ref] : e \in Realised}]
      BY <1>11, <2>1 DEF Recompute, Select, TypeOK, Runner
    <2>3. UNCHANGED <<staged, verdicts, observations>> /\ Rows' = Rows
      BY <1>11 DEF Recompute, Select, Rows
    <2>4. ComputedRow(r)'
      <3>1. WorksOn(q, r)'
        BY <2>2 DEF WorksOn, Idle
      <3>2. \A e \in Realised : e \in run'[q].seen /\ cellOf[e.ref] \in run'[q].left
        BY <2>2
      <3>3. \A e \in Realised : Coming(r, e)'
        BY <3>1, <3>2 DEF Coming
      <3>4. Realised' = Realised
        BY <2>3 DEF Realised
      <3>5. QED
        BY <3>3, <3>4 DEF ComputedRow
    <2>5. QED
      BY <1>1, <2>1, <2>2, <2>3, <2>4, SameWorthOf, ComputedOther
  <1>12. ASSUME NEW q \in Request, Redirect(q) PROVE ComputedInv'
    <2>1. /\ req[q].at = "computing" /\ run[q].left = {}
          /\ \A p \in Request \ {q} : req'[p] = req[p]
          /\ UNCHANGED <<staged, verdicts, run, observations, upset>>
      BY <1>12 DEF Redirect, Computing, TypeOK, history
    <2>2. ASSUME NEW j \in Rows, NEW e \in EventRow, Coming(j, e) PROVE Coming(j, e)'
      <3>1. PICK p \in Request :
              /\ WorksOn(p, j)
              /\ req[p].at = "computing" => e \in run[p].seen /\ cellOf[e.ref] \in run[p].left
        BY <2>2 DEF Coming
      <3>2. p # q
        BY <2>1, <3>1
      <3>3. req'[p] = req[p] /\ run'[p] = run[p]
        BY <2>1, <3>2
      <3>4. QED
        BY <3>1, <3>3 DEF Coming, WorksOn
    <2>3. \A j \in Rows : NothingLost(j)
      BY <2>1, <2>2 DEF NothingLost
    <2>4. QED
      BY <2>1, <2>3, SameWorthOf, ComputedElsewhere
  <1>13. ASSUME NEW r \in Rows, Discard(r) PROVE ComputedInv'
    <2>1. /\ Rows' = Rows /\ (\A j \in Rows \ {r} : staged'[j] = staged[j])
          /\ staged'[r].status = "discarded" /\ UNCHANGED <<req, verdicts, run, observations>>
      BY <1>13, RestageStatus DEF Discard
    <2>2. ASSUME NEW j \in Rows, j \notin upset' PROVE ComputedRow(j)'
      <3>1. CASE j = r
        BY <2>1, <3>1 DEF ComputedRow
      <3>2. CASE j # r
        <4>1. NothingLost(j)
          BY <2>1, ComingStays DEF NothingLost
        <4>2. QED
          BY <1>1, <2>1, <2>2, <3>2, <4>1, SameWorthOf, ComputedStays
      <3>3. QED
        BY <3>1, <3>2
    <2>3. QED
      BY <2>1, <2>2 DEF ComputedInv
  <1>14. ASSUME NEW q \in Request, MarkLedged(q) PROVE ComputedInv'
    <2>1. PICK r \in Rows, e \in EventRow : r = req[q].row /\ e = req[q].obs
      BY <1>14, RequestFields DEF MarkLedged, TypeOK
    <2>2. /\ staged' = [staged EXCEPT ![r] = [@ EXCEPT !.status = "ledged", !.obs = {e}]]
          /\ req' = [req EXCEPT ![q] = [at |-> "marked", row |-> r]]
          /\ UNCHANGED <<verdicts, run, observations>>
      BY <1>14, <2>1 DEF MarkLedged, TypeOK
    <2>3. Rows' = Rows /\ (\A j \in Rows \ {r} : staged'[j] = staged[j])
      BY <2>2, RestageLedged
    <2>4. /\ req'[q].row = r /\ req'[q] # Idle /\ req'[q].at = "marked"
          /\ \A p \in Request \ {q} : req'[p] = req[p]
      BY <2>2 DEF TypeOK, Idle
    <2>5. ComputedRow(r)'
      BY <2>4, ComingNow
    <2>6. QED
      BY <1>1, <2>1, <2>2, <2>3, <2>4, <2>5, SameWorthOf, ComputedOther
  <1>15. ASSUME NEW q \in Request, MarkUnresolved(q) PROVE ComputedInv'
    <2>1. PICK r \in Rows : r = req[q].row
      BY <1>15, RequestFields DEF MarkUnresolved, TypeOK
    <2>2. /\ staged' = [staged EXCEPT ![r] = [@ EXCEPT !.status = "unresolved"]]
          /\ \A p \in Request \ {q} : req'[p] = req[p]
          /\ UNCHANGED <<verdicts, run, observations>>
      BY <1>15, <2>1 DEF MarkUnresolved, TypeOK
    <2>3. /\ Rows' = Rows /\ (\A j \in Rows \ {r} : staged'[j] = staged[j])
          /\ staged'[r].status = "unresolved"
      BY <2>2, RestageStatus
    <2>4. ComputedRow(r)'
      BY <2>3 DEF ComputedRow
    <2>5. QED
      BY <1>1, <2>1, <2>2, <2>3, <2>4, SameWorthOf, ComputedOther
  <1>16. ASSUME NEW l \in Line, Paste(l) PROVE ComputedInv'
    <2> DEFINE ref == FirstHit(catalogue, keys[l])
               row == [line |-> l, ref |-> ref, obs |-> {},
                       status |-> IF ref = NoRef THEN "unresolved" ELSE "parsed"]
               n   == Len(staged) + 1
    <2>1. ref \in Ref \cup {NoRef}
      BY FirstHitType DEF TypeOK
    <2>2. staged' = Append(staged, row) /\ UNCHANGED <<req, upset, verdicts, run, observations>>
      BY <1>16 DEF Paste, history
    <2> HIDE DEF ref
    <2>3. row \in StagedRow /\ row.status # "ledged"
      BY <2>1 DEF StagedRow
    <2> HIDE DEF row
    <2>4. /\ Rows' = Rows \cup {n} /\ staged'[n].status # "ledged"
          /\ \A j \in Rows : staged'[j] = staged[j]
      BY <2>2, <2>3 DEF TypeOK, Rows
    <2> HIDE DEF n
    <2>5. \A j \in Rows : NothingLost(j)
      BY <2>2, ComingStays DEF NothingLost
    <2>6. \A j \in Rows : j \notin upset => ComputedRow(j)'
      BY <2>2, <2>4, <2>5, SameWorthOf, ComputedStays
    <2>7. \A j \in Rows' \ Rows : ComputedRow(j)'
      BY <2>4 DEF ComputedRow
    <2>8. QED
      BY <2>2, <2>6, <2>7 DEF ComputedInv
  <1>17. QED
    BY <1>3, <1>4, <1>5, <1>7, <1>8, <1>9, <1>10, <1>11, <1>12, <1>13, <1>14, <1>15,
       <1>16, ComputedSave DEF Next

(* Once the request that ledged a line is over, a stored verdict of the    *)
(* line's cell rests on its price: whoever else recomputes at the same     *)
(* time, is cut off, or had entered the event before.                      *)
THEOREM LedgedLinesAreComputed == Spec => []LedgedLineIsComputed
  <1>1. Init => BackedInv /\ ComputedInv
    BY DEF Init, BackedInv, RowBacked, RequestBacked, ComputedInv, Rows, Idle
  <1>2. QED
    BY <1>1, InitType, NextType, BackedStep, ComputedStep, ComputedInvImplies, PTL DEF Spec

-----------------------------------------------------------------------------
\* As long as runs come one after another, each has seen what is read, and
\* what is read rests on everything that a stored verdict rests on.
ChainInv ==
  /\ \A c \in Cell : \A e \in latest[c] : e \in Realised /\ cellOf[e.ref] = c
  /\ ~crowded =>
       /\ \A p, x \in Runner : Computing(p) /\ Computing(x) => p = x
       /\ \A c \in Cell : \A T \in verdicts[c] : T \subseteq latest[c]
       /\ \A p \in Runner, c \in Cell : Computing(p) => latest[c] \subseteq run[p].seen
  /\ \A p \in Runner : run[p].seen \subseteq Realised

LEMMA RealisedGrows ==
  ASSUME observations \subseteq observations'
  PROVE  Realised \subseteq Realised'
  BY DEF Realised

LEMMA ChainSame ==
  ASSUME ChainInv, UNCHANGED compute, observations \subseteq observations'
  PROVE  ChainInv'
  <1>1. Realised \subseteq Realised'
    BY RealisedGrows
  <1>2. \A p \in Runner : Computing(p)' <=> Computing(p)
    BY DEF Computing, compute
  <1>3. QED
    BY <1>1, <1>2 DEF ChainInv, compute

LEMMA ChainSelect ==
  ASSUME TypeOK, ChainInv, NEW p \in Runner, Select(p), observations' = observations
  PROVE  ChainInv'
  <1>1. Realised' = Realised
    BY DEF Realised
  <1>2. /\ run'[p].seen = Realised /\ \A x \in Runner \ {p} : run'[x] = run[x]
        /\ UNCHANGED <<verdicts, latest>>
    BY DEF Select, TypeOK
  <1>3. ASSUME ~crowded' PROVE ~crowded /\ \A x \in Runner \ {p} : ~Computing(x)
    BY <1>3 DEF Select
  <1>4. \A x \in Runner \ {p} : Computing(x)' <=> Computing(x)
    BY <1>2 DEF Computing
  <1>5. \A x \in Runner : run'[x].seen \subseteq Realised'
    BY <1>1, <1>2 DEF ChainInv
  <1>6. ASSUME ~crowded'
        PROVE  /\ \A x, y \in Runner : Computing(x)' /\ Computing(y)' => x = y
               /\ \A c \in Cell : \A T \in verdicts'[c] : T \subseteq latest'[c]
               /\ \A x \in Runner, c \in Cell : Computing(x)' => latest'[c] \subseteq run'[x].seen
    <2>1. ~crowded /\ \A x \in Runner \ {p} : ~Computing(x)'
      BY <1>3, <1>4, <1>6
    <2>2. \A c \in Cell : latest'[c] \subseteq run'[p].seen
      BY <1>2 DEF ChainInv
    <2>3. QED
      BY <1>2, <2>1, <2>2 DEF ChainInv
  <1>7. \A c \in Cell : \A e \in latest'[c] : e \in Realised' /\ cellOf[e.ref] = c
    BY <1>1, <1>2 DEF ChainInv
  <1>8. QED
    BY <1>5, <1>6, <1>7 DEF ChainInv

LEMMA ChainCutOff ==
  ASSUME TypeOK, ChainInv, NEW p \in Runner, run' = [run EXCEPT ![p] = NoRun],
         UNCHANGED <<verdicts, latest, crowded, observations>>
  PROVE  ChainInv'
  <1>1. Realised' = Realised
    BY DEF Realised
  <1>2. run'[p] = NoRun /\ \A x \in Runner \ {p} : run'[x] = run[x]
    BY DEF TypeOK
  <1>3. ~Computing(p)' /\ \A x \in Runner \ {p} : Computing(x)' <=> Computing(x)
    BY <1>2 DEF Computing, NoRun
  <1>4. \A x \in Runner : run'[x].seen \subseteq Realised'
    BY <1>1, <1>2 DEF ChainInv, NoRun
  <1>5. QED
    BY <1>1, <1>2, <1>3, <1>4 DEF ChainInv

LEMMA ChainSave ==
  ASSUME TypeOK, ChainInv, NEW p \in Runner, NEW c \in Cell, Save(p, c)
  PROVE  ChainInv'
  <1> DEFINE S == InCell(c, run[p].seen)
  <1>1. Realised' = Realised
    BY DEF Realised, Save
  <1>2. /\ c \in run[p].left /\ verdicts' = [verdicts EXCEPT ![c] = @ \cup {S}]
        /\ \/ S \in verdicts[c] /\ UNCHANGED <<latest, crowded>>
           \/ latest' = [latest EXCEPT ![c] = S] /\ UNCHANGED crowded
           \/ crowded' = TRUE /\ UNCHANGED latest
    BY DEF Save
  <1>3. /\ run'[p] = NoRun \/ run'[p].seen = run[p].seen
        /\ \A x \in Runner \ {p} : run'[x] = run[x]
    BY DEF Save, Tick, TypeOK
  <1>4. Computing(p)' => run'[p].seen = run[p].seen
    BY <1>3 DEF Computing, NoRun
  <1>5. Computing(p) /\ \A x \in Runner \ {p} : Computing(x)' <=> Computing(x)
    BY <1>2, <1>3 DEF Computing
  <1>6. \A x \in Runner : run'[x].seen \subseteq Realised'
    BY <1>1, <1>3 DEF ChainInv, NoRun
  <1>7. S \subseteq run[p].seen /\ \A e \in S : e \in Realised /\ cellOf[e.ref] = c
    BY DEF ChainInv, InCell
  <1>8. \A e : e \in S <=> e \in run[p].seen /\ cellOf[e.ref] = c
    BY DEF InCell
  <1> HIDE DEF S
  <1>9. \A d \in Cell : latest'[d] = latest[d] \/ (d = c /\ latest'[d] = S)
    BY <1>2 DEF TypeOK
  <1>10. \A d \in Cell : \A e \in latest'[d] : e \in Realised' /\ cellOf[e.ref] = d
    BY <1>1, <1>7, <1>9 DEF ChainInv
  <1>11. ASSUME ~crowded'
         PROVE  /\ \A x, y \in Runner : Computing(x)' /\ Computing(y)' => x = y
                /\ \A d \in Cell : \A T \in verdicts'[d] : T \subseteq latest'[d]
                /\ \A x \in Runner, d \in Cell :
                     Computing(x)' => latest'[d] \subseteq run'[x].seen
    <2>1. ~crowded
      BY <1>2, <1>11
    <2>2. \A x \in Runner \ {p} : ~Computing(x)'
      BY <1>5, <2>1 DEF ChainInv
    <2>3. \A d \in Cell : latest[d] \subseteq run[p].seen
      BY <1>5, <2>1 DEF ChainInv
    <2>4. latest[c] \subseteq S
      BY <1>8, <2>3 DEF ChainInv
    <2>5. \A d \in Cell : latest'[d] \subseteq run[p].seen /\ latest[d] \subseteq latest'[d]
      BY <1>7, <1>9, <2>3, <2>4
    <2>6. \A d \in Cell : \A T \in verdicts[d] : T \subseteq latest'[d]
      BY <2>1, <2>5 DEF ChainInv
    <2>7. S \subseteq latest'[c]
      BY <1>2, <1>11, <2>6 DEF TypeOK
    <2>8. \A d \in Cell : \A T \in verdicts'[d] : T \in verdicts[d] \/ (d = c /\ T = S)
      BY <1>2 DEF TypeOK
    <2>9. \A d \in Cell : \A T \in verdicts'[d] : T \subseteq latest'[d]
      BY <2>6, <2>7, <2>8
    <2>10. \A x \in Runner, d \in Cell : Computing(x)' => latest'[d] \subseteq run'[x].seen
      BY <1>4, <2>2, <2>5
    <2>11. QED
      BY <2>2, <2>9, <2>10
  <1>12. QED
    BY <1>6, <1>10, <1>11 DEF ChainInv

LEMMA ChainStep == TypeOK /\ ChainInv /\ [Next]_vars => ChainInv'
  <1> SUFFICES ASSUME TypeOK, ChainInv, [Next]_vars PROVE ChainInv'
    OBVIOUS
  <1>1. ASSUME NEW q \in Request, Recompute(q) PROVE ChainInv'
    BY <1>1, ChainSelect DEF Recompute, Runner
  <1>2. CASE NightlyRun
    BY <1>2, ChainSelect DEF NightlyRun, Runner
  <1>3. ASSUME NEW q \in Request, Die(q) PROVE ChainInv'
    BY <1>3, ChainCutOff DEF Die, Runner
  <1>4. CASE KillNightly
    BY <1>4, ChainCutOff DEF KillNightly, Runner
  <1>5. ASSUME NEW q \in Request, NEW pct \in Premium, LedgerLine(q, pct) PROVE ChainInv'
    <2>1. \E o : AppendObservation(o)
      BY <1>5 DEF LedgerLine
    <2>2. QED
      BY <1>5, <2>1, AppendEffect, ChainSame DEF LedgerLine
  <1>6. ASSUME NEW r \in Report, VerifyReport(r) PROVE ChainInv'
    BY <1>6, AppendEffect, ChainSame DEF VerifyReport
  <1>7. CASE UNCHANGED compute /\ observations' = observations
    BY <1>7, ChainSame
  <1>8. QED
    BY <1>1, <1>2, <1>3, <1>4, <1>5, <1>6, <1>7, ChainSave DEF Next, vars, Learn, Paste,
       LoadLine, RefuseLine, BreakLine, MarkLedged, MarkUnresolved, LoseMark, Redirect,
       Discard, RejectReport

LEMMA LiveInvImplies == TypeOK /\ ComputedInv /\ ChainInv => LedgedLineIsLive
  <1> SUFFICES ASSUME TypeOK, ComputedInv, ChainInv, ~crowded, NEW i \in Rows, LedgedInPeace(i),
                      NEW e \in staged[i].obs \cap Realised
               PROVE  e \in latest[cellOf[e.ref]]
    BY DEF LedgedLineIsLive
  <1>1. PICK S \in verdicts[cellOf[e.ref]] : e \in S
    BY ComputedInvImplies DEF LedgedLineIsComputed
  <1>2. cellOf[e.ref] \in Cell
    BY RealisedType DEF EventRow
  <1>3. QED
    BY <1>1, <1>2 DEF ChainInv

(* Once the request that ledged a line is over, the verdict that is read   *)
(* for its cell rests on its price and keeps doing so, as long as compute  *)
(* runs come one after another and in different seconds.                   *)
THEOREM LedgedLinesAreLive == Spec => []LedgedLineIsLive
  <1>1. Init => BackedInv /\ ComputedInv /\ ChainInv
    BY DEF Init, BackedInv, RowBacked, RequestBacked, ComputedInv, ChainInv, Rows, Idle,
       Computing, NoRun
  <1>2. QED
    BY <1>1, InitType, NextType, BackedStep, ComputedStep, ChainStep, LiveInvImplies, PTL DEF Spec
=============================================================================
