---------------------------- MODULE AlertsProofs ----------------------------
(***************************************************************************)
(* Proofs about module Alerts, for every set of watchers, references and   *)
(* news, and every bound.                                                  *)
(***************************************************************************)
EXTENDS Alerts, SequenceTheorems, TLAPS

USE NewsAssumption

Row == [user : User, ref : Ref, last : Nat]
Key(w) == <<w.user, w.ref>>

\* A watch has one row, as the primary key says.
OneRowEach(s) ==
  \A i, j \in DOMAIN s : i # j => Key(s[i]) # Key(s[j])

(* What TypeOK needs to be inductive: the run works on a copy of the       *)
(* watchlist, one row for each watch too.                                  *)
TypeInv ==
  /\ clock \in FirstSecond..MaxClock /\ now \in 0..clock
  /\ dated \in [News -> Int]
  /\ watchlist \in Seq(Row) /\ OneRowEach(watchlist)
  /\ \A i \in DOMAIN watchlist : watchlist[i].last \in 0..clock
  /\ todo \in Seq(Row) /\ OneRowEach(todo)
  /\ pc \in {"idle", "checking", "sending", "marking"}
  /\ pc = "idle" => todo = <<>>
  /\ IF pc \in {"sending", "marking"}
     THEN /\ todo # <<>> /\ counted # {} /\ counted \subseteq News
          /\ \A n \in counted : Arrived(n) /\ refOf[n] = row.ref
     ELSE counted = {}
  /\ pc = "marking" => row.user \notin Unreachable
  /\ faults \in 0..MaxFaults /\ removals \in 0..MaxRemovals
  /\ told \in [User \X Ref -> SUBSET (News \X Nat)]

\* What is behind has arrived.
BehindInv == behind \subseteq {n \in News : Arrived(n)}

LEMMA TypeInvImpliesTypeOK == TypeInv /\ BehindInv => TypeOK
  <1> SUFFICES ASSUME TypeInv, BehindInv PROVE TypeOK
    OBVIOUS
  <1>1. \A i \in DOMAIN watchlist : watchlist[i] \in [user : User, ref : Ref, last : 0..clock]
    <2> SUFFICES ASSUME NEW i \in DOMAIN watchlist
                 PROVE  watchlist[i] \in [user : User, ref : Ref, last : 0..clock]
      OBVIOUS
    <2>1. watchlist[i] \in Row
      BY ElementOfSeq, LenProperties DEF TypeInv
    <2>2. watchlist[i].last \in 0..clock
      BY DEF TypeInv
    <2>3. QED
      BY <2>1, <2>2 DEF Row
  <1>2. \A i, j \in DOMAIN watchlist :
          i # j => <<watchlist[i].user, watchlist[i].ref>>
                     # <<watchlist[j].user, watchlist[j].ref>>
    BY DEF TypeInv, OneRowEach, Key
  <1>3. QED
    BY <1>1, <1>2 DEF TypeInv, BehindInv, TypeOK

-----------------------------------------------------------------------------
(* Rows of a table: a row taken out, a row put at the end, the rest.       *)
LEMMA Removed ==
  ASSUME NEW s \in Seq(Row), NEW i \in DOMAIN s
  PROVE  /\ RemoveAt(s, i) \in Seq(Row)
         /\ \A k \in DOMAIN RemoveAt(s, i) :
              \/ k < i /\ k \in DOMAIN s /\ RemoveAt(s, i)[k] = s[k]
              \/ k >= i /\ k + 1 \in DOMAIN s /\ RemoveAt(s, i)[k] = s[k + 1]
  <1> DEFINE a == SubSeq(s, 1, i - 1)
             b == SubSeq(s, i + 1, Len(s))
  <1>1. Len(s) \in Nat /\ i \in 1..Len(s) /\ DOMAIN s = 1..Len(s)
    BY LenProperties
  <1>2. /\ a \in Seq(Row) /\ Len(a) = i - 1
        /\ \A k \in 1..(i - 1) : a[k] = s[k]
    BY <1>1, SubSeqProperties, SMT
  <1>3. /\ b \in Seq(Row) /\ Len(b) = Len(s) - i
        /\ \A k \in 1..(Len(s) - i) : b[k] = s[i + k]
    <2>1. i + 1 \in 1..(Len(s) + 1) /\ Len(s) \in i..Len(s)
      BY <1>1
    <2>2. QED
      BY <1>1, <2>1, SubSeqProperties, SMT
  <1> HIDE DEF a, b
  <1>4. /\ a \o b \in Seq(Row) /\ Len(a \o b) = Len(a) + Len(b)
        /\ \A k \in 1..(Len(a) + Len(b)) :
             (a \o b)[k] = IF k <= Len(a) THEN a[k] ELSE b[k - Len(a)]
    BY <1>2, <1>3, ConcatProperties
  <1>5. RemoveAt(s, i) = a \o b
    BY DEF RemoveAt, a, b
  <1>6. DOMAIN RemoveAt(s, i) = 1..(Len(s) - 1)
    <2>1. Len(a \o b) = Len(s) - 1
      BY <1>1, <1>2, <1>3, <1>4
    <2>2. DOMAIN (a \o b) = 1..Len(a \o b)
      BY <1>4, LenProperties
    <2>3. QED
      BY <1>5, <2>1, <2>2
  <1>7. ASSUME NEW k \in DOMAIN RemoveAt(s, i)
        PROVE  \/ k < i /\ k \in DOMAIN s /\ RemoveAt(s, i)[k] = s[k]
               \/ k >= i /\ k + 1 \in DOMAIN s /\ RemoveAt(s, i)[k] = s[k + 1]
    <2>1. k \in 1..(Len(s) - 1)
      BY <1>6
    <2>2. CASE k < i
      BY <1>1, <1>2, <1>3, <1>4, <1>5, <2>1, <2>2
    <2>3. CASE k >= i
      <3>1. k - Len(a) \in 1..(Len(s) - i) /\ ~(k <= Len(a))
        BY <1>1, <1>2, <2>1, <2>3
      <3>2. RemoveAt(s, i)[k] = s[i + (k - Len(a))]
        <4>1. k \in 1..(Len(a) + Len(b))
          BY <1>1, <1>2, <1>3, <2>1
        <4>2. RemoveAt(s, i)[k] = b[k - Len(a)]
          BY <1>4, <1>5, <3>1, <4>1
        <4>3. QED
          BY <1>3, <3>1, <4>2
      <3>3. i + (k - Len(a)) = k + 1
        BY <1>1, <1>2, <2>1
      <3>4. QED
        BY <1>1, <2>1, <2>3, <3>2, <3>3
    <2>4. QED
      BY <1>1, <2>1, <2>2, <2>3
  <1>8. QED
    BY <1>4, <1>5, <1>7

LEMMA RemovedRows ==
  ASSUME NEW s \in Seq(Row), NEW i \in DOMAIN s, NEW k \in DOMAIN RemoveAt(s, i)
  PROVE  \E j \in DOMAIN s : RemoveAt(s, i)[k] = s[j]
  <1>1. CASE k < i /\ k \in DOMAIN s /\ RemoveAt(s, i)[k] = s[k]
    BY <1>1
  <1>2. CASE k >= i /\ k + 1 \in DOMAIN s /\ RemoveAt(s, i)[k] = s[k + 1]
    BY <1>2
  <1>3. QED
    BY <1>1, <1>2, Removed

LEMMA RemovedKeys ==
  ASSUME NEW s \in Seq(Row), NEW i \in DOMAIN s, OneRowEach(s)
  PROVE  OneRowEach(RemoveAt(s, i))
  <1> SUFFICES ASSUME NEW j \in DOMAIN RemoveAt(s, i),
                      NEW k \in DOMAIN RemoveAt(s, i), j # k
               PROVE  Key(RemoveAt(s, i)[j]) # Key(RemoveAt(s, i)[k])
    BY DEF OneRowEach
  <1>1. DOMAIN s \subseteq Int /\ i \in Int
    BY LenProperties
  <1>2. /\ DOMAIN RemoveAt(s, i) \subseteq Int
    BY Removed, LenProperties
  <1>3. PICK p \in DOMAIN s : /\ RemoveAt(s, i)[j] = s[p]
                              /\ p = IF j < i THEN j ELSE j + 1
    BY Removed, <1>1, <1>2
  <1>4. PICK q \in DOMAIN s : /\ RemoveAt(s, i)[k] = s[q]
                              /\ q = IF k < i THEN k ELSE k + 1
    BY Removed, <1>1, <1>2
  <1>5. p # q
    BY <1>1, <1>2, <1>3, <1>4
  <1>6. QED
    BY <1>3, <1>4, <1>5 DEF OneRowEach

LEMMA Rest ==
  ASSUME NEW s \in Seq(Row), s # <<>>
  PROVE  /\ Head(s) \in Row /\ Head(s) = s[1] /\ 1 \in DOMAIN s
         /\ Tail(s) \in Seq(Row)
         /\ \A k \in DOMAIN Tail(s) :
              k \in Nat \ {0} /\ k + 1 \in DOMAIN s /\ Tail(s)[k] = s[k + 1]
  <1>1. Len(s) \in Nat \ {0} /\ DOMAIN s = 1..Len(s)
    BY EmptySeq, LenProperties
  <1>2. /\ Head(s) \in Row /\ Tail(s) \in Seq(Row) /\ Len(Tail(s)) = Len(s) - 1
        /\ \A k \in 1..Len(Tail(s)) : Tail(s)[k] = s[k + 1]
    BY HeadTailProperties
  <1>3. DOMAIN Tail(s) = 1..(Len(s) - 1)
    BY <1>1, <1>2, LenProperties
  <1>4. Head(s) = s[1]
    BY SMT
  <1>5. QED
    BY <1>1, <1>2, <1>3, <1>4

LEMMA RestKeys ==
  ASSUME NEW s \in Seq(Row), s # <<>>, OneRowEach(s)
  PROVE  OneRowEach(Tail(s))
  BY Rest DEF OneRowEach

LEMMA Added ==
  ASSUME NEW s \in Seq(Row), NEW w \in Row
  PROVE  /\ Append(s, w) \in Seq(Row)
         /\ \A k \in DOMAIN Append(s, w) :
              \/ k \in DOMAIN s /\ Append(s, w)[k] = s[k]
              \/ k = Len(s) + 1 /\ k \notin DOMAIN s /\ Append(s, w)[k] = w
  <1>1. Len(s) \in Nat /\ DOMAIN s = 1..Len(s)
    BY LenProperties
  <1>2. /\ Append(s, w) \in Seq(Row) /\ Len(Append(s, w)) = Len(s) + 1
        /\ \A k \in 1..Len(s) : Append(s, w)[k] = s[k]
        /\ Append(s, w)[Len(s) + 1] = w
    BY AppendProperties
  <1>3. DOMAIN Append(s, w) = 1..(Len(s) + 1)
    BY <1>1, <1>2, LenProperties
  <1>4. QED
    BY <1>1, <1>2, <1>3

(* The update of MarkAlerted moves last_alerted of the row in hand.        *)
LEMMA MarkedRows ==
  ASSUME TypeInv, row \in Row
  PROVE  /\ Marked \in Seq(Row) /\ DOMAIN Marked = DOMAIN watchlist
         /\ \A i \in DOMAIN watchlist :
              /\ Key(Marked[i]) = Key(watchlist[i])
              /\ Marked[i].last = IF Key(watchlist[i]) = Key(row) THEN now
                                  ELSE watchlist[i].last
  <1>1. DOMAIN watchlist = 1..Len(watchlist) /\ Len(watchlist) \in Nat
    BY LenProperties DEF TypeInv
  <1>2. now \in Nat
    BY DEF TypeInv
  <1>3. ASSUME NEW i \in DOMAIN watchlist
        PROVE  /\ Marked[i] \in Row
               /\ Key(Marked[i]) = Key(watchlist[i])
               /\ Marked[i].last = IF Key(watchlist[i]) = Key(row) THEN now
                                   ELSE watchlist[i].last
    <2>1. watchlist[i] \in Row
      BY ElementOfSeq, <1>1 DEF TypeInv
    <2>2. CASE Key(watchlist[i]) = Key(row)
      <3>1. Marked[i] = [watchlist[i] EXCEPT !.last = now]
        BY <2>2 DEF Marked, Key
      <3>2. QED
        BY <1>2, <2>1, <2>2, <3>1 DEF Row, Key
    <2>3. CASE Key(watchlist[i]) # Key(row)
      <3>1. Marked[i] = watchlist[i]
        BY <2>3 DEF Marked, Key
      <3>2. QED
        BY <2>1, <2>3, <3>1
    <2>4. QED
      BY <2>2, <2>3
  <1>4. DOMAIN Marked = DOMAIN watchlist /\ Marked \in Seq(Row)
    <2>1. Marked = [i \in 1..Len(watchlist) |-> Marked[i]]
      BY <1>1 DEF Marked
    <2>2. QED
      BY <1>1, <1>3, <2>1, IsASeq
  <1>5. QED
    BY <1>3, <1>4

-----------------------------------------------------------------------------
LEMMA RowInHand ==
  ASSUME TypeInv, todo # <<>>
  PROVE  row \in Row /\ row = todo[1] /\ 1 \in DOMAIN todo
  BY Rest DEF TypeInv, row

LEMMA InitTypeInv == Init => TypeInv
  <1> SUFFICES ASSUME Init PROVE TypeInv
    OBVIOUS
  <1>1. dated \in [News -> Int]
    BY DEF Init, Absent
  <1>2. told \in [User \X Ref -> SUBSET (News \X Nat)]
    BY DEF Init
  <1>3. <<>> \in Seq(Row) /\ DOMAIN <<>> = {} /\ OneRowEach(<<>>)
    BY EmptySeq, SMT DEF OneRowEach
  <1>4. QED
    BY <1>1, <1>2, <1>3 DEF Init, TypeInv

\* What a run leaves alone when it ends or fails.
LEMMA EndTypeInv ==
  ASSUME TypeInv, End, faults' \in 0..MaxFaults,
         UNCHANGED <<clock, tables, removals, now, history>>
  PROVE  TypeInv'
  <1>1. <<>> \in Seq(Row) /\ OneRowEach(<<>>)
    BY EmptySeq, SMT DEF OneRowEach
  <1>2. QED
    BY <1>1 DEF End, TypeInv, tables, history

LEMMA NextRowTypeInv ==
  ASSUME TypeInv, todo # <<>>, NextRow, faults' \in 0..MaxFaults,
         UNCHANGED <<clock, tables, removals, now, history>>
  PROVE  TypeInv'
  <1>1. Tail(todo) \in Seq(Row) /\ OneRowEach(Tail(todo))
    BY Rest, RestKeys DEF TypeInv
  <1>2. QED
    BY <1>1 DEF NextRow, TypeInv, tables, history

LEMMA NextTypeInv == TypeInv /\ [Next]_vars => TypeInv'
  <1> SUFFICES ASSUME TypeInv, [Next]_vars PROVE TypeInv'
    OBVIOUS
  <1> USE DEF tables, run, history
  <1>1. CASE Tick
    BY <1>1 DEF Tick, TypeInv, Arrived, row
  <1>2. ASSUME NEW n \in News, Arrive(n) PROVE TypeInv'
    <2>1. clock - lag[n] \in Int /\ clock - lag[n] # Absent
      BY DEF TypeInv, Absent
    <2>2. /\ dated' \in [News -> Int]
          /\ \A m \in News : dated'[m] = IF m = n THEN clock - lag[n] ELSE dated[m]
      BY <1>2, <2>1 DEF Arrive, TypeInv
    <2>3. \A m \in News : Arrived(m) => Arrived(m)'
      BY <2>1, <2>2 DEF Arrived, Absent
    <2>4. pc \in {"sending", "marking"}
            => \A m \in counted : Arrived(m)' /\ refOf[m] = row.ref
      BY <2>3 DEF TypeInv
    <2>5. QED
      BY <1>2, <2>2, <2>4 DEF Arrive, TypeInv, row
  <1>3. ASSUME NEW u \in User, NEW r \in Ref, WatchAdd(u, r) PROVE TypeInv'
    <2> DEFINE w == [user |-> u, ref |-> r, last |-> 0]
    <2>1. w \in Row /\ Key(w) = <<u, r>> /\ w.last = 0
      BY DEF Row, Key
    <2>2. watchlist' = Append(watchlist, w)
      BY <1>3 DEF WatchAdd
    <2> HIDE DEF w
    <2>3. /\ watchlist' \in Seq(Row)
          /\ \A k \in DOMAIN watchlist' :
               \/ k \in DOMAIN watchlist /\ watchlist'[k] = watchlist[k]
               \/ k = Len(watchlist) + 1 /\ k \notin DOMAIN watchlist /\ watchlist'[k] = w
      BY <2>1, <2>2, Added DEF TypeInv
    <2>4. \A k \in DOMAIN watchlist : Key(watchlist[k]) # Key(w)
      BY <1>3, <2>1 DEF WatchAdd, Watches, Key
    <2>5. OneRowEach(watchlist')
      BY <2>3, <2>4 DEF OneRowEach, TypeInv
    <2>6. \A k \in DOMAIN watchlist' : watchlist'[k].last \in 0..clock
      <3>1. 0 \in 0..clock
        BY DEF TypeInv
      <3>2. QED
        BY <2>1, <2>3, <3>1 DEF TypeInv
    <2>7. told' \in [User \X Ref -> SUBSET (News \X Nat)]
      BY <1>3 DEF WatchAdd, TypeInv
    <2>8. QED
      BY <1>3, <2>3, <2>5, <2>6, <2>7 DEF WatchAdd, TypeInv, Arrived, row
  <1>4. ASSUME NEW u \in User, NEW r \in Ref, WatchRemove(u, r) PROVE TypeInv'
    <2>1. PICK i \in DOMAIN watchlist : watchlist' = RemoveAt(watchlist, i)
      BY <1>4 DEF WatchRemove
    <2> DEFINE shorter == RemoveAt(watchlist, i)
    <2>2. /\ shorter \in Seq(Row)
          /\ \A k \in DOMAIN shorter : \E j \in DOMAIN watchlist :
                                        shorter[k] = watchlist[j]
      BY Removed, RemovedRows DEF TypeInv
    <2> HIDE DEF shorter
    <2>3. OneRowEach(shorter)
      BY RemovedKeys DEF TypeInv, shorter
    <2>4. \A k \in DOMAIN shorter : shorter[k].last \in 0..clock
      BY <2>2 DEF TypeInv
    <2>a. watchlist' = shorter
      BY <2>1 DEF shorter
    <2>5. removals' \in 0..MaxRemovals
      BY <1>4 DEF WatchRemove, TypeInv
    <2>6. QED
      BY <1>4, <2>2, <2>3, <2>4, <2>5, <2>a DEF WatchRemove, TypeInv, Arrived, row
  <1>5. CASE AllWatchers
    BY <1>5 DEF AllWatchers, TypeInv
  <1>6. CASE Check
    <2>1. todo # <<>> /\ pc = "checking"
      BY <1>6 DEF Check
    <2>2. CASE NextRow /\ faults' \in {faults, faults + 1} /\ faults' \in 0..MaxFaults
      BY <1>6, <2>1, <2>2, NextRowTypeInv DEF Check
    <2>3. CASE /\ NewOnes # {} /\ pc' = "sending" /\ counted' = NewOnes
               /\ UNCHANGED <<faults, todo>>
      <3>1. counted' # {} /\ counted' \subseteq News
            /\ \A n \in counted' : Arrived(n) /\ refOf[n] = row.ref
        BY <2>3 DEF NewOnes
      <3>2. QED
        BY <1>6, <2>1, <2>3, <3>1 DEF Check, TypeInv, Arrived, row
    <2>4. QED
      BY <1>6, <2>2, <2>3 DEF Check, TypeInv
  <1>7. CASE SendAlert
    <2>1. told' \in [User \X Ref -> SUBSET (News \X Nat)]
      <3>1. counted \X {now} \subseteq News \X Nat
        BY <1>7 DEF SendAlert, TypeInv
      <3>2. QED
        BY <1>7, <3>1 DEF SendAlert, TypeInv
    <2>2. QED
      BY <1>7, <2>1 DEF SendAlert, TypeInv, Arrived, row
  <1>8. CASE MarkAlerted
    <2>1. pc = "marking" /\ todo # <<>> /\ row \in Row
      BY <1>8, RowInHand DEF MarkAlerted, TypeInv
    <2>2. /\ Marked \in Seq(Row) /\ OneRowEach(Marked)
          /\ \A i \in DOMAIN Marked : Marked[i].last \in 0..clock
      BY <2>1, MarkedRows DEF OneRowEach, TypeInv
    <2>3. Tail(todo) \in Seq(Row) /\ OneRowEach(Tail(todo))
      BY <2>1, Rest, RestKeys DEF TypeInv
    <2>4. QED
      BY <1>8, <2>2, <2>3 DEF MarkAlerted, NextRow, TypeInv
  <1>9. CASE Finish \/ Refused
    BY <1>9, EndTypeInv DEF Finish, Refused, TypeInv
  <1>10. CASE Fail
    <2>1. faults' \in 0..MaxFaults
      BY <1>10 DEF Fail, TypeInv
    <2>2. QED
      BY <1>10, <2>1, EndTypeInv DEF Fail
  <1>11. CASE UNCHANGED vars
    BY <1>11 DEF vars, TypeInv, Arrived, row
  <1>12. QED
    BY <1>1, <1>2, <1>3, <1>4, <1>5, <1>6, <1>7, <1>8, <1>9, <1>10, <1>11
       DEF Next

LEMMA NextBehindInv == TypeInv /\ BehindInv /\ [Next]_vars => BehindInv'
  <1> SUFFICES ASSUME TypeInv, BehindInv, [Next]_vars PROVE BehindInv'
    OBVIOUS
  <1>1. CASE dated' = dated /\ behind' = behind
    BY <1>1 DEF BehindInv, Arrived
  <1>2. ASSUME NEW n \in News, Arrive(n) PROVE BehindInv'
    <2>1. clock - lag[n] # Absent
      BY DEF TypeInv, Absent
    <2>2. \A m \in News : m = n \/ Arrived(m) => Arrived(m)'
      BY <1>2, <2>1 DEF Arrive, TypeInv, Arrived
    <2>3. behind' \subseteq behind \cup {n}
      BY <1>2 DEF Arrive
    <2>4. QED
      BY <2>2, <2>3 DEF BehindInv
  <1>3. CASE (\A n \in News : ~Arrive(n)) /\ ~UNCHANGED vars
    <2>1. dated' = dated /\ behind' = behind
      BY <1>3 DEF Next, Tick, WatchAdd, WatchRemove, AllWatchers, Check, SendAlert,
                  MarkAlerted, Finish, Refused, Fail, tables, history
    <2>2. QED
      BY <1>1, <2>1
  <1>4. QED
    BY <1>1, <1>2, <1>3 DEF vars, tables, history

(* The watchlist has one row for each watch, a run's copy of it too, and   *)
(* what the run has counted is there and about the row in hand, although   *)
(* rows come and go under it (internal/alerts/alerts.go).                  *)
THEOREM TypeCorrect == Spec => []TypeOK
  <1>1. Init => BehindInv
    BY DEF Init, BehindInv
  <1>2. QED
    BY InitTypeInv, NextTypeInv, NextBehindInv, TypeInvImpliesTypeOK, <1>1, PTL
       DEF Spec

-----------------------------------------------------------------------------
\* What watch w was told of by a run that started at the news' date or later.
Over(w) == {x \in told[Key(w)] : dated[x[1]] <= x[2]}

(* Until a run has died between a mail and its mark, a row of the          *)
(* watchlist was marked at or after the dates of all that its watcher was  *)
(* told of, but for what was dated ahead of the run; and so was the copy   *)
(* that a run goes by, except the one whose mail is out and whose mark is  *)
(* not.                                                                    *)
ToldInv ==
  /\ \A w \in User \X Ref : \A x \in told[w] : Arrived(x[1])
  /\ \A i \in DOMAIN watchlist : watchlist[i].last <= now
  /\ \A w \in User \X Ref : \A x \in told[w] : x[2] <= now
  /\ faults = 0 =>
       /\ \A i \in DOMAIN watchlist : \A x \in Over(watchlist[i]) :
            \/ dated[x[1]] <= watchlist[i].last
            \/ pc = "marking" /\ Key(watchlist[i]) = Key(row)
       /\ \A k \in DOMAIN todo : \A x \in Over(todo[k]) :
            dated[x[1]] <= todo[k].last \/ (pc = "marking" /\ k = 1)
  /\ pc = "sending" => \A n \in counted : dated[n] > row.last

LEMMA InitToldInv == Init => ToldInv
  <1> SUFFICES ASSUME Init PROVE ToldInv
    OBVIOUS
  <1>1. \A w \in User \X Ref : told[w] = {}
    BY DEF Init
  <1>2. DOMAIN watchlist = {} /\ DOMAIN todo = {}
    BY SMT DEF Init
  <1>3. QED
    BY <1>1, <1>2 DEF Init, ToldInv

LEMMA KeyType == \A w \in Row : Key(w) \in User \X Ref
  BY DEF Row, Key

LEMMA NextToldInv == TypeInv /\ ToldInv /\ [Next]_vars => ToldInv'
  <1> SUFFICES ASSUME TypeInv, ToldInv, [Next]_vars PROVE ToldInv'
    OBVIOUS
  <1> USE DEF tables, run, history
  <1>a. /\ \A i \in DOMAIN watchlist : watchlist[i] \in Row /\ Key(watchlist[i]) \in User \X Ref
        /\ \A k \in DOMAIN todo : todo[k] \in Row /\ Key(todo[k]) \in User \X Ref
    BY ElementOfSeq, LenProperties, KeyType DEF TypeInv
  <1>1. CASE Tick
    BY <1>1 DEF Tick, ToldInv, Arrived, row, Over
  <1>2. ASSUME NEW n \in News, Arrive(n) PROVE ToldInv'
    <2>1. /\ \A m \in News : m # n => dated'[m] = dated[m]
          /\ ~Arrived(n)
          /\ UNCHANGED <<clock, pc, now, todo, counted, told, watchlist, faults>>
      BY <1>2 DEF Arrive, TypeInv
    <2>2. \A w \in User \X Ref : \A x \in told[w] : x[1] \in News /\ x[1] # n
      BY <2>1 DEF ToldInv, TypeInv
    <2>3. \A w \in User \X Ref : \A x \in told[w] : dated'[x[1]] = dated[x[1]]
      BY <2>1, <2>2
    <2>4. \A w \in User \X Ref : \A x \in told[w] : Arrived(x[1])'
      BY <2>3 DEF ToldInv, Arrived
    <2>5. pc = "sending" => \A m \in counted : dated'[m] > row.last
      BY <2>1 DEF ToldInv, TypeInv
    <2>6. ASSUME NEW w \in Row
          PROVE  Over(w)' = Over(w) /\ \A x \in Over(w) : dated'[x[1]] = dated[x[1]]
      <3>1. Key(w) \in User \X Ref
        BY KeyType
      <3>2. QED
        BY <2>1, <2>3, <3>1 DEF Over
    <2>7. /\ \A i \in DOMAIN watchlist : /\ Over(watchlist[i])' = Over(watchlist[i])
               /\ \A x \in Over(watchlist[i]) : dated'[x[1]] = dated[x[1]]
          /\ \A k \in DOMAIN todo : /\ Over(todo[k])' = Over(todo[k])
               /\ \A x \in Over(todo[k]) : dated'[x[1]] = dated[x[1]]
      BY <1>a, <2>1, <2>6 DEF Over
    <2>8. QED
      BY <2>1, <2>4, <2>5, <2>7 DEF ToldInv, row
  <1>3. ASSUME NEW u \in User, NEW r \in Ref, WatchAdd(u, r) PROVE ToldInv'
    <2> DEFINE w == [user |-> u, ref |-> r, last |-> 0]
    <2>1. w \in Row /\ Key(w) = <<u, r>> /\ w.last = 0
      BY DEF Row, Key
    <2>2. watchlist' = Append(watchlist, w)
      BY <1>3 DEF WatchAdd
    <2> HIDE DEF w
    <2>3. \A k \in DOMAIN watchlist' :
               \/ k \in DOMAIN watchlist /\ watchlist'[k] = watchlist[k]
               \/ watchlist'[k] = w
      BY <2>1, <2>2, Added DEF TypeInv
    <2>4. \A v \in User \X Ref : told'[v] = IF v = <<u, r>> THEN {} ELSE told[v]
      BY <1>3 DEF WatchAdd, TypeInv
    <2>5. UNCHANGED <<clock, dated, pc, now, todo, counted, faults>>
      BY <1>3 DEF WatchAdd
    <2>6. \A i \in DOMAIN watchlist' : \A x \in Over(watchlist[i])' :
            /\ i \in DOMAIN watchlist /\ watchlist'[i] = watchlist[i]
            /\ x \in Over(watchlist[i])
      BY <1>a, <2>1, <2>3, <2>4, <2>5 DEF Over
    <2>7. \A k \in DOMAIN todo : \A x \in Over(todo[k])' : x \in Over(todo[k])
      BY <1>a, <2>4, <2>5 DEF Over
    <2>8. \A v \in User \X Ref : \A x \in told'[v] : x \in told[v]
      BY <2>4
    <2>9. \A i \in DOMAIN watchlist' : watchlist'[i].last <= now
      <3>1. w.last <= now
        BY <2>1 DEF TypeInv
      <3>2. QED
        BY <2>3, <3>1 DEF ToldInv
    <2>10. QED
      BY <2>5, <2>6, <2>7, <2>8, <2>9 DEF ToldInv, row, Arrived
  <1>4. ASSUME NEW u \in User, NEW r \in Ref, WatchRemove(u, r) PROVE ToldInv'
    <2>1. PICK i \in DOMAIN watchlist : watchlist' = RemoveAt(watchlist, i)
      BY <1>4 DEF WatchRemove
    <2> DEFINE shorter == RemoveAt(watchlist, i)
    <2>2. \A k \in DOMAIN shorter : \E j \in DOMAIN watchlist :
                                      shorter[k] = watchlist[j]
      BY RemovedRows DEF TypeInv
    <2> HIDE DEF shorter
    <2>a. watchlist' = shorter
      BY <2>1 DEF shorter
    <2>3. QED
      BY <1>4, <2>2, <2>a DEF WatchRemove, ToldInv, Arrived, row, Over
  <1>5. CASE AllWatchers
    <2>1. \A i \in DOMAIN watchlist : watchlist[i].last <= clock
      BY DEF TypeInv
    <2>2. \A w \in User \X Ref : \A x \in told[w] : x[2] <= clock
      <3>1. \A w \in User \X Ref : \A x \in told[w] : x[2] \in Nat /\ x[2] <= now
        BY DEF ToldInv, TypeInv
      <3>2. now <= clock /\ now \in Nat /\ clock \in Nat
        BY DEF TypeInv
      <3>3. QED
        BY <3>1, <3>2
    <2>3. /\ UNCHANGED <<dated, watchlist, faults, told>>
          /\ now' = clock /\ pc' = "checking" /\ todo' = watchlist /\ pc = "idle"
      BY <1>5 DEF AllWatchers
    <2>4. QED
      BY <2>1, <2>2, <2>3 DEF ToldInv, Arrived, Over
  <1>6. CASE Check
    <2>1. todo # <<>> /\ pc = "checking"
      BY <1>6 DEF Check
    <2>2. UNCHANGED <<clock, dated, watchlist, now, told>>
      BY <1>6 DEF Check
    <2>3. CASE NextRow /\ (faults' = 0 => faults = 0)
      <3>1. \A k \in DOMAIN todo' : k + 1 \in DOMAIN todo /\ todo'[k] = todo[k + 1]
        BY <2>1, <2>3, Rest DEF NextRow, TypeInv
      <3>2. QED
        BY <2>1, <2>2, <2>3, <3>1 DEF NextRow, ToldInv, Arrived, Over
    <2>4. CASE /\ pc' = "sending" /\ counted' = NewOnes
               /\ UNCHANGED <<faults, todo>>
      BY <2>1, <2>2, <2>4 DEF NewOnes, ToldInv, Arrived, Over, row
    <2>5. QED
      BY <1>6, <2>3, <2>4 DEF Check, TypeInv
  <1>7. CASE SendAlert
    <2>1. /\ pc = "sending" /\ pc' = "marking" /\ todo # <<>>
          /\ UNCHANGED <<clock, dated, watchlist, faults, now, todo, counted>>
      BY <1>7 DEF SendAlert, TypeInv
    <2>2. \A v \in User \X Ref :
            told'[v] = IF v = Key(row) THEN told[v] \cup (counted \X {now}) ELSE told[v]
      BY <1>7 DEF SendAlert, Key, TypeInv
    <2>3. \A v \in User \X Ref : \A x \in told'[v] : Arrived(x[1])'
      <3>1. \A x \in counted \X {now} : Arrived(x[1])
        BY <2>1 DEF TypeInv
      <3>2. QED
        BY <2>1, <2>2, <3>1 DEF ToldInv, Arrived
    <2>4. row = todo[1] /\ 1 \in DOMAIN todo
      BY <2>1, RowInHand
    <2>5. \A k \in DOMAIN todo : k # 1 => Over(todo[k])' = Over(todo[k])
      <3>1. \A k \in DOMAIN todo : k # 1 => Key(todo[k]) # Key(row)
        BY <2>4 DEF TypeInv, OneRowEach
      <3>2. QED
        BY <1>a, <2>1, <2>2, <3>1 DEF Over
    <2>6. \A i \in DOMAIN watchlist :
            Key(watchlist[i]) # Key(row) => Over(watchlist[i])' = Over(watchlist[i])
      BY <1>a, <2>1, <2>2 DEF Over
    <2>7. \A v \in User \X Ref : \A x \in told'[v] : x[2] <= now
      <3>1. now <= now
        BY DEF TypeInv
      <3>2. \A x \in counted \X {now} : x[2] = now
        OBVIOUS
      <3>3. QED
        BY <2>2, <3>1, <3>2 DEF ToldInv
    <2>8. ASSUME faults = 0, NEW i \in DOMAIN watchlist, NEW x \in Over(watchlist[i])'
          PROVE  dated[x[1]] <= watchlist[i].last \/ Key(watchlist[i]) = Key(row)
      BY <2>1, <2>6, <2>8 DEF ToldInv
    <2>9. ASSUME faults = 0, NEW k \in DOMAIN todo, NEW x \in Over(todo[k])'
          PROVE  dated[x[1]] <= todo[k].last \/ k = 1
      BY <2>1, <2>5, <2>9 DEF ToldInv
    <2>10. \A i \in DOMAIN watchlist : watchlist[i].last <= now
      BY DEF ToldInv
    <2>11. row' = row
      BY <2>1 DEF row
    <2> USE DEF Over
    <2>12. QED
      BY <2>1, <2>3, <2>7, <2>8, <2>9, <2>10, <2>11 DEF ToldInv
  <1>8. CASE MarkAlerted
    <2>1. /\ pc = "marking" /\ todo # <<>> /\ row \in Row
          /\ UNCHANGED <<clock, dated, faults, now, told>>
          /\ watchlist' = Marked /\ pc' = "checking"
      BY <1>8, RowInHand DEF MarkAlerted, NextRow, TypeInv
    <2>2. \A k \in DOMAIN todo' : k + 1 \in DOMAIN todo /\ k + 1 # 1 /\ todo'[k] = todo[k + 1]
      BY <1>8, <2>1, Rest DEF MarkAlerted, NextRow, TypeInv
    <2>3. /\ DOMAIN watchlist' = DOMAIN watchlist
          /\ \A i \in DOMAIN watchlist :
               /\ Key(watchlist'[i]) = Key(watchlist[i])
               /\ watchlist'[i].last = IF Key(watchlist[i]) = Key(row) THEN now
                                       ELSE watchlist[i].last
      BY <2>1, MarkedRows
    <2>4. \A i \in DOMAIN watchlist : \A x \in Over(watchlist[i]) :
            dated[x[1]] \in Int /\ x[2] \in Nat /\ dated[x[1]] <= x[2]
      BY <1>a DEF Over, TypeInv
    <2>5. ASSUME faults = 0, NEW i \in DOMAIN watchlist', NEW x \in Over(watchlist[i])'
          PROVE  dated'[x[1]] <= watchlist'[i].last
      <3>1. i \in DOMAIN watchlist /\ x \in Over(watchlist[i])
        BY <2>1, <2>3 DEF Over
      <3>2. x \in told[Key(watchlist[i])] /\ Key(watchlist[i]) \in User \X Ref
        BY <1>a, <3>1 DEF Over
      <3>3. dated[x[1]] <= now
        <4>1. x[2] <= now /\ now \in Nat
          BY <2>1, <3>2 DEF ToldInv, TypeInv
        <4>2. QED
          BY <2>4, <3>1, <4>1
      <3>4. dated[x[1]] <= watchlist[i].last \/ Key(watchlist[i]) = Key(row)
        BY <2>5, <3>1 DEF ToldInv
      <3>5. QED
        BY <2>1, <2>3, <3>1, <3>3, <3>4
    <2>6. ASSUME faults = 0, NEW k \in DOMAIN todo', NEW x \in Over(todo[k])'
          PROVE  dated'[x[1]] <= todo'[k].last
      BY <2>1, <2>2, <2>6 DEF ToldInv, Over
    <2>7. \A i \in DOMAIN watchlist' : watchlist'[i].last <= now
      <3>1. now \in Nat /\ \A i \in DOMAIN watchlist : watchlist[i].last <= now
        BY DEF ToldInv, TypeInv
      <3> SUFFICES ASSUME NEW i \in DOMAIN watchlist PROVE watchlist'[i].last <= now
        BY <2>3
      <3>2. watchlist'[i].last \in {now, watchlist[i].last}
        BY <2>3
      <3>3. QED
        BY <3>1, <3>2
    <2>8. QED
      BY <2>1, <2>5, <2>6, <2>7 DEF ToldInv, Arrived
  <1>9. CASE Finish \/ Refused \/ Fail
    <2>1. /\ pc' = "idle" /\ todo' = <<>> /\ DOMAIN todo' = {}
          /\ UNCHANGED <<clock, dated, watchlist, now, told>>
      BY <1>9, SMT DEF Finish, Refused, Fail, End
    <2>2. faults' = 0 => faults = 0 /\ pc # "marking"
      BY <1>9 DEF Finish, Refused, Fail, TypeInv
    <2>3. QED
      BY <2>1, <2>2 DEF ToldInv, Arrived, Over
  <1>10. CASE UNCHANGED vars
    BY <1>10 DEF vars, ToldInv, Arrived, row, Over
  <1>11. QED
    BY <1>1, <1>2, <1>3, <1>4, <1>5, <1>6, <1>7, <1>8, <1>9, <1>10 DEF Next

(* No watcher is mailed twice of an observation, but for one dated after   *)
(* the start of the run that told of it first, as long as no run has died  *)
(* between a mail and its mark ("nothing new = nothing sent",              *)
(* internal/alerts/alerts.go).                                             *)
THEOREM NothingIsToldTwice == Spec => NothingToldTwice
  <1> DEFINE Step == Mails /\ faults = 0
                       => \A n \in counted, t \in 0..MaxClock :
                            <<n, t>> \in told[<<row.user, row.ref>>] => t < dated[n]
  <1>1. TypeInv /\ ToldInv /\ [Next]_vars => [Step]_vars
    <2> SUFFICES ASSUME TypeInv, ToldInv, pc = "sending", faults = 0,
                        NEW n \in counted, NEW t \in 0..MaxClock,
                        <<n, t>> \in told[Key(row)]
                 PROVE  t < dated[n]
      BY DEF Mails, Key
    <2>1. row = todo[1] /\ 1 \in DOMAIN todo /\ row \in Row
      BY RowInHand DEF TypeInv
    <2>2. dated[n] > row.last
      BY DEF ToldInv
    <2>3. dated[n] \in Int /\ row.last \in Int /\ t \in Int
      BY <2>1 DEF TypeInv, Row
    <2>4. dated[n] <= t => <<n, t>> \in Over(todo[1])
      BY <2>1 DEF Over
    <2>5. dated[n] <= t => dated[n] <= row.last
      BY <2>1, <2>4 DEF ToldInv
    <2>6. QED
      BY <2>2, <2>3, <2>5
  <1>2. QED
    BY InitTypeInv, NextTypeInv, InitToldInv, NextToldInv, <1>1, PTL
       DEF Spec, NothingToldTwice
=============================================================================
