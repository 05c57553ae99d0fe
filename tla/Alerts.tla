------------------------------- MODULE Alerts -------------------------------
(***************************************************************************)
(* The nightly mail to watchers (internal/alerts, cmd/alerts): for every   *)
(* row of the watchlist, count the observations on the reference that are  *)
(* dated after the row's last alert; if there are any, send a mail, and    *)
(* then move last_alerted to the time the run started.  Three statements,  *)
(* no transaction, beside ingests, watchers and a mail server.             *)
(*                                                                         *)
(* Times are seconds.  News can arrive at any moment, also in the second a *)
(* run starts, and what it is dated is not when it arrives.                *)
(***************************************************************************)
EXTENDS Integers, SequencesExt

CONSTANTS
  User, Ref,
  News,       \* observations that can arrive
  refOf,      \* [News -> Ref]
  lag,        \* [News -> how long before its arrival it is dated, or, if
              \* negative, after it: a sale pasted with a date to come]
  Unreachable,\* users whose mail always errs
  FirstSecond,\* when the clock starts
  MaxClock, MaxFaults, MaxRemovals   \* bounds

ASSUME NewsAssumption ==
  /\ refOf \in [News -> Ref] /\ lag \in [News -> Int]
  /\ FirstSecond \in 0..MaxClock /\ \A n \in News : lag[n] < FirstSecond
  /\ Unreachable \subseteq User
  /\ MaxClock \in Nat /\ MaxFaults \in Nat /\ MaxRemovals \in Nat

VARIABLES
  clock,
  dated,     \* [News -> its observed_at, or Absent]
  watchlist, \* table watchlist, in rowid order: [user, ref, last]
  removals,  \* rows deleted so far
  faults,    \* statements that failed and runs that were killed so far
  pc,        \* "idle", "checking", "sending" or "marking"
  now,       \* when the run started
  todo,      \* the rows of the watchlist it has still to handle
  counted,   \* the news it found for the row in hand
  \* what happened, for the properties; no part of the program
  told,      \* [User \X Ref -> pairs of news that a mail has counted for the
             \* watch and the start of its run]
  behind     \* news that arrived dated no later than the start of a run

tables == <<dated, watchlist>>
run    == <<pc, now, todo, counted>>
history == <<told, behind>>
vars   == <<clock, tables, removals, faults, run, history>>

Absent == 0   \* every date is later
Arrived(n) == dated[n] # Absent
Watches(u, r) ==
  \E i \in DOMAIN watchlist : watchlist[i].user = u /\ watchlist[i].ref = r

\* The row in hand.
row == Head(todo)

-----------------------------------------------------------------------------
Init ==
  /\ clock = FirstSecond
  /\ dated = [n \in News |-> Absent]
  /\ watchlist = <<>>
  /\ removals = 0 /\ faults = 0
  /\ pc = "idle" /\ now = 0 /\ todo = <<>> /\ counted = {}
  /\ told = [w \in User \X Ref |-> {}] /\ behind = {}

Tick ==
  /\ clock < MaxClock
  /\ clock' = clock + 1
  /\ UNCHANGED <<tables, removals, faults, run, history>>

\* Some ingest, curator or reviewed report appends an observation.
Arrive(n) ==
  /\ ~Arrived(n)
  /\ dated' = [dated EXCEPT ![n] = clock - lag[n]]
  /\ behind' = IF clock - lag[n] <= now THEN behind \cup {n} ELSE behind
  /\ UNCHANGED <<clock, watchlist, removals, faults, run, told>>

\* Slip: a second watch of the same reference is a second row.
WatchAddAgain(u, r) ==
  /\ Len(watchlist) < 4
  /\ watchlist' = Append(watchlist, [user |-> u, ref |-> r, last |-> 0])
  /\ UNCHANGED <<clock, dated, removals, faults, run, history>>

\* INSERT OR IGNORE, with last_alerted 0: a new watch, told of nothing.
WatchAdd(u, r) ==
  /\ ~Watches(u, r)
  /\ watchlist' = Append(watchlist, [user |-> u, ref |-> r, last |-> 0])
  /\ told' = [told EXCEPT ![<<u, r>>] = {}]
  /\ UNCHANGED <<clock, dated, removals, faults, run, behind>>

\* The row of the watch, of which the primary key allows one.
WatchRemove(u, r) ==
  /\ removals < MaxRemovals
  /\ \E i \in DOMAIN watchlist :
       /\ watchlist[i].user = u /\ watchlist[i].ref = r
       /\ watchlist' = RemoveAt(watchlist, i)
  /\ removals' = removals + 1
  /\ UNCHANGED <<clock, dated, faults, run, history>>

\* AllWatchers: one SELECT of every row.
AllWatchers ==
  /\ pc = "idle"
  /\ pc' = "checking" /\ now' = clock /\ todo' = watchlist
  /\ UNCHANGED <<clock, tables, removals, faults, counted, history>>

NextRow ==
  /\ pc' = "checking" /\ todo' = Tail(todo) /\ counted' = {}

\* Slip: observations of the second of the last alert count again.
NewOnesFromLast ==
  {n \in News : Arrived(n) /\ refOf[n] = row.ref /\ dated[n] >= row.last}

\* What the row in hand has that is dated after its last alert.
NewOnes ==
  {n \in News : Arrived(n) /\ refOf[n] = row.ref /\ dated[n] > row.last}

\* UPDATE watchlist: nothing changes when the row was removed meanwhile.
Marked ==
  [i \in DOMAIN watchlist |->
     IF watchlist[i].user = row.user /\ watchlist[i].ref = row.ref
     THEN [watchlist[i] EXCEPT !.last = now] ELSE watchlist[i]]

\* Slip: the row is marked before its mail is sent.
CheckAndMark ==
  /\ pc = "checking" /\ todo # <<>>
  /\ \/ /\ NewOnes # {} /\ pc' = "sending" /\ counted' = NewOnes
        /\ watchlist' = Marked /\ UNCHANGED todo
     \/ NewOnes = {} /\ NextRow /\ UNCHANGED watchlist
  /\ UNCHANGED <<clock, dated, removals, faults, now, history>>

\* The count for the row in hand.  None, or an error of the query, which is
\* not looked at, is a row skipped.
Check ==
  /\ pc = "checking" /\ todo # <<>>
  /\ \/ /\ NewOnes # {} /\ pc' = "sending" /\ counted' = NewOnes
        /\ UNCHANGED <<faults, todo>>
     \/ NewOnes = {} /\ NextRow /\ UNCHANGED faults
     \/ faults < MaxFaults /\ faults' = faults + 1 /\ NextRow
  /\ UNCHANGED <<clock, tables, removals, now, history>>

\* SendAlert, when the mail server takes the mail.
SendAlert ==
  /\ pc = "sending" /\ row.user \notin Unreachable
  /\ pc' = "marking"
  /\ told' = [told EXCEPT ![<<row.user, row.ref>>] = @ \cup (counted \X {now})]
  /\ UNCHANGED <<clock, tables, removals, faults, now, todo, counted, behind>>

MarkAlerted ==
  /\ pc = "marking"
  /\ watchlist' = Marked
  /\ NextRow
  /\ UNCHANGED <<clock, dated, removals, faults, now, history>>

\* A run ends, and its memory with it.
End == pc' = "idle" /\ todo' = <<>> /\ counted' = {}

Finish ==
  /\ pc = "checking" /\ todo = <<>>
  /\ End
  /\ UNCHANGED <<clock, tables, removals, faults, now, history>>

\* A mail that errs ends the run: the rows after it are not handled.
Refused ==
  /\ pc = "sending" /\ row.user \in Unreachable
  /\ End
  /\ UNCHANGED <<clock, tables, removals, faults, now, history>>

\* The mail server errs, the update fails, or the process is killed.
Fail ==
  /\ pc # "idle" /\ faults < MaxFaults
  /\ faults' = faults + 1
  /\ End
  /\ UNCHANGED <<clock, tables, removals, now, history>>

Next ==
  \/ Tick
  \/ \E n \in News : Arrive(n)
  \/ \E u \in User, r \in Ref : WatchAdd(u, r) \/ WatchRemove(u, r)
  \/ AllWatchers
  \/ Check
  \/ SendAlert
  \/ MarkAlerted
  \/ Finish
  \/ Refused
  \/ Fail

Spec == Init /\ [][Next]_vars

\* The nightly loop comes round and a run goes on; nobody promises news,
\* watchers or time.
FairSpec ==
  /\ Spec
  /\ WF_vars(AllWatchers) /\ WF_vars(Check) /\ WF_vars(SendAlert)
  /\ WF_vars(MarkAlerted) /\ WF_vars(Finish) /\ WF_vars(Refused)

-----------------------------------------------------------------------------
\* The shape of the state: one row per watch, and a run that has something
\* to say about the row in hand or nothing in hand.
TypeOK ==
  /\ clock \in FirstSecond..MaxClock /\ now \in 0..clock
  /\ \A i, j \in DOMAIN watchlist :
       /\ watchlist[i] \in [user : User, ref : Ref, last : 0..clock]
       /\ i # j => <<watchlist[i].user, watchlist[i].ref>>
                     # <<watchlist[j].user, watchlist[j].ref>>
  /\ pc \in {"idle", "checking", "sending", "marking"}
  /\ pc = "idle" => todo = <<>>
  /\ IF pc \in {"sending", "marking"}
     THEN counted # {} /\ \A n \in counted : Arrived(n) /\ refOf[n] = row.ref
     ELSE counted = {}
  /\ pc = "marking" => row.user \notin Unreachable
  /\ faults \in 0..MaxFaults /\ removals \in 0..MaxRemovals
  /\ behind \subseteq {n \in News : Arrived(n)}

Mails == pc = "sending" /\ pc' = "marking"

(* A mail counts an observation again only if the earlier mail to the same *)
(* watch was of a run that started before the observation's date; as long  *)
(* as no run has died between a mail and its mark ("strictly after the     *)
(* last alert", "nothing new = nothing sent").  Dates, arrivals, runs and  *)
(* watches that come and go are in any order.                              *)
NothingToldTwice ==
  [][Mails /\ faults = 0
       => \A n \in counted, t \in 0..MaxClock :
            <<n, t>> \in told[<<row.user, row.ref>>] => t < dated[n]]_vars

\* Whoever keeps watching a reference is at some time told of observation n
\* on it, by this watch or by an earlier one of the same reference, if n was
\* not behind a run when it arrived.
Told(n) ==
  \A u \in User \ Unreachable :
    <>[](Arrived(n) /\ n \notin behind /\ Watches(u, refOf[n]))
      => <>(\E t \in 0..MaxClock : <<n, t>> \in told[<<u, refOf[n]>>])

(* Everybody is told of every observation that is dated after the start of *)
(* the latest run when it arrives, be it before, in or after that run, and *)
(* whatever else the reference has and was marked for; although queries    *)
(* err and runs are killed, as long as nobody watches whose mail always    *)
(* errs.  (What is dated earlier is lost to a row that the run has marked  *)
(* or goes on to mark without having counted it.)                          *)
NewsToldInTime ==
  [](\A u \in Unreachable, r \in Ref : ~Watches(u, r))
    => \A n \in News : Told(n)
=============================================================================
