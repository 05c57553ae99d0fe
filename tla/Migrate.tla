------------------------------ MODULE Migrate -------------------------------
(***************************************************************************)
(* store.Migrate, which every program of WatchLedger calls when it starts: *)
(* for each migration in the order of names, ask whether it is recorded;   *)
(* if not, run its body and record it in one transaction.  Programs that   *)
(* start together (prod-start.sh) do so on the same file.                  *)
(***************************************************************************)
EXTENDS Integers

CONSTANTS
  Process,        \* programs that start
  LastMigration   \* migrations are numbered from 1

ASSUME MigrateAssumption == LastMigration \in Nat

Migration == 1..LastMigration

VARIABLES
  applied,  \* table schema_migrations
  effects,  \* how often the body of each migration took effect
  stage,    \* "down", "check", "apply" or "ready", for each process
  place     \* the migration each process is at

schema == <<applied, effects>>
boot   == <<stage, place>>

MigrateInit ==
  /\ applied = {} /\ effects = [m \in Migration |-> 0]
  /\ stage = [p \in Process |-> "down"]
  /\ place = [p \in Process |-> 1]

Boot(p) ==
  /\ stage[p] = "down"
  /\ stage' = [stage EXCEPT ![p] = "check"]
  /\ place' = [place EXCEPT ![p] = 1]
  /\ UNCHANGED schema

\* SELECT COUNT(*): recorded, to be applied, or no more of them.
CheckMigration(p) ==
  /\ stage[p] = "check"
  /\ IF place[p] \in applied
     THEN place' = [place EXCEPT ![p] = @ + 1] /\ UNCHANGED stage
     ELSE /\ stage' = [stage EXCEPT ![p] =
                         IF place[p] \in Migration THEN "apply" ELSE "ready"]
          /\ UNCHANGED place
  /\ UNCHANGED schema

Die(p) ==
  /\ stage' = [stage EXCEPT ![p] = "down"]
  /\ place' = [place EXCEPT ![p] = 1]

\* Slip: the record is INSERT OR IGNORE, so that the loser goes on.
ApplyOrIgnore(p) ==
  /\ stage[p] = "apply"
  /\ applied' = applied \cup {place[p]}
  /\ effects' = [effects EXCEPT ![place[p]] = @ + 1]
  /\ stage' = [stage EXCEPT ![p] = "check"]
  /\ place' = [place EXCEPT ![p] = @ + 1]

\* Slip: a migration that conflicts is tried again.
ApplyUntilItWorks(p) ==
  /\ stage[p] = "apply" /\ place[p] \notin applied
  /\ applied' = applied \cup {place[p]}
  /\ effects' = [effects EXCEPT ![place[p]] = @ + 1]
  /\ stage' = [stage EXCEPT ![p] = "check"]
  /\ place' = [place EXCEPT ![p] = @ + 1]

\* The transaction.  When another process has committed the same migration
\* since the check, the body or the record conflicts: all of it is rolled
\* back and the program ends.
ApplyMigration(p) ==
  /\ stage[p] = "apply"
  /\ IF place[p] \in applied
     THEN Die(p) /\ UNCHANGED schema
     ELSE /\ applied' = applied \cup {place[p]}
          /\ effects' = [effects EXCEPT ![place[p]] = @ + 1]
          /\ stage' = [stage EXCEPT ![p] = "check"]
          /\ place' = [place EXCEPT ![p] = @ + 1]

-----------------------------------------------------------------------------
MigrateTypeOK ==
  /\ applied \subseteq Migration
  /\ effects \in [Migration -> Nat]
  /\ stage \in [Process -> {"down", "check", "apply", "ready"}]
  /\ place \in [Process -> 1..(LastMigration + 1)]

(* The body of a migration takes effect once and in its turn, however many *)
(* programs start at once, although each of them asks before it begins its *)
(* transaction; and a program works only on a complete schema.             *)
MigratedOnce ==
  /\ \A m \in Migration : effects[m] = IF m \in applied THEN 1 ELSE 0
  /\ \A m \in applied : \A k \in 1..m : k \in applied
  /\ \A p \in Process : stage[p] = "ready" => applied = Migration
=============================================================================
