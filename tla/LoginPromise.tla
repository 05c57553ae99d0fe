---------------------------- MODULE LoginPromise ----------------------------
(***************************************************************************)
(* What a login link promises, with a confirmation as one step: it turns a *)
(* link that was mailed and is not spent into one session of the address   *)
(* the link was mailed to.  A confirmation can fail and take the link with *)
(* it, and a link that is opened twice at once can give two sessions.      *)
(***************************************************************************)
CONSTANTS Email, Link, Session, None

VARIABLES
  owner,  \* the address each link was mailed to
  spent,  \* links that are good for nothing any more
  raced,  \* links that were opened twice at once
  from,   \* the link that each session was granted for
  user    \* whose each session is, while there is one

state == <<owner, spent, raced, from, user>>

Init ==
  /\ owner = [l \in Link |-> None] /\ spent = {} /\ raced = {}
  /\ from = [s \in Session |-> None] /\ user = [s \in Session |-> None]

Mail(e, l) ==
  /\ owner[l] = None
  /\ owner' = [owner EXCEPT ![l] = e]
  /\ UNCHANGED <<spent, raced, from, user>>

Race(l) ==
  /\ owner[l] # None /\ l \notin spent
  /\ raced' = raced \cup {l}
  /\ UNCHANGED <<owner, spent, from, user>>

\* A confirmation, as if it were one step.
Grant(l, s) ==
  /\ owner[l] # None /\ l \notin spent \ raced
  /\ from[s] = None
  /\ spent' = spent \cup {l}
  /\ from' = [from EXCEPT ![s] = l]
  /\ user' = [user EXCEPT ![s] = owner[l]]
  /\ UNCHANGED <<owner, raced>>

\* A confirmation that fails half way.
Burn(l) ==
  /\ owner[l] # None
  /\ spent' = spent \cup {l}
  /\ UNCHANGED <<owner, raced, from, user>>

\* A session ends, for good.
End(s) ==
  /\ user' = [user EXCEPT ![s] = None]
  /\ UNCHANGED <<owner, spent, raced, from>>

Next ==
  \/ \E e \in Email, l \in Link : Mail(e, l)
  \/ \E l \in Link : Race(l) \/ Burn(l)
  \/ \E l \in Link, s \in Session : Grant(l, s)
  \/ \E s \in Session : End(s)

Spec == Init /\ [][Next]_state
=============================================================================
