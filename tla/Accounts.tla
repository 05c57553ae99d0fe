------------------------------ MODULE Accounts ------------------------------
(***************************************************************************)
(* Magic-link accounts (internal/auth) and the forms of a signed-in user   *)
(* (requireUser, the watchlist and report handlers of internal/httpx).     *)
(*                                                                         *)
(* A confirmation of a login link is five statements without a             *)
(* transaction; a form resolves the session twice, once in requireUser and *)
(* once in the handler.  Requests are goroutines, so other requests run    *)
(* between any two statements.                                             *)
(*                                                                         *)
(* Tokens are random and stored hashed: a token is a fresh name here.  The *)
(* address of a user is unique and stands for the id of the row.           *)
(***************************************************************************)
EXTENDS Integers

CONSTANTS
  Email,       \* normalized addresses
  Link,        \* login tokens
  Session,     \* session tokens
  Ref,         \* references a user watches or reports on
  Request,     \* requests that can be under way at once
  None,        \* no row
  Nobody,      \* the user id 0 of a handler that finds no session
  LoginTTL, SessionTTL,
  MaxClock     \* bound on the clock

LinkRow == [email : Email, expires : Nat, used : BOOLEAN]
SessionRow == [user : Email, expires : Nat]

ASSUME AccountsAssumption ==
  /\ None \notin LinkRow \cup SessionRow
  /\ None \notin Link \cup Email /\ Nobody \notin Email
  /\ LoginTTL \in Nat /\ SessionTTL \in Nat \ {0} /\ MaxClock \in Nat

Wish == {"watch", "unwatch", "report"}

VARIABLES
  clock,
  links,      \* table login_tokens
  sent,       \* the links that were mailed
  users,      \* table users
  sessions,   \* table sessions
  watchlist,  \* table watchlist, <<user, ref>>
  reports,    \* table price_reports, <<user, ref>>
  req,        \* what each request has done so far
  \* what happened, for the properties; no part of the program
  mintedFrom, \* the link each session was minted from
  contested,  \* links that two requests confirmed at once
  broken,     \* links of which a confirmation failed half way
  cut         \* a session ended while a form let in with it was under way

tables  == <<links, sent, users, sessions, watchlist, reports>>
history == <<mintedFrom, contested, broken, cut>>
vars    == <<clock, tables, req, history>>

Idle == [at |-> "idle"]
Confirming(q) == req[q].at \in {"checked", "adopted", "consumed"}
ConfirmingLink(q, l) == Confirming(q) /\ req[q].link = l

\* auth.User: the session is there and has not expired.
Resolves(s) == sessions[s] # None /\ sessions[s].expires > clock

-----------------------------------------------------------------------------
Init ==
  /\ clock = 0
  /\ links = [l \in Link |-> None]
  /\ sent = {} /\ users = {}
  /\ sessions = [s \in Session |-> None]
  /\ watchlist = {} /\ reports = {}
  /\ req = [q \in Request |-> Idle]
  /\ mintedFrom = [s \in Session |-> None]
  /\ contested = {} /\ broken = {} /\ cut = FALSE

\* Forms that were let in with a session of S.
LetInWith(S) == \E q \in Request : req[q].at = "letin" /\ req[q].cookie \in S

Tick ==
  /\ clock < MaxClock
  /\ clock' = clock + 1
  /\ cut' = (cut \/ LetInWith({s \in Session :
                               Resolves(s) /\ sessions[s].expires = clock + 1}))
  /\ UNCHANGED <<tables, req, mintedFrom, contested, broken>>

\* StartLogin: a row, then the mail, which may fail.  Nobody knows the link
\* in between.
StartLogin(e, l) ==
  /\ links[l] = None
  /\ links' = [links EXCEPT ![l] = [email |-> e, expires |-> clock + LoginTTL,
                                    used |-> FALSE]]
  /\ sent' \in {sent, sent \cup {l}}
  /\ UNCHANGED <<clock, users, sessions, watchlist, reports, req, history>>

\* Slip: a link that has been used is good for another session.
CheckAnyLink(q, l) ==
  /\ req[q] = Idle /\ l \in sent
  /\ clock <= links[l].expires
  /\ req' = [req EXCEPT ![q] = [at |-> "checked", link |-> l]]
  /\ contested' = IF \E p \in Request : ConfirmingLink(p, l)
                  THEN contested \cup {l} ELSE contested
  /\ UNCHANGED <<clock, tables, mintedFrom, broken, cut>>

\* Slip: an expired link is marked as used on the way out.
CheckLinkAndExpire(q, l) ==
  /\ req[q] = Idle /\ l \in sent /\ ~links[l].used
  /\ IF clock <= links[l].expires
     THEN /\ req' = [req EXCEPT ![q] = [at |-> "checked", link |-> l]]
          /\ UNCHANGED links
     ELSE /\ links' = [links EXCEPT ![l].used = TRUE]
          /\ UNCHANGED req
  /\ contested' = IF \E p \in Request : ConfirmingLink(p, l)
                  THEN contested \cup {l} ELSE contested
  /\ UNCHANGED <<clock, sent, users, sessions, watchlist, reports, mintedFrom,
                 broken, cut>>

\* ConfirmLogin, the SELECT: a link that is not used and not too old.  Any
\* other is an error page.
CheckLink(q, l) ==
  /\ req[q] = Idle /\ l \in sent
  /\ ~links[l].used /\ clock <= links[l].expires
  /\ req' = [req EXCEPT ![q] = [at |-> "checked", link |-> l]]
  /\ contested' = IF \E p \in Request : ConfirmingLink(p, l)
                  THEN contested \cup {l} ELSE contested
  /\ UNCHANGED <<clock, tables, mintedFrom, broken, cut>>

\* Slip: the new user's id is taken from the insert, which was ignored if
\* the user was there.
AdoptLastInserted(q) ==
  /\ req[q].at = "checked"
  /\ \E u \in IF links[req[q].link].email \in users
              THEN users ELSE {links[req[q].link].email} :
       req' = [req EXCEPT ![q] = [at |-> "adopted", link |-> @.link, user |-> u]]
  /\ users' = users \cup {links[req[q].link].email}
  /\ UNCHANGED <<clock, links, sent, sessions, watchlist, reports, history>>

\* The user: INSERT OR IGNORE, then the SELECT of its id, which nothing
\* changes or removes in between.
AdoptUser(q) ==
  /\ req[q].at = "checked"
  /\ LET u == links[req[q].link].email
     IN  /\ users' = users \cup {u}
         /\ req' = [req EXCEPT ![q] = [at |-> "adopted", link |-> @.link, user |-> u]]
  /\ UNCHANGED <<clock, links, sent, sessions, watchlist, reports, history>>

\* Slip: a used link is deleted.
DeleteLink(q) ==
  /\ req[q].at = "adopted"
  /\ links' = [links EXCEPT ![req[q].link] = None]
  /\ req' = [req EXCEPT ![q].at = "consumed"]
  /\ UNCHANGED <<clock, sent, users, sessions, watchlist, reports, history>>

\* UPDATE login_tokens SET used_at, whoever used the link meanwhile.
ConsumeLink(q) ==
  /\ req[q].at = "adopted"
  /\ links' = [links EXCEPT ![req[q].link].used = TRUE]
  /\ req' = [req EXCEPT ![q].at = "consumed"]
  /\ UNCHANGED <<clock, sent, users, sessions, watchlist, reports, history>>

\* INSERT INTO sessions, and the cookie.
MintSession(q, s) ==
  /\ req[q].at = "consumed" /\ mintedFrom[s] = None
  /\ sessions' = [sessions EXCEPT ![s] = [user |-> req[q].user,
                                          expires |-> clock + SessionTTL]]
  /\ mintedFrom' = [mintedFrom EXCEPT ![s] = req[q].link]
  /\ req' = [req EXCEPT ![q] = Idle]
  /\ UNCHANGED <<clock, links, sent, users, watchlist, reports, contested,
                 broken, cut>>

\* A statement of a confirmation errs, or the process dies.
Fail(q) ==
  /\ Confirming(q)
  /\ req' = [req EXCEPT ![q] = Idle]
  /\ broken' = broken \cup {req[q].link}
  /\ UNCHANGED <<clock, tables, mintedFrom, contested, cut>>

\* Slip: the route is not wrapped.
LetAnyoneIn(q, s, wish, r) ==
  /\ req[q] = Idle
  /\ req' = [req EXCEPT ![q] =
               [at |-> "letin", cookie |-> s, wish |-> wish, ref |-> r]]
  /\ UNCHANGED <<clock, tables, history>>

\* requireUser: a form whose cookie resolves goes on to its handler.
LetIn(q, s, wish, r) ==
  /\ req[q] = Idle /\ Resolves(s)
  /\ req' = [req EXCEPT ![q] =
               [at |-> "letin", cookie |-> s, wish |-> wish, ref |-> r]]
  /\ UNCHANGED <<clock, tables, history>>

\* currentUser, called again by the handler.
CurrentUser(s) == IF Resolves(s) THEN sessions[s].user ELSE Nobody

\* The handler.  PRAGMA foreign_keys is set on one connection of the pool:
\* on another one the row of a user that is not there is taken.
HandleForm(q) ==
  /\ req[q].at = "letin"
  /\ LET row == <<CurrentUser(req[q].cookie), req[q].ref>>
     IN  \E enforced \in BOOLEAN :
           LET rows == IF enforced /\ row[1] = Nobody THEN {} ELSE {row}
           IN  /\ watchlist' = CASE req[q].wish = "watch"   -> watchlist \cup rows
                                 [] req[q].wish = "unwatch" -> watchlist \ {row}
                                 [] OTHER                   -> watchlist
               /\ reports' = IF req[q].wish = "report" THEN reports \cup rows
                             ELSE reports
  /\ req' = [req EXCEPT ![q] = Idle]
  /\ UNCHANGED <<clock, links, sent, users, sessions, history>>

\* handleLogout: DELETE FROM sessions.
Logout(s) ==
  /\ sessions[s] # None
  /\ sessions' = [sessions EXCEPT ![s] = None]
  /\ cut' = (cut \/ LetInWith({s}))
  /\ UNCHANGED <<clock, links, sent, users, watchlist, reports, req, mintedFrom,
                 contested, broken>>

Next ==
  \/ Tick
  \/ \E e \in Email, l \in Link : StartLogin(e, l)
  \/ \E q \in Request, l \in Link : CheckLink(q, l)
  \/ \E q \in Request : AdoptUser(q)
  \/ \E q \in Request : ConsumeLink(q)
  \/ \E q \in Request, s \in Session : MintSession(q, s)
  \/ \E q \in Request : Fail(q)
  \/ \E q \in Request, s \in Session, w \in Wish, r \in Ref : LetIn(q, s, w, r)
  \/ \E q \in Request : HandleForm(q)
  \/ \E s \in Session : Logout(s)

Spec == Init /\ [][Next]_vars

-----------------------------------------------------------------------------
Owned == (Email \cup {Nobody}) \X Ref

RequestState ==
       {Idle}
  \cup [at : {"checked"}, link : Link]
  \cup [at : {"adopted", "consumed"}, link : Link, user : Email]
  \cup [at : {"letin"}, cookie : Session, wish : Wish, ref : Ref]

\* The shape of the state.
TypeOK ==
  /\ clock \in Nat
  /\ links \in [Link -> LinkRow \cup {None}]
  /\ sent \subseteq {l \in Link : links[l] # None}
  /\ users \subseteq Email
  /\ sessions \in [Session -> SessionRow \cup {None}]
  /\ watchlist \subseteq Owned /\ reports \subseteq Owned
  /\ req \in [Request -> RequestState]
  /\ mintedFrom \in [Session -> Link \cup {None}]
  /\ contested \subseteq Link /\ broken \subseteq Link /\ cut \in BOOLEAN

(* A session belongs to the address that its link was mailed to, and that  *)
(* user exists, whoever else is being created or let in meanwhile.         *)
SessionIsForItsAddress ==
  \A s \in Session : sessions[s] # None =>
    /\ mintedFrom[s] \in sent
    /\ sessions[s].user = links[mintedFrom[s]].email
    /\ sessions[s].user \in users

(* A link gives one session ("one-time login token"), unless two requests  *)
(* confirm it at the same time: the check and the mark are two statements, *)
(* and the mark does not ask whether the link was still unused.            *)
OneSessionPerLink ==
  \A s, t \in Session :
    mintedFrom[s] = mintedFrom[t] /\ mintedFrom[s] \notin contested \cup {None}
      => s = t

(* A link is spent without a session only when a confirmation of it failed *)
(* half way: looking at a link, at once with others or too late, does not  *)
(* spend it.                                                               *)
LinkSpentOnSession ==
  \A l \in Link :
    (links[l] # None /\ links[l].used) =>
      \/ \E s \in Session : mintedFrom[s] = l
      \/ l \in broken
      \/ \E q \in Request : ConfirmingLink(q, l)

(* A row of the watchlist or of the reports belongs to somebody who signed *)
(* in, unless a session ended between the two times that a form resolves   *)
(* it; then it can be nobody's.                                            *)
RowsHaveOwners ==
  cut \/ \A row \in watchlist \cup reports :
            \E s \in Session : /\ mintedFrom[s] # None
                               /\ links[mintedFrom[s]].email = row[1]

\* A confirmation has marked link l, and only it can make a session of it.
InHand(l) ==
  /\ l \notin contested
  /\ \E q \in Request : req[q].at = "consumed" /\ req[q].link = l

Owner == [l \in Link |-> IF l \in sent THEN links[l].email ELSE None]
Spent == {l \in Link : links[l] # None /\ links[l].used /\ ~InHand(l)}
SessionUser == [s \in Session |->
                  IF sessions[s] = None THEN None ELSE sessions[s].user]

Login == INSTANCE LoginPromise WITH
  owner <- Owner, spent <- Spent, raced <- contested, from <- mintedFrom,
  user <- SessionUser

(* Unless two requests confirm a link at the same time, the five           *)
(* statements of a confirmation are as good as one: whatever other         *)
(* requests do in between, and wherever it fails, a link is spent at once  *)
(* on one session of the address it was mailed to, or for nothing          *)
(* ("one-time login token"); what is spent stays spent and a session that  *)
(* has ended does not come back.                                           *)
KeepsLoginPromise == Login!Spec
=============================================================================
