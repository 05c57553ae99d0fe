--------------------------- MODULE AccountsProofs ---------------------------
(***************************************************************************)
(* Proofs about module Accounts, for every set of addresses, links,        *)
(* sessions and requests and every lifetime.                               *)
(***************************************************************************)
EXTENDS Accounts, TLAPS

USE AccountsAssumption

(* What the state of a request holds, by how far the request is.           *)
LEMMA RequestFields ==
  ASSUME NEW x \in RequestState
  PROVE  /\ x = Idle \/ x.at # "idle"
         /\ x.at \in {"checked", "adopted", "consumed"} => x.link \in Link
         /\ x.at \in {"adopted", "consumed"} => x.user \in Email
         /\ x.at = "letin" => x.cookie \in Session /\ x.wish \in Wish /\ x.ref \in Ref
         /\ x.at = "checked" => x = [at |-> "checked", link |-> x.link]
         /\ x.at \in {"adopted", "consumed"}
              => x = [at |-> x.at, link |-> x.link, user |-> x.user]
  BY DEF RequestState, Idle

-----------------------------------------------------------------------------
LEMMA InitTypeOK == Init => TypeOK
  <1> SUFFICES ASSUME Init PROVE TypeOK
    OBVIOUS
  <1>1. sent = {} /\ users = {} /\ watchlist = {} /\ reports = {}
        /\ contested = {} /\ broken = {} /\ clock = 0 /\ cut = FALSE
    BY DEF Init
  <1>2. /\ links \in [Link -> LinkRow \cup {None}]
        /\ sessions \in [Session -> SessionRow \cup {None}]
        /\ mintedFrom \in [Session -> Link \cup {None}]
    BY DEF Init
  <1>3. req \in [Request -> RequestState]
    BY DEF Init, RequestState
  <1>4. QED
    BY <1>1, <1>2, <1>3 DEF TypeOK

(* A link under confirmation was mailed; its row has the shape of a row.   *)
ConfirmsSent == \A q \in Request : Confirming(q) => req[q].link \in sent

LEMMA SentRow ==
  ASSUME TypeOK, NEW l \in sent
  PROVE  l \in Link /\ links[l] \in LinkRow /\ links[l].email \in Email
  <1>1. l \in Link /\ links[l] # None
    BY DEF TypeOK
  <1>2. links[l] \in LinkRow
    BY <1>1 DEF TypeOK
  <1>3. QED
    BY <1>1, <1>2 DEF LinkRow

(* What is known of a request that is half way through a confirmation.     *)
LEMMA ConfirmingRow ==
  ASSUME TypeOK, ConfirmsSent, NEW q \in Request, Confirming(q)
  PROVE  /\ req[q] \in RequestState /\ req[q] # Idle
         /\ req[q].link \in sent /\ req[q].link \in Link
         /\ links[req[q].link] \in LinkRow
         /\ links[req[q].link].email \in Email
  BY SentRow DEF ConfirmsSent, TypeOK, Confirming, Idle

-----------------------------------------------------------------------------
LEMMA InitType == Init => TypeOK /\ ConfirmsSent
  BY InitTypeOK DEF Init, ConfirmsSent, Confirming, Idle

LEMMA NextType == TypeOK /\ ConfirmsSent /\ [Next]_vars => TypeOK' /\ ConfirmsSent'
  <1> SUFFICES ASSUME TypeOK, ConfirmsSent, [Next]_vars
               PROVE  TypeOK' /\ ConfirmsSent'
    OBVIOUS
  <1> USE DEF tables, history
  <1>1. CASE Tick
    BY <1>1 DEF Tick, TypeOK, ConfirmsSent, Confirming
  <1>2. ASSUME NEW e \in Email, NEW l \in Link, StartLogin(e, l)
        PROVE  TypeOK' /\ ConfirmsSent'
    <2> DEFINE row == [email |-> e, expires |-> clock + LoginTTL, used |-> FALSE]
    <2>1. row \in LinkRow
      BY DEF TypeOK, LinkRow
    <2>2. links' = [links EXCEPT ![l] = row]
      BY <1>2 DEF StartLogin
    <2> HIDE DEF row
    <2>3. links' \in [Link -> LinkRow \cup {None}]
      BY <2>1, <2>2 DEF TypeOK
    <2>4. sent' \subseteq {k \in Link : links'[k] # None} /\ sent \subseteq sent'
      <3>1. \A k \in sent \cup {l} : k \in Link /\ links'[k] # None
        BY <2>1, <2>2 DEF TypeOK
      <3>2. sent' \in {sent, sent \cup {l}}
        BY <1>2 DEF StartLogin
      <3>3. QED
        BY <3>1, <3>2
    <2>5. QED
      BY <1>2, <2>3, <2>4 DEF StartLogin, TypeOK, ConfirmsSent, Confirming
  <1>3. ASSUME NEW q \in Request, NEW l \in Link, CheckLink(q, l)
        PROVE  TypeOK' /\ ConfirmsSent'
    <2>1. [at |-> "checked", link |-> l] \in RequestState
      BY DEF RequestState
    <2>2. TypeOK'
      BY <1>3, <2>1 DEF CheckLink, TypeOK
    <2>3. QED
      BY <1>3, <2>2 DEF CheckLink, TypeOK, ConfirmsSent, Confirming
  <1>4. ASSUME NEW q \in Request, AdoptUser(q) PROVE TypeOK' /\ ConfirmsSent'
    <2> DEFINE l == req[q].link
               u == links[l].email
    <2>1. Confirming(q)
      BY <1>4 DEF AdoptUser, Confirming
    <2>2. l \in sent /\ l \in Link /\ u \in Email
      BY <2>1, ConfirmingRow
    <2>3. /\ users' = users \cup {u}
          /\ req' = [req EXCEPT ![q] = [at |-> "adopted", link |-> l, user |-> u]]
      BY <1>4 DEF AdoptUser, TypeOK
    <2> HIDE DEF l, u
    <2>4. [at |-> "adopted", link |-> l, user |-> u] \in RequestState
      BY <2>2 DEF RequestState
    <2>5. TypeOK'
      BY <1>4, <2>2, <2>3, <2>4 DEF AdoptUser, TypeOK
    <2>6. QED
      BY <1>4, <2>2, <2>3, <2>5 DEF AdoptUser, TypeOK, ConfirmsSent, Confirming
  <1>5. ASSUME NEW q \in Request, ConsumeLink(q) PROVE TypeOK' /\ ConfirmsSent'
    <2> DEFINE l == req[q].link
               row == [links[l] EXCEPT !.used = TRUE]
               done == [req[q] EXCEPT !.at = "consumed"]
    <2>1. Confirming(q)
      BY <1>5 DEF ConsumeLink, Confirming
    <2>2. l \in sent /\ l \in Link /\ links[l] \in LinkRow /\ req[q] \in RequestState
      BY <2>1, ConfirmingRow
    <2>3. row \in LinkRow
      BY <2>2 DEF LinkRow
    <2>4. done \in RequestState /\ done.link = l
      <3>1. req[q].at = "adopted"
        BY <1>5 DEF ConsumeLink
      <3>2. req[q] \in [at : {"adopted", "consumed"}, link : Link, user : Email]
        BY <3>1, <2>2 DEF RequestState, Idle
      <3>3. QED
        BY <3>2 DEF RequestState
    <2>5. /\ links' = [links EXCEPT ![l] = row]
          /\ req' = [req EXCEPT ![q] = done]
      BY <1>5 DEF ConsumeLink, TypeOK
    <2> HIDE DEF row, done
    <2>6. links' \in [Link -> LinkRow \cup {None}]
      BY <2>2, <2>3, <2>5 DEF TypeOK
    <2>7. sent \subseteq {k \in Link : links'[k] # None}
      BY <2>2, <2>3, <2>5 DEF TypeOK
    <2>8. TypeOK'
      BY <1>5, <2>2, <2>4, <2>5, <2>6, <2>7 DEF ConsumeLink, TypeOK
    <2>9. QED
      BY <1>5, <2>2, <2>4, <2>5, <2>8 DEF ConsumeLink, TypeOK, ConfirmsSent, Confirming
  <1>6. ASSUME NEW q \in Request, NEW s \in Session, MintSession(q, s)
        PROVE  TypeOK' /\ ConfirmsSent'
    <2> DEFINE row == [user |-> req[q].user, expires |-> clock + SessionTTL]
    <2>1. req[q].at = "consumed" /\ req[q] \in RequestState
      BY <1>6 DEF MintSession, TypeOK
    <2>2. req[q].user \in Email /\ req[q].link \in Link
      BY <2>1, RequestFields
    <2>3. row \in SessionRow
      BY <2>2 DEF SessionRow, TypeOK
    <2>4. sessions' = [sessions EXCEPT ![s] = row]
      BY <1>6 DEF MintSession
    <2> HIDE DEF row
    <2>5. Idle \in RequestState
      BY DEF RequestState
    <2>6. TypeOK'
      BY <1>6, <2>2, <2>3, <2>4, <2>5 DEF MintSession, TypeOK
    <2>7. QED
      BY <1>6, <2>6 DEF MintSession, TypeOK, ConfirmsSent, Confirming, Idle
  <1>7. ASSUME NEW q \in Request, Fail(q) PROVE TypeOK' /\ ConfirmsSent'
    <2>1. req[q].link \in Link
      BY <1>7, ConfirmingRow DEF Fail
    <2>2. Idle \in RequestState
      BY DEF RequestState
    <2>3. TypeOK'
      BY <1>7, <2>1, <2>2 DEF Fail, TypeOK
    <2>4. QED
      BY <1>7, <2>3 DEF Fail, TypeOK, ConfirmsSent, Confirming, Idle
  <1>8. ASSUME NEW q \in Request, NEW s \in Session, NEW w \in Wish, NEW r \in Ref,
               LetIn(q, s, w, r)
        PROVE  TypeOK' /\ ConfirmsSent'
    <2>1. [at |-> "letin", cookie |-> s, wish |-> w, ref |-> r] \in RequestState
      BY DEF RequestState
    <2>2. TypeOK'
      BY <1>8, <2>1 DEF LetIn, TypeOK
    <2>3. QED
      BY <1>8, <2>2 DEF LetIn, TypeOK, ConfirmsSent, Confirming
  <1>9. ASSUME NEW q \in Request, HandleForm(q) PROVE TypeOK' /\ ConfirmsSent'
    <2> DEFINE row == <<CurrentUser(req[q].cookie), req[q].ref>>
    <2>1. req[q].cookie \in Session /\ req[q].ref \in Ref
      BY <1>9, RequestFields DEF HandleForm, TypeOK
    <2>2. CurrentUser(req[q].cookie) \in Email \cup {Nobody}
      BY <2>1 DEF CurrentUser, Resolves, TypeOK, SessionRow
    <2>3. row \in Owned
      BY <2>1, <2>2 DEF Owned
    <2>4. /\ watchlist' \subseteq watchlist \cup {row}
          /\ reports' \subseteq reports \cup {row}
      <3> PICK enforced \in BOOLEAN :
            LET rows == IF enforced /\ row[1] = Nobody THEN {} ELSE {row}
            IN  /\ watchlist' = CASE req[q].wish = "watch"   -> watchlist \cup rows
                                  [] req[q].wish = "unwatch" -> watchlist \ {row}
                                  [] OTHER                   -> watchlist
                /\ reports' = IF req[q].wish = "report" THEN reports \cup rows
                              ELSE reports
        BY <1>9 DEF HandleForm
      <3> HIDE DEF row
      <3> QED
        OBVIOUS
    <2> HIDE DEF row
    <2>5. Idle \in RequestState
      BY DEF RequestState
    <2>6. TypeOK'
      BY <1>9, <2>3, <2>4, <2>5 DEF HandleForm, TypeOK
    <2>7. QED
      BY <1>9, <2>6 DEF HandleForm, TypeOK, ConfirmsSent, Confirming, Idle
  <1>10. ASSUME NEW s \in Session, Logout(s) PROVE TypeOK' /\ ConfirmsSent'
    BY <1>10 DEF Logout, TypeOK, ConfirmsSent, Confirming
  <1>11. CASE UNCHANGED vars
    BY <1>11 DEF vars, TypeOK, ConfirmsSent, Confirming
  <1>12. QED
    BY <1>1, <1>2, <1>3, <1>4, <1>5, <1>6, <1>7, <1>8, <1>9, <1>10, <1>11 DEF Next

(* The tables and the requests always have the shape they are declared     *)
(* with, and what is under confirmation was mailed.                        *)
THEOREM TypeCorrect == Spec => [](TypeOK /\ ConfirmsSent)
  BY InitType, NextType, PTL DEF Spec

-----------------------------------------------------------------------------
(* What SessionIsForItsAddress rests on: a request carries the user of its *)
(* link from the adoption on, and a session that was not minted is not     *)
(* there.                                                                  *)
AdoptedRight ==
  \A q \in Request : req[q].at \in {"adopted", "consumed"} =>
    req[q].user = links[req[q].link].email /\ req[q].user \in users

NoneUnminted == \A s \in Session : mintedFrom[s] = None => sessions[s] = None

MintedSent == \A s \in Session : mintedFrom[s] \in sent \cup {None}

SessionInv == AdoptedRight /\ NoneUnminted /\ MintedSent /\ SessionIsForItsAddress

(* No step changes the address of a row or takes a link out of the mail.   *)
LEMMA LinksKeepEmail ==
  ASSUME TypeOK, ConfirmsSent, [Next]_vars
  PROVE  /\ sent \subseteq sent'
         /\ users \subseteq users'
         /\ \A l \in sent : links'[l].email = links[l].email
  <1> USE DEF tables, history
  <1>1. ASSUME NEW e \in Email, NEW l \in Link, StartLogin(e, l)
        PROVE  /\ sent \subseteq sent' /\ users \subseteq users'
               /\ \A k \in sent : links'[k] = links[k]
    BY <1>1 DEF StartLogin, TypeOK
  <1>2. ASSUME NEW q \in Request, AdoptUser(q)
        PROVE  sent' = sent /\ users \subseteq users' /\ links' = links
    BY <1>2 DEF AdoptUser
  <1>3. ASSUME NEW q \in Request, ConsumeLink(q)
        PROVE  /\ sent' = sent /\ users' = users
               /\ \A k \in sent : links'[k].email = links[k].email
    <2>1. req[q].link \in Link /\ links[req[q].link] \in LinkRow
      BY <1>3, ConfirmingRow DEF ConsumeLink, Confirming
    <2>2. links' = [links EXCEPT ![req[q].link] = [@ EXCEPT !.used = TRUE]]
      BY <1>3 DEF ConsumeLink
    <2>3. [links[req[q].link] EXCEPT !.used = TRUE].email = links[req[q].link].email
      BY <2>1 DEF LinkRow
    <2>4. QED
      BY <1>3, <2>1, <2>2, <2>3 DEF ConsumeLink, TypeOK
  <1>4. CASE Tick \/ UNCHANGED vars
    BY <1>4 DEF Tick, vars
  <1>5. ASSUME NEW q \in Request, NEW l \in Link, CheckLink(q, l)
        PROVE  sent' = sent /\ users' = users /\ links' = links
    BY <1>5 DEF CheckLink
  <1>6. ASSUME NEW q \in Request, NEW s \in Session, MintSession(q, s)
        PROVE  sent' = sent /\ users' = users /\ links' = links
    BY <1>6 DEF MintSession
  <1>7. ASSUME NEW q \in Request, Fail(q) \/ HandleForm(q)
        PROVE  sent' = sent /\ users' = users /\ links' = links
    BY <1>7 DEF Fail, HandleForm
  <1>8. ASSUME NEW q \in Request, NEW s \in Session, NEW w \in Wish, NEW r \in Ref,
               LetIn(q, s, w, r)
        PROVE  sent' = sent /\ users' = users /\ links' = links
    BY <1>8 DEF LetIn
  <1>9. ASSUME NEW s \in Session, Logout(s)
        PROVE  sent' = sent /\ users' = users /\ links' = links
    BY <1>9 DEF Logout
  <1>10. QED
    BY <1>1, <1>2, <1>3, <1>4, <1>5, <1>6, <1>7, <1>8, <1>9 DEF Next

LEMMA InitSession == Init => SessionInv
  BY DEF Init, SessionInv, AdoptedRight, NoneUnminted, MintedSent,
         SessionIsForItsAddress, Idle

LEMMA NextSession ==
  TypeOK /\ ConfirmsSent /\ SessionInv /\ [Next]_vars => SessionInv'
  <1> SUFFICES ASSUME TypeOK, ConfirmsSent, SessionInv, [Next]_vars
               PROVE  SessionInv'
    OBVIOUS
  <1> USE DEF tables, history
  <1>0. /\ sent \subseteq sent' /\ users \subseteq users'
        /\ \A l \in sent : links'[l].email = links[l].email
    BY LinksKeepEmail
  <1>a. /\ \A q \in Request : req[q].at \in {"adopted", "consumed"} =>
             req[q].link \in sent
        /\ \A s \in Session : sessions[s] # None => mintedFrom[s] \in sent
    BY DEF ConfirmsSent, Confirming, SessionInv, SessionIsForItsAddress
  \* Steps that leave the sessions alone.
  <1>b. ASSUME sessions' = sessions, mintedFrom' = mintedFrom
        PROVE  (NoneUnminted /\ MintedSent /\ SessionIsForItsAddress)'
    BY <1>b, <1>0, <1>a DEF SessionInv, NoneUnminted, MintedSent, SessionIsForItsAddress
  \* Steps that adopt nobody: who is past the adoption was and is unchanged.
  <1>c. ASSUME \A q \in Request : req'[q].at \in {"adopted", "consumed"} =>
                 /\ req[q].at \in {"adopted", "consumed"}
                 /\ req'[q].link = req[q].link /\ req'[q].user = req[q].user
        PROVE  AdoptedRight'
    BY <1>c, <1>0, <1>a DEF SessionInv, AdoptedRight
  <1>1. CASE Tick \/ UNCHANGED vars
    BY <1>1, <1>b, <1>c DEF Tick, vars, SessionInv
  <1>2. ASSUME NEW e \in Email, NEW l \in Link, StartLogin(e, l) PROVE SessionInv'
    BY <1>2, <1>b, <1>c DEF StartLogin, SessionInv
  <1>3. ASSUME NEW q \in Request, NEW l \in Link, CheckLink(q, l) PROVE SessionInv'
    BY <1>3, <1>b, <1>c DEF CheckLink, SessionInv, TypeOK
  <1>4. ASSUME NEW q \in Request, AdoptUser(q) PROVE SessionInv'
    <2> DEFINE l == req[q].link
               u == links[l].email
    <2>1. /\ users' = users \cup {u} /\ links' = links
          /\ req' = [req EXCEPT ![q] = [at |-> "adopted", link |-> l, user |-> u]]
          /\ sessions' = sessions /\ mintedFrom' = mintedFrom
      BY <1>4 DEF AdoptUser, TypeOK
    <2> HIDE DEF l
    <2>2. AdoptedRight'
      BY <2>1 DEF SessionInv, AdoptedRight, TypeOK
    <2>3. QED
      BY <2>1, <2>2, <1>b DEF SessionInv
  <1>5. ASSUME NEW q \in Request, ConsumeLink(q) PROVE SessionInv'
    <2>1. /\ req[q].at = "adopted" /\ req[q] \in RequestState
          /\ req' = [req EXCEPT ![q] = [req[q] EXCEPT !.at = "consumed"]]
      BY <1>5 DEF ConsumeLink, TypeOK
    <2>2. req[q] = [at |-> "adopted", link |-> req[q].link, user |-> req[q].user]
      BY <2>1, RequestFields
    <2>3. AdoptedRight'
      BY <2>1, <2>2, <1>c DEF TypeOK
    <2>4. QED
      BY <1>5, <2>3, <1>b DEF ConsumeLink, SessionInv
  <1>6. ASSUME NEW q \in Request, NEW s \in Session, MintSession(q, s)
        PROVE  SessionInv'
    <2> DEFINE row == [user |-> req[q].user, expires |-> clock + SessionTTL]
               l == req[q].link
    <2>1. /\ req[q].at = "consumed" /\ l \in sent
          /\ row.user = links[l].email /\ row.user \in users
      BY <1>6, <1>a DEF MintSession, SessionInv, AdoptedRight
    <2>2. /\ sessions' = [sessions EXCEPT ![s] = row]
          /\ mintedFrom' = [mintedFrom EXCEPT ![s] = l]
          /\ req' = [req EXCEPT ![q] = Idle]
          /\ sent' = sent /\ links' = links /\ users' = users
      BY <1>6 DEF MintSession
    <2>3. AdoptedRight'
      BY <2>2, <1>c DEF TypeOK, Idle
    <2>4. l # None
      BY <2>1 DEF TypeOK
    <2> HIDE DEF row, l
    <2>5. (NoneUnminted /\ MintedSent /\ SessionIsForItsAddress)'
      BY <2>1, <2>2, <2>4
         DEF SessionInv, NoneUnminted, MintedSent, SessionIsForItsAddress, TypeOK
    <2>6. QED
      BY <2>3, <2>5 DEF SessionInv
  <1>7. ASSUME NEW q \in Request, Fail(q) \/ HandleForm(q) PROVE SessionInv'
    BY <1>7, <1>b, <1>c DEF Fail, HandleForm, SessionInv, TypeOK, Idle
  <1>8. ASSUME NEW q \in Request, NEW s \in Session, NEW w \in Wish, NEW r \in Ref,
               LetIn(q, s, w, r)
        PROVE  SessionInv'
    BY <1>8, <1>b, <1>c DEF LetIn, SessionInv, TypeOK
  <1>9. ASSUME NEW s \in Session, Logout(s) PROVE SessionInv'
    <2>1. AdoptedRight'
      BY <1>9, <1>c DEF Logout
    <2>2. (NoneUnminted /\ MintedSent /\ SessionIsForItsAddress)'
      BY <1>9 DEF Logout, SessionInv, NoneUnminted, MintedSent,
                  SessionIsForItsAddress, TypeOK
    <2>3. QED
      BY <2>1, <2>2 DEF SessionInv
  <1>10. QED
    BY <1>1, <1>2, <1>3, <1>4, <1>5, <1>6, <1>7, <1>8, <1>9 DEF Next

(* Whoever opens links at once, a session is for the address its link was  *)
(* mailed to.                                                              *)
THEOREM SessionsAreForTheirAddress == Spec => []SessionIsForItsAddress
  <1>1. SessionInv => SessionIsForItsAddress
    BY DEF SessionInv
  <1>2. QED
    BY InitType, NextType, InitSession, NextSession, <1>1, PTL DEF Spec

-----------------------------------------------------------------------------
(* What OneSessionPerLink rests on.  A link that was never confirmed twice *)
(* at once is under one confirmation at most, and under none once it has   *)
(* given a session; from its mark on it is used.                           *)
Used(l) == links[l].used

MarkedUsed ==
  \A q \in Request : req[q].at = "consumed" => Used(req[q].link)

MintedUsed == \A s \in Session : mintedFrom[s] # None => Used(mintedFrom[s])

OneConfirmation ==
  \A p, q \in Request :
    (Confirming(p) /\ Confirming(q) /\ req[p].link = req[q].link
      /\ req[p].link \notin contested) => p = q

ConfirmedUnminted ==
  \A q \in Request, s \in Session :
    (Confirming(q) /\ req[q].link \notin contested) => mintedFrom[s] # req[q].link

LinkInv == /\ MarkedUsed /\ MintedUsed /\ OneConfirmation /\ ConfirmedUnminted
           /\ OneSessionPerLink /\ LinkSpentOnSession

LEMMA InitLinks == Init => LinkInv
  <1> SUFFICES ASSUME Init PROVE LinkInv
    OBVIOUS
  <1>1. /\ \A q \in Request : req[q].at = "idle"
        /\ \A s \in Session : mintedFrom[s] = None
        /\ \A l \in Link : links[l] = None
    BY DEF Init, Idle
  <1>2. QED
    BY <1>1 DEF LinkInv, MarkedUsed, MintedUsed, OneConfirmation, ConfirmedUnminted,
                OneSessionPerLink, LinkSpentOnSession, Confirming

LEMMA NextLinks ==
  TypeOK /\ ConfirmsSent /\ MintedSent /\ LinkInv /\ [Next]_vars => LinkInv'
  <1> SUFFICES ASSUME TypeOK, ConfirmsSent, MintedSent, LinkInv, [Next]_vars
               PROVE  LinkInv'
    OBVIOUS
  <1> USE DEF tables, history
  <1>a. /\ \A q \in Request : Confirming(q) => req[q].link \in sent
        /\ \A s \in Session : mintedFrom[s] # None => mintedFrom[s] \in sent
        /\ \A l \in sent : l \in Link /\ links[l] \in LinkRow /\ l # None
        /\ None \notin Link
    BY SentRow DEF ConfirmsSent, MintedSent, TypeOK
  \* Steps that confirm nothing.
  <1>b. ASSUME mintedFrom' = mintedFrom, contested' = contested, broken' = broken,
               \A l \in sent : links'[l] = links[l],
               \A l \in Link : links'[l] # links[l] => links[l] = None /\ ~links'[l].used,
               \A q \in Request : \/ req'[q] = req[q]
                                  \/ req[q].at \in {"idle", "letin"} /\
                                     req'[q].at \in {"idle", "letin"}
        PROVE  LinkInv'
    <2>1. \A q \in Request : /\ Confirming(q)' <=> Confirming(q)
                             /\ Confirming(q) => req'[q] = req[q]
      BY <1>b DEF Confirming
    <2>2. \A q \in Request : req'[q].at = "consumed" =>
             Confirming(q) /\ req[q].at = "consumed" /\ req'[q] = req[q]
      BY <1>b, <2>1 DEF Confirming
    <2>3. MarkedUsed' /\ MintedUsed'
      BY <1>a, <1>b, <2>2 DEF LinkInv, MarkedUsed, MintedUsed, Used
    <2>4. OneConfirmation' /\ ConfirmedUnminted'
      BY <1>b, <2>1 DEF LinkInv, OneConfirmation, ConfirmedUnminted
    <2>5. OneSessionPerLink'
      BY <1>b DEF LinkInv, OneSessionPerLink
    <2>6. LinkSpentOnSession'
      BY <1>b, <2>1 DEF LinkInv, LinkSpentOnSession, ConfirmingLink
    <2>7. QED
      BY <2>3, <2>4, <2>5, <2>6 DEF LinkInv
  <1>1. CASE Tick \/ UNCHANGED vars
    BY <1>1, <1>b DEF Tick, vars
  <1>2. ASSUME NEW e \in Email, NEW l \in Link, StartLogin(e, l) PROVE LinkInv'
    <2>1. \A k \in sent : links'[k] = links[k]
      BY <1>2, <1>a DEF StartLogin, TypeOK, LinkRow
    <2>2. \A k \in Link : links'[k] # links[k] => links[k] = None /\ ~links'[k].used
      BY <1>2 DEF StartLogin, TypeOK
    <2>3. QED
      BY <1>2, <1>b, <2>1, <2>2 DEF StartLogin
  <1>3. ASSUME NEW q \in Request, NEW l \in Link, CheckLink(q, l) PROVE LinkInv'
    <2>1. /\ req[q] = Idle /\ l \in sent /\ ~Used(l) /\ ~Confirming(q)
          /\ req' = [req EXCEPT ![q] = [at |-> "checked", link |-> l]]
          /\ links' = links /\ mintedFrom' = mintedFrom /\ broken' = broken
          /\ contested' = IF \E p \in Request : ConfirmingLink(p, l)
                          THEN contested \cup {l} ELSE contested
      BY <1>3 DEF CheckLink, Used, Confirming, Idle
    <2>2. /\ \A p \in Request \ {q} : req'[p] = req[p]
          /\ req'[q] = [at |-> "checked", link |-> l]
      BY <2>1 DEF TypeOK
    <2>3. \A s \in Session : mintedFrom[s] # l
      BY <2>1, <1>a DEF LinkInv, MintedUsed
    <2>4. \A p \in Request \ {q} : Confirming(p)' <=> Confirming(p)
      BY <2>2 DEF Confirming
    <2>5. MarkedUsed' /\ MintedUsed'
      BY <2>1, <2>2 DEF LinkInv, MarkedUsed, MintedUsed, Used
    <2>6. OneConfirmation'
      BY <2>1, <2>2, <2>4 DEF LinkInv, OneConfirmation, ConfirmingLink
    <2>7. ConfirmedUnminted'
      BY <2>1, <2>2, <2>3, <2>4 DEF LinkInv, ConfirmedUnminted
    <2>8. OneSessionPerLink'
      BY <2>1 DEF LinkInv, OneSessionPerLink
    <2>9. LinkSpentOnSession'
      BY <2>1, <2>2, <2>4 DEF LinkInv, LinkSpentOnSession, ConfirmingLink
    <2>10. QED
      BY <2>5, <2>6, <2>7, <2>8, <2>9 DEF LinkInv
  <1>4. ASSUME NEW q \in Request, AdoptUser(q) PROVE LinkInv'
    <2>1. /\ req[q].at = "checked" /\ links' = links /\ mintedFrom' = mintedFrom
          /\ contested' = contested /\ broken' = broken
          /\ \A p \in Request \ {q} : req'[p] = req[p]
          /\ req'[q].at = "adopted" /\ req'[q].link = req[q].link
      BY <1>4 DEF AdoptUser, TypeOK
    <2>2. \A p \in Request : /\ Confirming(p)' <=> Confirming(p)
                             /\ Confirming(p) => req'[p].link = req[p].link
      BY <2>1 DEF Confirming
    <2>3. MarkedUsed' /\ MintedUsed' /\ OneSessionPerLink'
      BY <2>1 DEF LinkInv, MarkedUsed, MintedUsed, Used, OneSessionPerLink
    <2>4. OneConfirmation' /\ ConfirmedUnminted'
      BY <2>1, <2>2 DEF LinkInv, OneConfirmation, ConfirmedUnminted
    <2>5. LinkSpentOnSession'
      BY <2>1, <2>2 DEF LinkInv, LinkSpentOnSession, ConfirmingLink
    <2>6. QED
      BY <2>3, <2>4, <2>5 DEF LinkInv
  <1>5. ASSUME NEW q \in Request, ConsumeLink(q) PROVE LinkInv'
    <2> DEFINE l == req[q].link
    <2>1. /\ req[q].at = "adopted" /\ mintedFrom' = mintedFrom
          /\ contested' = contested /\ broken' = broken
          /\ \A p \in Request \ {q} : req'[p] = req[p]
          /\ req' = [req EXCEPT ![q] = [req[q] EXCEPT !.at = "consumed"]]
          /\ links' = [links EXCEPT ![l] = [links[l] EXCEPT !.used = TRUE]]
      BY <1>5 DEF ConsumeLink, TypeOK
    <2>2. req[q] = [at |-> "adopted", link |-> l, user |-> req[q].user]
      BY <2>1, RequestFields DEF TypeOK
    <2>3. req'[q].at = "consumed" /\ req'[q].link = l
      BY <2>1, <2>2 DEF TypeOK
    <2>4. Confirming(q) /\ l \in sent /\ l \in Link /\ links[l] \in LinkRow
      BY <2>1, <1>a DEF Confirming
    <2>5. /\ links'[l].used
          /\ \A k \in Link : k # l => links'[k] = links[k]
      BY <2>1, <2>4 DEF TypeOK, LinkRow
    <2>6. \A p \in Request : /\ Confirming(p)' <=> Confirming(p)
                             /\ Confirming(p) => req'[p].link = req[p].link
      BY <2>1, <2>3 DEF Confirming
    <2> HIDE DEF l
    <2>7. \A k \in Link : Used(k) => links'[k].used
      BY <2>5 DEF Used
    <2>8. MarkedUsed'
      <3>1. ASSUME NEW p \in Request, req'[p].at = "consumed"
            PROVE  links'[req'[p].link].used
        <4>1. CASE p = q
          BY <4>1, <2>3, <2>5
        <4>2. CASE p # q
          <5>1. req[p].at = "consumed" /\ req'[p] = req[p]
            BY <4>2, <3>1, <2>1
          <5>2. Used(req[p].link) /\ req[p].link \in Link
            BY <5>1, <1>a DEF LinkInv, MarkedUsed, Confirming
          <5>3. QED
            BY <5>1, <5>2, <2>7
        <4>3. QED
          BY <4>1, <4>2
      <3>2. QED
        BY <3>1 DEF MarkedUsed, Used
    <2>9. MintedUsed'
      BY <2>1, <2>7, <1>a DEF LinkInv, MintedUsed, Used
    <2>10. OneConfirmation' /\ ConfirmedUnminted' /\ OneSessionPerLink'
      BY <2>1, <2>6 DEF LinkInv, OneConfirmation, ConfirmedUnminted, OneSessionPerLink
    <2>11. LinkSpentOnSession'
      BY <2>1, <2>3, <2>4, <2>5, <2>6 DEF LinkInv, LinkSpentOnSession, ConfirmingLink
    <2>12. QED
      BY <2>8, <2>9, <2>10, <2>11 DEF LinkInv
  <1>6. ASSUME NEW q \in Request, NEW s \in Session, MintSession(q, s) PROVE LinkInv'
    <2> DEFINE l == req[q].link
    <2>1. /\ req[q].at = "consumed" /\ mintedFrom[s] = None /\ links' = links
          /\ contested' = contested /\ broken' = broken
          /\ \A p \in Request \ {q} : req'[p] = req[p]
          /\ req'[q] = Idle
          /\ mintedFrom' = [mintedFrom EXCEPT ![s] = l]
      BY <1>6 DEF MintSession, TypeOK
    <2>2. Confirming(q) /\ l \in sent /\ Used(l)
      BY <2>1, <1>a DEF Confirming, LinkInv, MarkedUsed
    <2>3. /\ \A p \in Request \ {q} : Confirming(p)' <=> Confirming(p)
          /\ ~Confirming(q)'
      BY <2>1 DEF Confirming, Idle
    <2>4. /\ \A t \in Session \ {s} : mintedFrom'[t] = mintedFrom[t]
          /\ mintedFrom'[s] = l
      BY <2>1 DEF TypeOK
    <2> HIDE DEF l
    <2>5. MarkedUsed' /\ MintedUsed'
      BY <2>1, <2>2, <2>3, <2>4 DEF LinkInv, MarkedUsed, MintedUsed, Used, Idle
    <2>6. OneConfirmation'
      BY <2>1, <2>3 DEF LinkInv, OneConfirmation
    <2>7. ConfirmedUnminted'
      BY <2>1, <2>2, <2>3, <2>4 DEF LinkInv, ConfirmedUnminted, OneConfirmation, l
    <2>8. OneSessionPerLink'
      BY <2>1, <2>2, <2>4 DEF LinkInv, OneSessionPerLink, ConfirmedUnminted, l
    <2>9. LinkSpentOnSession'
      <3> SUFFICES ASSUME NEW k \in Link, links[k] # None, links[k].used
                   PROVE  (\/ \E t \in Session : mintedFrom[t] = k
                           \/ k \in broken
                           \/ \E p \in Request : ConfirmingLink(p, k))'
        BY <2>1 DEF LinkSpentOnSession
      <3>1. CASE k = l
        BY <3>1, <2>4
      <3>2. CASE k # l
        BY <3>2, <2>1, <2>3, <2>4 DEF LinkInv, LinkSpentOnSession, ConfirmingLink, l
      <3>3. QED
        BY <3>1, <3>2
    <2>10. QED
      BY <2>5, <2>6, <2>7, <2>8, <2>9 DEF LinkInv
  <1>7. ASSUME NEW q \in Request, Fail(q) PROVE LinkInv'
    <2>1. /\ Confirming(q) /\ mintedFrom' = mintedFrom /\ links' = links
          /\ contested' = contested /\ broken' = broken \cup {req[q].link}
          /\ \A p \in Request \ {q} : req'[p] = req[p]
          /\ req'[q] = Idle
      BY <1>7 DEF Fail, TypeOK
    <2>2. /\ \A p \in Request \ {q} : Confirming(p)' <=> Confirming(p)
          /\ ~Confirming(q)'
      BY <2>1 DEF Confirming, Idle
    <2>3. MarkedUsed' /\ MintedUsed' /\ OneSessionPerLink'
      BY <2>1 DEF LinkInv, MarkedUsed, MintedUsed, Used, OneSessionPerLink, Idle
    <2>4. OneConfirmation' /\ ConfirmedUnminted'
      BY <2>1, <2>2 DEF LinkInv, OneConfirmation, ConfirmedUnminted
    <2>5. LinkSpentOnSession'
      BY <2>1, <2>2 DEF LinkInv, LinkSpentOnSession, ConfirmingLink
    <2>6. QED
      BY <2>3, <2>4, <2>5 DEF LinkInv
  <1>8. ASSUME NEW q \in Request, NEW s \in Session, NEW w \in Wish, NEW r \in Ref,
               LetIn(q, s, w, r)
        PROVE  LinkInv'
    <2>1. \A p \in Request : \/ req'[p] = req[p]
                             \/ req[p].at = "idle" /\ req'[p].at = "letin"
      BY <1>8 DEF LetIn, TypeOK, Idle
    <2>2. QED
      BY <1>8, <1>b, <2>1 DEF LetIn
  <1>9. ASSUME NEW q \in Request, HandleForm(q) PROVE LinkInv'
    <2>1. \A p \in Request : \/ req'[p] = req[p]
                             \/ req[p].at = "letin" /\ req'[p].at = "idle"
      BY <1>9 DEF HandleForm, TypeOK, Idle
    <2>2. QED
      BY <1>9, <1>b, <2>1 DEF HandleForm
  <1>10. ASSUME NEW s \in Session, Logout(s) PROVE LinkInv'
    BY <1>10, <1>b DEF Logout
  <1>11. QED
    BY <1>1, <1>2, <1>3, <1>4, <1>5, <1>6, <1>7, <1>8, <1>9, <1>10 DEF Next

(* However many requests open however many links, a link that was not      *)
(* opened twice at once gives one session, and no link is lost to anything *)
(* but a confirmation that failed.                                         *)
THEOREM LinksAreSpentOnce == Spec => [](OneSessionPerLink /\ LinkSpentOnSession)
  <1>1. SessionInv => MintedSent
    BY DEF SessionInv
  <1>2. LinkInv => OneSessionPerLink /\ LinkSpentOnSession
    BY DEF LinkInv
  <1>3. QED
    BY InitType, NextType, InitSession, NextSession, InitLinks, NextLinks,
       <1>1, <1>2, PTL DEF Spec

(* The half of it about losing links: a spent link has made a session,     *)
(* unless the confirmation that spent it failed.                           *)
THEOREM LinksBuySessions == Spec => []LinkSpentOnSession
  BY LinksAreSpentOnce, PTL

-----------------------------------------------------------------------------
(***************************************************************************)
(* Accounts implements LoginPromise: the step at which a confirmation that *)
(* nobody contests turns the link into a session is the last of its five   *)
(* statements.  Between the mark and that step the link is used in the     *)
(* table and not yet spent in the promise; no other request can tell.      *)
(***************************************************************************)
UnmarkedUnused ==
  \A q \in Request :
    (req[q].at \in {"checked", "adopted"} /\ req[q].link \notin contested)
      => ~Used(req[q].link)

Consumes(q, l) == req[q].at = "consumed" /\ req[q].link = l

LEMMA NextUnmarked ==
  TypeOK /\ ConfirmsSent /\ LinkInv /\ UnmarkedUnused /\ [Next]_vars
    => UnmarkedUnused'
  <1> SUFFICES ASSUME TypeOK, ConfirmsSent, LinkInv, UnmarkedUnused, [Next]_vars
               PROVE  UnmarkedUnused'
    OBVIOUS
  <1> USE DEF tables, history
  <1>a. \A q \in Request : Confirming(q) =>
           req[q].link \in sent /\ req[q].link \in Link /\ links[req[q].link] \in LinkRow
    BY ConfirmingRow
  \* Steps that mark no link and take up none.
  <1>b. ASSUME \A l \in sent : links'[l] = links[l],
               contested \subseteq contested',
               \A q \in Request : req'[q].at \in {"checked", "adopted"} =>
                 req[q].at \in {"checked", "adopted"} /\ req'[q].link = req[q].link
        PROVE  UnmarkedUnused'
    <2> SUFFICES ASSUME NEW q \in Request, req'[q].at \in {"checked", "adopted"},
                        req'[q].link \notin contested'
                 PROVE  ~links'[req'[q].link].used
      BY DEF UnmarkedUnused, Used
    <2>1. /\ req[q].at \in {"checked", "adopted"} /\ req'[q].link = req[q].link
          /\ req[q].link \notin contested /\ Confirming(q)
      BY <1>b DEF Confirming
    <2>2. ~links[req[q].link].used /\ req[q].link \in sent
      BY <2>1, <1>a DEF UnmarkedUnused, Used
    <2>3. QED
      BY <1>b, <2>1, <2>2
  <1>1. CASE Tick \/ UNCHANGED vars
    BY <1>1, <1>b DEF Tick, vars
  <1>2. ASSUME NEW e \in Email, NEW l \in Link, StartLogin(e, l) PROVE UnmarkedUnused'
    <2>1. l \notin sent /\ links' = [links EXCEPT ![l] = links'[l]]
      BY <1>2 DEF StartLogin, TypeOK
    <2>2. \A k \in sent : links'[k] = links[k]
      BY <2>1 DEF TypeOK
    <2>3. QED
      BY <1>2, <1>b, <2>2 DEF StartLogin
  <1>3. ASSUME NEW q \in Request, NEW l \in Link, CheckLink(q, l) PROVE UnmarkedUnused'
    <2>1. /\ links' = links /\ contested \subseteq contested' /\ ~Used(l)
          /\ \A p \in Request \ {q} : req'[p] = req[p]
          /\ req'[q] = [at |-> "checked", link |-> l]
      BY <1>3 DEF CheckLink, TypeOK, Used
    <2>2. QED
      BY <2>1 DEF UnmarkedUnused, Used
  <1>4. ASSUME NEW q \in Request, AdoptUser(q) PROVE UnmarkedUnused'
    <2>1. /\ links' = links /\ contested' = contested /\ req[q].at = "checked"
          /\ \A p \in Request \ {q} : req'[p] = req[p]
          /\ req'[q].link = req[q].link
      BY <1>4 DEF AdoptUser, TypeOK
    <2>2. QED
      BY <2>1, <1>b
  <1>5. ASSUME NEW q \in Request, ConsumeLink(q) PROVE UnmarkedUnused'
    <2> DEFINE l == req[q].link
    <2>1. /\ req[q].at = "adopted" /\ Confirming(q) /\ l \in Link
          /\ contested' = contested
          /\ links' = [links EXCEPT ![l] = [links[l] EXCEPT !.used = TRUE]]
          /\ req' = [req EXCEPT ![q] = [req[q] EXCEPT !.at = "consumed"]]
      BY <1>5, <1>a DEF ConsumeLink, Confirming
    <2>2. req[q] = [at |-> "adopted", link |-> l, user |-> req[q].user]
      BY <2>1, RequestFields DEF TypeOK
    <2> HIDE DEF l
    <2>3. /\ \A p \in Request \ {q} : req'[p] = req[p]
          /\ req'[q].at = "consumed"
          /\ \A k \in Link \ {l} : links'[k] = links[k]
      BY <2>1, <2>2 DEF TypeOK
    <2>4. ASSUME NEW p \in Request, req'[p].at \in {"checked", "adopted"},
                 req'[p].link \notin contested'
          PROVE  ~links'[req'[p].link].used
      <3>1. /\ p # q /\ req'[p] = req[p] /\ Confirming(p)
            /\ req[p].link \notin contested
        BY <2>1, <2>3, <2>4 DEF Confirming
      <3>2. req[p].link # l
        BY <2>1, <3>1 DEF LinkInv, OneConfirmation, l
      <3>3. ~links[req[p].link].used /\ req[p].link \in Link
        BY <2>4, <3>1, <1>a DEF UnmarkedUnused, Used
      <3>4. QED
        BY <2>3, <3>1, <3>2, <3>3
    <2>5. QED
      BY <2>4 DEF UnmarkedUnused, Used
  <1>6. ASSUME NEW q \in Request,
               (\E s \in Session : MintSession(q, s)) \/ Fail(q) \/ HandleForm(q)
        PROVE  UnmarkedUnused'
    <2>1. req' = [req EXCEPT ![q] = Idle] /\ links' = links /\ contested' = contested
      BY <1>6 DEF MintSession, Fail, HandleForm
    <2>2. \A p \in Request : req'[p] = IF p = q THEN Idle ELSE req[p]
      BY <2>1 DEF TypeOK
    <2>3. QED
      BY <1>b, <2>1, <2>2 DEF Idle
  <1>7. ASSUME NEW q \in Request, NEW s \in Session, NEW w \in Wish, NEW r \in Ref,
               LetIn(q, s, w, r)
        PROVE  UnmarkedUnused'
    <2>1. \A p \in Request : \/ req'[p] = req[p]
                             \/ req'[p].at = "letin"
      BY <1>7 DEF LetIn, TypeOK
    <2>2. QED
      BY <1>7, <1>b, <2>1 DEF LetIn
  <1>8. ASSUME NEW s \in Session, Logout(s) PROVE UnmarkedUnused'
    BY <1>8, <1>b DEF Logout
  <1>9. QED
    BY <1>1, <1>2, <1>3, <1>4, <1>5, <1>6, <1>7, <1>8 DEF Next

\* What the promise sees of the state.
Seen == <<Owner, Spent, contested, mintedFrom, SessionUser>>

(* A confirmation that ends gives up the link it had in hand.              *)
LEMMA LetGo ==
  ASSUME TypeOK, ConfirmsSent, LinkInv, NEW q \in Request, req[q].at = "consumed",
         req' = [req EXCEPT ![q] = Idle], links' = links, contested' = contested
  PROVE  /\ Spent' = Spent \cup {req[q].link}
         /\ req[q].link \notin Spent \ contested
  <1>0. Confirming(q) /\ req[q].link \in sent /\ req[q].link \in Link
    <2>1. Confirming(q)
      BY DEF Confirming
    <2>2. QED
      BY <2>1, ConfirmingRow
  <1>l. PICK l \in Link : l = req[q].link
    BY <1>0
  <1>1. /\ Confirming(q) /\ links[l] # None /\ links[l].used
        /\ Consumes(q, l)
    BY <1>0, <1>l DEF TypeOK, LinkInv, MarkedUsed, Used, Consumes
  <1>2. \A p \in Request : req'[p] = IF p = q THEN Idle ELSE req[p]
    BY DEF TypeOK
  <1>3. \A p \in Request : Confirming(p) /\ req[p].link = l /\ l \notin contested => p = q
    BY <1>1, <1>l DEF LinkInv, OneConfirmation
  <1>4. \A k \in Link : InHand(k) <=>
           k \notin contested /\ \E p \in Request : Consumes(p, k)
    BY DEF InHand, Consumes
  <1>5. \A k \in Link : InHand(k)' <=>
           k \notin contested /\ \E p \in Request \ {q} : Consumes(p, k)
    BY <1>2 DEF InHand, Consumes, Idle
  <1>6. \A p \in Request : Consumes(p, l) => Confirming(p) /\ req[p].link = l
    BY DEF Consumes, Confirming
  <1>7. \A k \in Link \ {l} : ~Consumes(q, k)
    BY <1>l DEF Consumes
  <1>8. ~InHand(l)' /\ (l \notin contested => InHand(l))
    BY <1>1, <1>3, <1>4, <1>5, <1>6
  <1>9. \A k \in Link \ {l} : InHand(k)' <=> InHand(k)
    BY <1>4, <1>5, <1>7
  <1>10. Spent' = Spent \cup {l}
    BY <1>1, <1>8, <1>9 DEF Spent
  <1>11. l \notin Spent \ contested
    BY <1>8 DEF Spent
  <1>12. QED
    BY <1>10, <1>11, <1>l

LEMMA InitLogin == Init => Login!Init
  BY DEF Init, Login!Init, Owner, Spent, SessionUser

LEMMA NextLogin ==
  TypeOK /\ ConfirmsSent /\ SessionInv /\ LinkInv /\ UnmarkedUnused /\ [Next]_vars
    => [Login!Next]_Seen
  <1> SUFFICES ASSUME TypeOK, ConfirmsSent, SessionInv, LinkInv, UnmarkedUnused,
                      [Next]_vars
               PROVE  [Login!Next]_Seen
    OBVIOUS
  <1> USE DEF tables, history
  <1>a. \A q \in Request : Confirming(q) =>
           /\ req[q].link \in sent /\ req[q].link \in Link /\ req[q].link # None
           /\ links[req[q].link] \in LinkRow
    BY ConfirmingRow
  <1>b. \A l \in sent : /\ l \in Link /\ links[l] # None
                        /\ Owner[l] = links[l].email /\ Owner[l] # None
    BY SentRow DEF TypeOK, Owner
  \* Steps that neither mark a link nor end a confirmation that did.
  <1>c. ASSUME links' = links, contested' = contested,
               \A q \in Request, l \in Link : Consumes(q, l)' <=> Consumes(q, l)
        PROVE  Spent' = Spent
    <2>1. \A l \in Link : InHand(l)' <=> InHand(l)
      BY <1>c DEF InHand, Consumes
    <2>2. QED
      BY <1>c, <2>1 DEF Spent
  \* Steps the promise does not see.
  <1>d. ASSUME links' = links, sent' = sent, sessions' = sessions,
               contested' = contested, mintedFrom' = mintedFrom,
               \A q \in Request, l \in Link : Consumes(q, l)' <=> Consumes(q, l)
        PROVE  [Login!Next]_Seen
    <2>1. Owner' = Owner /\ SessionUser' = SessionUser
      BY <1>d DEF Owner, SessionUser
    <2>2. Spent' = Spent
      BY <1>c, <1>d
    <2>3. QED
      BY <1>d, <2>1, <2>2 DEF Seen
  <1>1. CASE Tick \/ UNCHANGED vars
    <2>1. req' = req
      BY <1>1 DEF Tick, vars
    <2>2. QED
      BY <1>1, <2>1, <1>d DEF Tick, vars, Consumes
  <1>2. ASSUME NEW e \in Email, NEW l \in Link, StartLogin(e, l)
        PROVE  [Login!Next]_Seen
    <2>1. /\ links[l] = None /\ l \notin sent /\ req' = req
          /\ contested' = contested /\ mintedFrom' = mintedFrom /\ sessions' = sessions
          /\ sent' = sent \/ sent' = sent \cup {l}
          /\ \A k \in Link \ {l} : links'[k] = links[k]
          /\ ~links'[l].used /\ links'[l].email = e
      BY <1>2 DEF StartLogin, TypeOK
    <2>2. SessionUser' = SessionUser
      BY <2>1 DEF SessionUser
    <2>3. Spent' = Spent
      <3>1. \A k \in Link : InHand(k)' <=> InHand(k)
        BY <2>1 DEF InHand
      <3>2. QED
        BY <2>1, <3>1 DEF Spent
    <2>4. CASE sent' = sent
      <3>1. Owner' = Owner
        BY <2>1, <2>4 DEF Owner
      <3>2. QED
        BY <2>1, <2>2, <2>3, <3>1 DEF Seen
    <2>5. CASE sent' = sent \cup {l}
      <3>1. Owner[l] = None
        BY <2>1 DEF Owner
      <3>2. Owner' = [Owner EXCEPT ![l] = e]
        BY <2>1, <2>5 DEF Owner
      <3>3. Login!Mail(e, l)
        BY <2>1, <2>2, <2>3, <3>1, <3>2 DEF Login!Mail
      <3>4. QED
        BY <3>3 DEF Login!Next
    <2>6. QED
      BY <2>1, <2>4, <2>5
  <1>3. ASSUME NEW q \in Request, NEW l \in Link, CheckLink(q, l)
        PROVE  [Login!Next]_Seen
    <2>1. /\ l \in sent /\ ~links[l].used /\ req[q] = Idle
          /\ links' = links /\ sent' = sent /\ sessions' = sessions
          /\ mintedFrom' = mintedFrom
          /\ contested' = contested \/ contested' = contested \cup {l}
          /\ \A p \in Request \ {q} : req'[p] = req[p]
          /\ req'[q].at = "checked"
      BY <1>3 DEF CheckLink, TypeOK
    <2>2. \A p \in Request, k \in Link : Consumes(p, k)' <=> Consumes(p, k)
      BY <2>1 DEF Consumes, Idle
    <2>3. CASE contested' = contested
      BY <2>1, <2>2, <2>3, <1>d
    <2>4. CASE contested' = contested \cup {l}
      <3>1. Owner' = Owner /\ SessionUser' = SessionUser
        BY <2>1 DEF Owner, SessionUser
      <3>2. \A k \in Link \ {l} : InHand(k)' <=> InHand(k)
        BY <2>2, <2>4 DEF InHand, Consumes
      <3>3. Spent' = Spent /\ l \notin Spent
        BY <2>1, <3>2 DEF Spent
      <3>4. Login!Race(l)
        BY <1>b, <2>1, <2>4, <3>1, <3>3 DEF Login!Race
      <3>5. QED
        BY <1>b, <2>1, <3>4 DEF Login!Next
    <2>5. QED
      BY <2>1, <2>3, <2>4
  <1>4. ASSUME NEW q \in Request, AdoptUser(q) PROVE [Login!Next]_Seen
    <2>1. /\ req[q].at = "checked" /\ req'[q].at = "adopted"
          /\ \A p \in Request \ {q} : req'[p] = req[p]
      BY <1>4 DEF AdoptUser, TypeOK
    <2>2. QED
      BY <1>4, <2>1, <1>d DEF AdoptUser, Consumes
  <1>5. ASSUME NEW q \in Request, ConsumeLink(q) PROVE [Login!Next]_Seen
    <2>l. PICK l \in Link : l = req[q].link
      <3>1. Confirming(q)
        BY <1>5 DEF ConsumeLink, Confirming
      <3>2. QED
        BY <3>1, <1>a
    <2>1. /\ req[q].at = "adopted" /\ Confirming(q)
          /\ links' = [links EXCEPT ![l] = [links[l] EXCEPT !.used = TRUE]]
          /\ req' = [req EXCEPT ![q] = [req[q] EXCEPT !.at = "consumed"]]
          /\ sent' = sent /\ sessions' = sessions
          /\ contested' = contested /\ mintedFrom' = mintedFrom
      BY <1>5, <2>l DEF ConsumeLink, Confirming
    <2>2. l \in sent /\ l \in Link /\ links[l] \in LinkRow
      BY <1>a, <2>1, <2>l
    <2>3. req[q] = [at |-> "adopted", link |-> l, user |-> req[q].user]
      BY <2>1, <2>l, RequestFields DEF TypeOK
    <2>4. l \notin contested => ~links[l].used
      BY <2>1, <2>l DEF UnmarkedUnused, Used
    <2>5. /\ \A p \in Request \ {q} : req'[p] = req[p]
          /\ req'[q].at = "consumed" /\ req'[q].link = l
      BY <2>1, <2>3 DEF TypeOK
    <2>6. /\ \A k \in Link \ {l} : links'[k] = links[k]
          /\ links'[l].used /\ links'[l].email = links[l].email
          /\ links'[l] # None /\ links[l] # None
      BY <2>1, <2>2 DEF TypeOK, LinkRow
    <2>7. Owner' = Owner /\ SessionUser' = SessionUser
      BY <2>1, <2>6 DEF Owner, SessionUser
    <2>8. \A k \in Link \ {l} : InHand(k)' <=> InHand(k)
      <3>1. \A p \in Request, k \in Link \ {l} : Consumes(p, k)' <=> Consumes(p, k)
        BY <2>1, <2>3, <2>5 DEF Consumes
      <3>2. QED
        BY <2>1, <3>1 DEF InHand, Consumes
    <2>9. CASE l \notin contested
      <3>1. InHand(l)'
        BY <2>1, <2>5, <2>9 DEF InHand
      <3>2. Spent' = Spent
        BY <2>4, <2>6, <2>8, <2>9, <3>1 DEF Spent
      <3>3. QED
        BY <2>1, <2>7, <3>2 DEF Seen
    <2>10. CASE l \in contested
      <3>1. ~InHand(l) /\ ~InHand(l)'
        BY <2>1, <2>10 DEF InHand
      <3>2. Spent' = Spent \cup {l}
        BY <2>2, <2>6, <2>8, <3>1 DEF Spent
      <3>3. Login!Burn(l)
        BY <1>b, <2>1, <2>2, <2>7, <3>2 DEF Login!Burn
      <3>4. QED
        BY <2>2, <3>3 DEF Login!Next
    <2>11. QED
      BY <2>9, <2>10
  <1>6. ASSUME NEW q \in Request, NEW s \in Session, MintSession(q, s)
        PROVE  [Login!Next]_Seen
    <2> DEFINE l == req[q].link
               row == [user |-> req[q].user, expires |-> clock + SessionTTL]
    <2>1. /\ req[q].at = "consumed" /\ Confirming(q) /\ mintedFrom[s] = None
          /\ links' = links /\ sent' = sent /\ contested' = contested
          /\ mintedFrom' = [mintedFrom EXCEPT ![s] = l]
          /\ sessions' = [sessions EXCEPT ![s] = row]
          /\ req' = [req EXCEPT ![q] = Idle]
      BY <1>6 DEF MintSession, Confirming
    <2>2. l \in sent /\ l \in Link
      BY <1>a, <2>1
    <2>3. row.user = Owner[l] /\ row # None
      <3>1. row.user = links[l].email /\ req[q].user \in Email
        BY <2>1, RequestFields DEF SessionInv, AdoptedRight, TypeOK
      <3>2. row \in SessionRow
        BY <3>1 DEF SessionRow, TypeOK
      <3>3. QED
        BY <1>b, <2>2, <3>1, <3>2
    <2>4. Spent' = Spent \cup {l} /\ l \notin Spent \ contested
      BY <2>1, LetGo
    <2> HIDE DEF l, row
    <2>5. Owner' = Owner
      BY <2>1 DEF Owner
    <2>6. SessionUser' = [SessionUser EXCEPT ![s] = Owner[l]]
      <3>1. \A t \in Session : sessions'[t] = IF t = s THEN row ELSE sessions[t]
        BY <2>1 DEF TypeOK
      <3>2. QED
        BY <2>3, <3>1 DEF SessionUser
    <2>7. Login!Grant(l, s)
      BY <1>b, <2>1, <2>2, <2>4, <2>5, <2>6 DEF Login!Grant
    <2>8. QED
      BY <2>2, <2>7 DEF Login!Next
  <1>7. ASSUME NEW q \in Request, Fail(q) PROVE [Login!Next]_Seen
    <2>1. /\ Confirming(q) /\ req' = [req EXCEPT ![q] = Idle]
          /\ links' = links /\ sent' = sent /\ contested' = contested
          /\ mintedFrom' = mintedFrom /\ sessions' = sessions
      BY <1>7 DEF Fail
    <2>2. \A p \in Request : req'[p] = IF p = q THEN Idle ELSE req[p]
      BY <2>1 DEF TypeOK
    <2>3. CASE req[q].at # "consumed"
      <3>1. \A p \in Request, k \in Link : Consumes(p, k)' <=> Consumes(p, k)
        BY <2>2, <2>3 DEF Consumes, Idle
      <3>2. QED
        BY <2>1, <3>1, <1>d
    <2>4. CASE req[q].at = "consumed"
      <3>1. Spent' = Spent \cup {req[q].link}
        BY <2>1, <2>4, LetGo
      <3>2. Owner' = Owner /\ SessionUser' = SessionUser
        BY <2>1 DEF Owner, SessionUser
      <3>3. req[q].link \in sent /\ req[q].link \in Link
        BY <1>a, <2>1
      <3>4. Login!Burn(req[q].link)
        BY <1>b, <2>1, <3>1, <3>2, <3>3 DEF Login!Burn
      <3>5. QED
        BY <3>3, <3>4 DEF Login!Next
    <2>5. QED
      BY <2>3, <2>4
  <1>8. ASSUME NEW q \in Request, NEW s \in Session, NEW w \in Wish, NEW r \in Ref,
               LetIn(q, s, w, r)
        PROVE  [Login!Next]_Seen
    <2>1. /\ req[q] = Idle /\ req'[q].at = "letin"
          /\ \A p \in Request \ {q} : req'[p] = req[p]
      BY <1>8 DEF LetIn, TypeOK
    <2>2. \A p \in Request, k \in Link : Consumes(p, k)' <=> Consumes(p, k)
      BY <2>1 DEF Consumes, Idle
    <2>3. QED
      BY <1>8, <2>2, <1>d DEF LetIn
  <1>9. ASSUME NEW q \in Request, HandleForm(q) PROVE [Login!Next]_Seen
    <2>1. /\ req[q].at = "letin" /\ req'[q].at = "idle"
          /\ \A p \in Request \ {q} : req'[p] = req[p]
      BY <1>9 DEF HandleForm, TypeOK, Idle
    <2>2. \A p \in Request, k \in Link : Consumes(p, k)' <=> Consumes(p, k)
      BY <2>1 DEF Consumes
    <2>3. QED
      BY <1>9, <2>2, <1>d DEF HandleForm
  <1>10. ASSUME NEW s \in Session, Logout(s) PROVE [Login!Next]_Seen
    <2>1. /\ sessions' = [sessions EXCEPT ![s] = None] /\ req' = req
          /\ links' = links /\ sent' = sent /\ contested' = contested
          /\ mintedFrom' = mintedFrom
      BY <1>10 DEF Logout
    <2>2. Owner' = Owner /\ Spent' = Spent
      BY <2>1 DEF Owner, Spent, InHand
    <2>3. SessionUser' = [SessionUser EXCEPT ![s] = None]
      <3>1. \A t \in Session : sessions'[t] = IF t = s THEN None ELSE sessions[t]
        BY <2>1 DEF TypeOK
      <3>2. QED
        BY <3>1 DEF SessionUser
    <2>4. Login!End(s)
      BY <2>1, <2>2, <2>3 DEF Login!End
    <2>5. QED
      BY <2>4 DEF Login!Next
  <1>11. QED
    BY <1>1, <1>2, <1>3, <1>4, <1>5, <1>6, <1>7, <1>8, <1>9, <1>10 DEF Next

(* However requests interleave and fail, a confirmation that nobody else   *)
(* contests is as good as one step, and what it can do to a link and its   *)
(* session is what the promise allows.                                     *)
THEOREM LoginRefinement == Spec => KeepsLoginPromise
  <1>1. Init => UnmarkedUnused
    BY DEF Init, UnmarkedUnused, Idle
  <1>2. SessionInv => MintedSent
    BY DEF SessionInv
  <1>3. QED
    BY InitType, NextType, InitSession, NextSession, InitLinks, NextLinks,
       NextUnmarked, InitLogin, NextLogin, <1>1, <1>2, PTL
       DEF Spec, KeepsLoginPromise, Login!Spec, Login!state, Seen

-----------------------------------------------------------------------------
(* What RowsHaveOwners rests on: as long as no session was cut short, the  *)
(* cookie that a form was let in with still resolves.                      *)
LetInAlive ==
  cut \/ \A q \in Request : req[q].at = "letin" => Resolves(req[q].cookie)

SignedIn(u) ==
  \E s \in Session : mintedFrom[s] # None /\ links[mintedFrom[s]].email = u

RowInv == LetInAlive /\ RowsHaveOwners

LEMMA InitRows == Init => RowInv
  BY DEF Init, RowInv, LetInAlive, RowsHaveOwners, Idle

LEMMA NextRows ==
  TypeOK /\ ConfirmsSent /\ SessionInv /\ RowInv /\ [Next]_vars => RowInv'
  <1> SUFFICES ASSUME TypeOK, ConfirmsSent, SessionInv, RowInv, [Next]_vars
               PROVE  RowInv'
    OBVIOUS
  <1> USE DEF tables, history
  <1>a. /\ \A l \in sent : links'[l].email = links[l].email
        /\ \A s \in Session : mintedFrom[s] # None => mintedFrom[s] \in sent
    BY LinksKeepEmail DEF SessionInv, MintedSent
  \* Who signed in stays so, and steps that add no row keep the owners.
  <1>b. ASSUME \A s \in Session : mintedFrom[s] # None => mintedFrom'[s] = mintedFrom[s],
               NEW u, SignedIn(u)
        PROVE  SignedIn(u)'
    BY <1>a, <1>b DEF SignedIn
  <1>c. ASSUME \A s \in Session : mintedFrom[s] # None => mintedFrom'[s] = mintedFrom[s],
               watchlist' \cup reports' \subseteq watchlist \cup reports,
               cut => cut'
        PROVE  RowsHaveOwners'
    <2>1. cut \/ \A row \in watchlist \cup reports : SignedIn(row[1])
      BY DEF RowInv, RowsHaveOwners, SignedIn
    <2>2. cut' \/ \A row \in watchlist' \cup reports' : SignedIn(row[1])'
      BY <1>b, <1>c, <2>1
    <2>3. QED
      BY <2>2 DEF RowsHaveOwners, SignedIn
  \* Steps that let nobody in and leave the sessions alone.
  <1>d. ASSUME sessions' = sessions, clock' = clock, cut' = cut,
               \A q \in Request : req'[q].at = "letin" => req'[q] = req[q]
        PROVE  LetInAlive'
    BY <1>d DEF RowInv, LetInAlive, Resolves
  <1>1. CASE Tick
    <2>1. LetInAlive'
      <3> SUFFICES ASSUME ~cut', NEW q \in Request, req[q].at = "letin"
                   PROVE  sessions[req[q].cookie] # None
                          /\ sessions[req[q].cookie].expires > clock + 1
        BY <1>1 DEF Tick, LetInAlive, Resolves
      <3>1. ~cut /\ req[q].cookie \in Session /\ Resolves(req[q].cookie)
        BY <1>1, RequestFields DEF Tick, RowInv, LetInAlive, TypeOK
      <3>2. sessions[req[q].cookie].expires # clock + 1
        BY <1>1, <3>1 DEF Tick, LetInWith
      <3>3. sessions[req[q].cookie].expires \in Nat
        BY <3>1 DEF Resolves, TypeOK, SessionRow
      <3>4. QED
        BY <3>1, <3>2, <3>3 DEF Resolves, TypeOK
    <2>2. RowsHaveOwners'
      BY <1>1, <1>c DEF Tick
    <2>3. QED
      BY <2>1, <2>2 DEF RowInv
  <1>2. ASSUME NEW e \in Email, NEW l \in Link, StartLogin(e, l) PROVE RowInv'
    BY <1>2, <1>c, <1>d DEF StartLogin, RowInv
  <1>3. ASSUME NEW q \in Request, NEW l \in Link, CheckLink(q, l) PROVE RowInv'
    BY <1>3, <1>c, <1>d DEF CheckLink, RowInv, TypeOK
  <1>4. ASSUME NEW q \in Request, AdoptUser(q) PROVE RowInv'
    BY <1>4, <1>c, <1>d DEF AdoptUser, RowInv, TypeOK
  <1>5. ASSUME NEW q \in Request, ConsumeLink(q) PROVE RowInv'
    <2>1. req' = [req EXCEPT ![q] = [req[q] EXCEPT !.at = "consumed"]]
          /\ req[q].at = "adopted" /\ req[q] \in RequestState
      BY <1>5 DEF ConsumeLink, TypeOK
    <2>2. [req[q] EXCEPT !.at = "consumed"].at # "letin"
      BY <2>1 DEF RequestState, Idle
    <2>3. \A p \in Request : req'[p].at = "letin" => req'[p] = req[p]
      BY <2>1, <2>2 DEF TypeOK
    <2>4. QED
      BY <1>5, <1>c, <1>d, <2>3 DEF ConsumeLink, RowInv
  <1>6. ASSUME NEW q \in Request, NEW s \in Session, MintSession(q, s) PROVE RowInv'
    <2>1. /\ mintedFrom[s] = None /\ sessions[s] = None
          /\ \A t \in Session \ {s} : /\ mintedFrom'[t] = mintedFrom[t]
                                      /\ sessions'[t] = sessions[t]
          /\ \A p \in Request : req'[p].at = "letin" => req'[p] = req[p]
          /\ clock' = clock /\ cut' = cut
          /\ watchlist' = watchlist /\ reports' = reports
      BY <1>6 DEF MintSession, SessionInv, NoneUnminted, TypeOK, Idle
    <2>2. LetInAlive'
      <3> SUFFICES ASSUME ~cut, NEW p \in Request, req'[p].at = "letin"
                   PROVE  Resolves(req[p].cookie)'
        BY <2>1 DEF LetInAlive
      <3>1. req'[p] = req[p] /\ req[p].cookie \in Session /\ Resolves(req[p].cookie)
        BY <2>1, RequestFields DEF RowInv, LetInAlive, TypeOK
      <3>2. req[p].cookie # s
        BY <2>1, <3>1 DEF Resolves
      <3>3. QED
        BY <2>1, <3>1, <3>2 DEF Resolves
    <2>3. RowsHaveOwners'
      BY <2>1, <1>c
    <2>4. QED
      BY <2>2, <2>3 DEF RowInv
  <1>7. ASSUME NEW q \in Request, Fail(q) PROVE RowInv'
    BY <1>7, <1>c, <1>d DEF Fail, RowInv, TypeOK, Idle
  <1>8. ASSUME NEW q \in Request, NEW s \in Session, NEW w \in Wish, NEW r \in Ref,
               LetIn(q, s, w, r)
        PROVE  RowInv'
    <2>1. LetInAlive'
      BY <1>8 DEF LetIn, RowInv, LetInAlive, Resolves, TypeOK
    <2>2. RowsHaveOwners'
      BY <1>8, <1>c DEF LetIn
    <2>3. QED
      BY <2>1, <2>2 DEF RowInv
  <1>9. ASSUME NEW q \in Request, HandleForm(q) PROVE RowInv'
    <2> DEFINE c == req[q].cookie
               row == <<CurrentUser(c), req[q].ref>>
    <2>1. /\ req[q].at = "letin" /\ c \in Session
          /\ cut' = cut /\ mintedFrom' = mintedFrom /\ links' = links
      BY <1>9, RequestFields DEF HandleForm, TypeOK
    <2>2. watchlist' \cup reports' \subseteq watchlist \cup reports \cup {row}
      <3> PICK enforced \in BOOLEAN :
            LET rows == IF enforced /\ row[1] = Nobody THEN {} ELSE {row}
            IN  /\ watchlist' = CASE req[q].wish = "watch"   -> watchlist \cup rows
                                  [] req[q].wish = "unwatch" -> watchlist \ {row}
                                  [] OTHER                   -> watchlist
                /\ reports' = IF req[q].wish = "report" THEN reports \cup rows
                              ELSE reports
        BY <1>9 DEF HandleForm
      <3> HIDE DEF row
      <3> QED
        OBVIOUS
    <2>3. ~cut => SignedIn(row[1])
      <3> SUFFICES ASSUME ~cut PROVE SignedIn(row[1])
        OBVIOUS
      <3>1. Resolves(c)
        BY <2>1 DEF RowInv, LetInAlive
      <3>2. row[1] = sessions[c].user
        BY <3>1 DEF CurrentUser
      <3>3. /\ mintedFrom[c] \in sent /\ None \notin sent
            /\ sessions[c].user = links[mintedFrom[c]].email
        BY <3>1, <2>1 DEF SessionInv, SessionIsForItsAddress, Resolves, TypeOK
      <3>4. QED
        BY <2>1, <3>2, <3>3 DEF SignedIn
    <2> HIDE DEF row, c
    <2>4. cut \/ \A x \in watchlist \cup reports : SignedIn(x[1])
      BY DEF RowInv, RowsHaveOwners, SignedIn
    <2>5. RowsHaveOwners'
      <3>1. cut \/ \A x \in watchlist' \cup reports' : SignedIn(x[1])
        BY <2>2, <2>3, <2>4
      <3>2. QED
        BY <2>1, <3>1 DEF RowsHaveOwners, SignedIn
    <2>6. LetInAlive'
      BY <1>9, <1>d DEF HandleForm, TypeOK, Idle
    <2>7. QED
      BY <2>5, <2>6 DEF RowInv
  <1>10. ASSUME NEW s \in Session, Logout(s) PROVE RowInv'
    <2>1. LetInAlive'
      <3> SUFFICES ASSUME ~cut', NEW q \in Request, req[q].at = "letin"
                   PROVE  Resolves(req[q].cookie)'
        BY <1>10 DEF Logout, LetInAlive
      <3>1. ~cut /\ req[q].cookie \in Session /\ Resolves(req[q].cookie)
        BY <1>10, RequestFields DEF Logout, RowInv, LetInAlive, TypeOK
      <3>2. req[q].cookie # s
        BY <1>10 DEF Logout, LetInWith
      <3>3. QED
        BY <1>10, <3>1, <3>2 DEF Logout, Resolves, TypeOK
    <2>2. RowsHaveOwners'
      BY <1>10, <1>c DEF Logout
    <2>3. QED
      BY <2>1, <2>2 DEF RowInv
  <1>11. CASE UNCHANGED vars
    BY <1>11, <1>c, <1>d DEF vars, RowInv
  <1>12. QED
    BY <1>1, <1>2, <1>3, <1>4, <1>5, <1>6, <1>7, <1>8, <1>9, <1>10, <1>11 DEF Next

(* As long as no session ended under a form, every row of the watchlist    *)
(* and of the reports is somebody's who signed in.                         *)
THEOREM RowsAreOwned == Spec => []RowsHaveOwners
  <1>1. RowInv => RowsHaveOwners
    BY DEF RowInv
  <1>2. QED
    BY InitType, NextType, InitSession, NextSession, InitRows, NextRows,
       <1>1, PTL DEF Spec
=============================================================================
