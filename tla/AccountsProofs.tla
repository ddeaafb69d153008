-------------------------- MODULE AccountsProofs --------------------------
(***************************************************************************)
(* For any number of passwords, sessions, links, invites and overlapping   *)
(* requests: sessions are explained by the password, links and invites     *)
(* work once, and valid links are bounded by the requests.                 *)
(***************************************************************************)
EXTENDS Accounts, FiniteSetTheorems, TLAPS

(* Every value a step writes has its type, whatever requests overlap.      *)
THEOREM TypeCorrect == Spec => []TypeOK
<1>1. Init => TypeOK
  <2> SUFFICES ASSUME Init PROVE TypeOK
    OBVIOUS
  <2>1. user \in UserRow
    <3>1. CASE user = [stage |-> "absent", password |-> None, member |-> FALSE, elsewhere |-> FALSE]
      BY <3>1 DEF UserRow
    <3>2. ASSUME NEW p \in Passwords,
                 user = [stage |-> "active", password |-> p, member |-> FALSE, elsewhere |-> TRUE]
          PROVE  user \in UserRow
      BY <3>2, AccountsAssumption DEF UserRow
    <3> QED BY <3>1, <3>2 DEF Init
  <2>2. Idle \in Request
    BY DEF Idle, Request
  <2> QED
    BY <2>1, <2>2 DEF Init, TypeOK, LinkStates, InviteStates, Races
<1>2. TypeOK /\ [Next]_vars => TypeOK'
  <2> SUFFICES ASSUME TypeOK, [Next]_vars PROVE TypeOK'
    OBVIOUS
  <2> USE DEF TypeOK
  <2>begin. ASSUME NEW r \in Requests, NEW q \in Request, Begin(r, q) PROVE TypeOK'
    BY <2>begin DEF Begin
  <2>end. ASSUME NEW r \in Requests, End(r) PROVE request' \in [Requests -> Request]
    BY <2>end DEF End, Idle, Request
  <2>race. /\ \A r \in Requests, x \in Races : [race EXCEPT ![r] = x] \in [Requests -> Races]
           /\ LoginsRace => race' \in [Requests -> Races]
           /\ LoginsOvertaken => race' \in [Requests -> Races]
           /\ \A x \in Races : LoginsSettle(x) => race' \in [Requests -> Races]
    BY DEF LoginsRace, LoginsOvertaken, LoginsSettle, Settled, Races
  <2>live. \A s \in Live : session[s] \in SessionRow
    BY DEF Live
  <2>delete. ASSUME NEW r \in Requests, NEW q \in Request, DeleteSessions(r, q) PROVE TypeOK'
    BY <2>delete, <2>race DEF DeleteSessions
  <2>commit. ASSUME NEW r \in Requests, request[r].step \in Replacing, NEW kept,
                    CommitPassword(r, kept)
             PROVE  /\ user' \in UserRow
                    /\ session' \in [Sessions -> SessionRow \cup {None}]
                    /\ race' \in [Requests -> Races]
                    /\ request' \in [Requests -> Request]
    <3>1. request[r].password \in Passwords
      BY <2>commit DEF Request, Replacing
    <3>2. user' \in UserRow
      BY <2>commit, <3>1, AccountsAssumption DEF CommitPassword, UserRow
    <3>3. ASSUME NEW s \in Sessions PROVE session'[s] \in SessionRow \cup {None}
      <4>1. CASE session[s] = None \/ s \in request[r].gone
        BY <2>commit, <4>1 DEF CommitPassword
      <4>2. CASE session[s] # None /\ s \notin request[r].gone /\ s \in kept
        BY <2>commit, <3>1, <4>2 DEF CommitPassword, SessionRow, Races
      <4>3. CASE session[s] # None /\ s \notin request[r].gone /\ s \notin kept
        <5>1. session'[s] = [session[s] EXCEPT !.race = Settled(session[s].race, "overtaken")]
          BY <2>commit, <4>3 DEF CommitPassword
        <5> QED BY <4>3, <5>1 DEF SessionRow, Settled, Races
      <4> QED BY <4>1, <4>2, <4>3
    <3>4. session' \in [Sessions -> SessionRow \cup {None}]
      BY <2>commit, <3>3 DEF CommitPassword
    <3> QED BY <2>commit, <2>end, <2>race, <3>2, <3>4 DEF CommitPassword, Races
  <2>1. ASSUME NEW r \in Requests, CheckLogin(r) PROVE TypeOK'
    <3>1. user.password \in Passwords
      BY <2>1, AccountsAssumption DEF CheckLogin, CanLogIn, UserRow
    <3>2. [step |-> "login", password |-> user.password] \in Request
      BY <3>1 DEF Request
    <3> QED BY <2>1, <2>race, <3>2 DEF CheckLogin, Races
  <2>2. ASSUME NEW r \in Requests, CreateSession(r) PROVE TypeOK'
    <3>1. [password |-> request[r].password, race |-> race[r]] \in SessionRow
      BY <2>2 DEF CreateSession, Request, SessionRow
    <3> QED BY <2>2, <2>end, <2>race, <3>1 DEF CreateSession, Races
  <2>3. ASSUME NEW r \in Requests, CheckChange(r) PROVE TypeOK'
    BY <2>3, <2>begin DEF CheckChange, Request
  <2>4. ASSUME NEW r \in Requests, NEW p \in Passwords, DeleteOtherSessions(r, p) PROVE TypeOK'
    <3>1. [step |-> "changing", session |-> request[r].session, password |-> p,
           gone |-> Live \ {request[r].session}] \in Request
      BY <2>4 DEF DeleteOtherSessions, Request, Live
    <3> QED BY <2>4, <2>delete, <3>1 DEF DeleteOtherSessions
  <2>4a. ASSUME NEW r \in Requests, UpdateOwnPassword(r) PROVE TypeOK'
    BY <2>4a, <2>commit DEF UpdateOwnPassword, Replacing
  <2>5. ASSUME NEW r \in Requests, BeginForget(r) PROVE TypeOK'
    <3>1. [step |-> "forget", seen |-> Unspent] \in Request
      BY DEF Unspent, Request
    <3> QED BY <2>5, <3>1, <2>begin DEF BeginForget
  <2>6. ASSUME NEW r \in Requests, CommitForget(r) PROVE TypeOK'
    BY <2>6, <2>end DEF CommitForget, LinkStates
  <2>7. ASSUME NEW r \in Requests, BeginReset(r) PROVE TypeOK'
    BY <2>7, <2>begin DEF BeginReset, Valid, Request
  <2>8. ASSUME NEW r \in Requests, NEW p \in Passwords, DeleteAllSessions(r, p) PROVE TypeOK'
    <3>1. [step |-> "resetting", link |-> request[r].link, password |-> p, gone |-> Live] \in Request
      BY <2>8 DEF DeleteAllSessions, Request, Live
    <3> QED BY <2>8, <2>delete, <3>1 DEF DeleteAllSessions
  <2>8a. ASSUME NEW r \in Requests, CommitReset(r) PROVE TypeOK'
    BY <2>8a, <2>commit DEF CommitReset, LinkStates, Replacing
  <2>9. ASSUME NEW r \in Requests, BeginAccept(r) PROVE TypeOK'
    BY <2>9, <2>begin DEF BeginAccept, Request
  <2>10. ASSUME NEW r \in Requests, NEW p \in Passwords, CommitAccept(r, p) PROVE TypeOK'
    <3>1. user' \in UserRow
      BY AccountsAssumption, <2>10 DEF CommitAccept, UserRow
    <3>2. session' \in [Sessions -> SessionRow \cup {None}]
      BY <2>10 DEF CommitAccept, SessionRow, Races
    <3> QED BY <2>10, <2>end, <2>race, <3>1, <3>2 DEF CommitAccept, InviteStates
  <2>11. ASSUME NEW r \in Requests, BeginResend(r) PROVE TypeOK'
    BY <2>11, <2>begin DEF BeginResend, Request
  <2>12. ASSUME NEW r \in Requests, CommitResend(r) PROVE TypeOK'
    <3>1. request[r].invite \in Invites
      BY <2>12 DEF CommitResend, Request
    <3> QED BY <2>12, <2>end, <3>1 DEF CommitResend
  <2>13. ASSUME NEW r \in Requests, Abort(r) PROVE TypeOK'
    BY <2>13, <2>end, <2>race DEF Abort, Races
  <2>13a. ASSUME NEW r \in Requests, Rollback(r) PROVE TypeOK'
    <3>1. session' \in [Sessions -> SessionRow \cup {None}]
      BY <2>13a DEF Rollback, SessionRow, Settled, Races
    <3> QED BY <2>13a, <2>end, <2>race, <3>1 DEF Rollback, Races
  <2>14. ASSUME NEW s \in Sessions, EndSession(s) PROVE TypeOK'
    BY <2>14 DEF EndSession
  <2>15. ASSUME NEW l \in Links, ExpireLink(l) PROVE TypeOK'
    BY <2>15 DEF ExpireLink, LinkStates
  <2>16. ASSUME NEW i \in Invites, CreateInvite(i) \/ RevokeInvite(i) \/ ExpireInvite(i)
         PROVE  TypeOK'
    BY <2>16 DEF CreateInvite, RevokeInvite, ExpireInvite, InviteStates
  <2>17. ASSUME NEW i \in Invites, CooldownOver(i) PROVE TypeOK'
    BY <2>17 DEF CooldownOver
  <2>18. ASSUME NEW p \in Passwords, CreateMember(p) PROVE TypeOK'
    BY AccountsAssumption, <2>18 DEF CreateMember, UserRow
  <2>19. ASSUME NEW r \in Requests, NEW p \in Passwords, DeleteMemberSessions(r, p) PROVE TypeOK'
    <3>1. [step |-> "replacing", password |-> p, gone |-> Live] \in Request
      BY DEF Request, Live
    <3> QED BY <2>19, <2>delete, <3>1 DEF DeleteMemberSessions
  <2>19a. ASSUME NEW r \in Requests, ResetMemberPassword(r) PROVE TypeOK'
    BY <2>19a, <2>commit DEF ResetMemberPassword, Replacing
  <2>20. ASSUME Deactivate PROVE TypeOK'
    BY <2>20, <2>race DEF Deactivate, UserRow, NoSessions
  <2>20a. ASSUME Reactivate PROVE TypeOK'
    BY <2>20a DEF Reactivate, UserRow
  <2>21. CASE UNCHANGED vars
    BY <2>21 DEF vars
  <2> QED
    BY <2>1, <2>2, <2>3, <2>4, <2>4a, <2>5, <2>6, <2>7, <2>8, <2>8a, <2>9, <2>10, <2>11, <2>12,
       <2>13, <2>13a, <2>14, <2>15, <2>16, <2>17, <2>18, <2>19, <2>19a, <2>20, <2>20a, <2>21
       DEF Next
<1> QED BY <1>1, <1>2, PTL DEF Spec

----------------------------------------------------------------------------
(* A change of the password that still has its session belongs to an       *)
(* active account: the session it keeps is explained by what it writes.    *)
ChangersAreActive ==
    \A r \in Requests :
        request[r].step \in {"change", "changing"} /\ request[r].session \in Live
          => user.stage = "active"

(* A login that nothing has overtaken knows the password.                  *)
LoginsCurrent ==
    \A r \in Requests : request[r].step = "login" /\ race[r] # "overtaken" =>
        user.stage = "active" /\ request[r].password = user.password

(* The session that a change of the password keeps. *)
Own(r) == {s \in Sessions : request[r].step = "changing" /\ request[r].session = s}

(* While a password is being replaced, a session outside of its races is   *)
(* deleted or kept, and no login is outside of them.                       *)
WindowInv ==
    \A w \in Requests : request[w].step \in Replacing =>
        /\ \A s \in Live : session[s].race = "clear" => s \in request[w].gone \cup Own(w)
        /\ \A r \in Requests : request[r].step = "login" => race[r] # "clear"

OneWriter ==
    \A v, w \in Requests :
        request[v].step \in Replacing /\ request[w].step \in Replacing => v = w

SessionInv ==
    SessionsExplained /\ ChangersAreActive /\ LoginsCurrent /\ WindowInv /\ OneWriter

(* The steps of requests that begin or end and are no login leave the      *)
(* sessions explained.                                                     *)
LEMMA OtherRequestKeepsSessions ==
    ASSUME TypeOK, SessionInv, NEW r \in Requests, UNCHANGED <<user, session>>,
           NEW q, request' = [request EXCEPT ![r] = q],
           q.step \notin Replacing \cup {"login"},
           race' \in {race, [race EXCEPT ![r] = "clear"]},
           q.step = "change" => user.stage = "active"
    PROVE  SessionInv'
<1>1. /\ request'[r] = q
      /\ \A x \in Requests \ {r} : request'[x] = request[x] /\ race'[x] = race[x]
      /\ Live' = Live
  BY DEF TypeOK, Live
<1>2. SessionsExplained'
  BY <1>1 DEF SessionInv, SessionsExplained
<1>3. ChangersAreActive'
  BY <1>1 DEF SessionInv, ChangersAreActive, Replacing
<1>4. LoginsCurrent'
  BY <1>1 DEF SessionInv, LoginsCurrent
<1>5. WindowInv'
  <2> SUFFICES ASSUME NEW w \in Requests, request'[w].step \in Replacing
               PROVE  /\ \A s \in Live : session[s].race = "clear" => s \in request'[w].gone \cup Own(w)'
                      /\ \A x \in Requests : request'[x].step = "login" => race'[x] # "clear"
    BY <1>1 DEF WindowInv
  <2>1. w # r /\ request'[w] = request[w] /\ Own(w)' = Own(w)
    BY <1>1 DEF Own
  <2> QED BY <1>1, <2>1 DEF SessionInv, WindowInv
<1>6. OneWriter'
  BY <1>1 DEF SessionInv, OneWriter
<1> QED BY <1>2, <1>3, <1>4, <1>5, <1>6 DEF SessionInv

(* A deletion of the sessions opens a window in which no login and no      *)
(* session is clear but those it has found and, perhaps, the one it keeps. *)
LEMMA DeletionKeepsSessions ==
    ASSUME TypeOK, SessionInv, NEW r \in Requests, NEW q, DeleteSessions(r, q),
           q.step \in Replacing,
           Live \subseteq q.gone \cup {s \in Sessions : q.step = "changing" /\ q.session = s},
           q.step = "changing" => request[r].step = "change" /\ request[r].session = q.session
    PROVE  SessionInv'
<1>1. /\ request'[r] = q
      /\ \A x \in Requests \ {r} : request'[x] = request[x]
      /\ \A x \in Requests : request[x].step \notin Replacing
      /\ Live' = Live
      /\ UNCHANGED <<user, session>>
      /\ \A x \in Requests :
           race'[x] = IF request[x].step = "login" /\ race[x] = "clear" THEN "racing" ELSE race[x]
  BY DEF DeleteSessions, UserLocked, LoginsRace, TypeOK, Live
<1>2. SessionsExplained'
  BY <1>1 DEF SessionInv, SessionsExplained
<1>3. ChangersAreActive'
  BY <1>1 DEF SessionInv, ChangersAreActive, Replacing
<1>4. LoginsCurrent'
  BY <1>1 DEF SessionInv, LoginsCurrent, Replacing
<1>5. WindowInv'
  <2> SUFFICES ASSUME NEW w \in Requests, request'[w].step \in Replacing
               PROVE  /\ \A s \in Live : session[s].race = "clear" => s \in request'[w].gone \cup Own(w)'
                      /\ \A x \in Requests : request'[x].step = "login" => race'[x] # "clear"
    BY <1>1 DEF WindowInv
  <2>1. w = r
    BY <1>1
  <2>2. Own(r)' = {s \in Sessions : q.step = "changing" /\ q.session = s}
    BY <1>1 DEF Own
  <2>3. \A x \in Requests : request'[x].step = "login" => race'[x] # "clear"
    BY <1>1 DEF Replacing
  <2> QED BY <1>1, <2>1, <2>2, <2>3
<1>6. OneWriter'
  BY <1>1 DEF OneWriter
<1> QED BY <1>2, <1>3, <1>4, <1>5, <1>6 DEF SessionInv

(* The commit of a new password: what it did not delete or keep came in    *)
(* between and is overtaken, and so are the logins.                        *)
LEMMA CommitKeepsSessions ==
    ASSUME TypeOK, SessionInv, NEW r \in Requests, NEW kept, CommitPassword(r, kept),
           request[r].step \in Replacing, kept = Own(r)
    PROVE  SessionInv'
<1> DEFINE p == request[r].password
<1>1. /\ request'[r] = Idle
      /\ \A x \in Requests \ {r} : request'[x] = request[x]
      /\ \A x \in Requests : request'[x].step \notin Replacing
  BY DEF CommitPassword, End, TypeOK, Idle, Replacing, SessionInv, OneWriter
<1>2. user'.stage = user.stage /\ user'.password = p
  BY DEF CommitPassword, TypeOK, UserRow
<1>3. ASSUME NEW s \in Live'
      PROVE  /\ s \in Live
             /\ s \notin request[r].gone
             /\ s \notin kept =>
                  session'[s] = [session[s] EXCEPT !.race = Settled(session[s].race, "overtaken")]
  BY <1>3 DEF CommitPassword, Live
<1>3a. ASSUME NEW s \in Live', s \in kept
       PROVE  session'[s] = [password |-> p, race |-> "clear"]
  BY <1>3a DEF CommitPassword, Live
<1>4. SessionsExplained'
  <2> SUFFICES ASSUME NEW s \in Live', session'[s].race # "overtaken"
               PROVE  user'.stage = "active" /\ session'[s].password = user'.password
    BY DEF SessionsExplained
  <2>1. CASE s \in kept
    <3>1. request[r].step = "changing" /\ request[r].session = s
      BY <2>1 DEF Own
    <3>2. user.stage = "active"
      BY <1>3, <3>1 DEF SessionInv, ChangersAreActive
    <3>3. session'[s].password = p
      BY <1>3a, <2>1
    <3> QED BY <1>2, <3>2, <3>3
  <2>2. CASE s \notin kept
    <3>1. session[s] \in SessionRow
      BY <1>3 DEF Live, TypeOK
    <3>2. session'[s].race = Settled(session[s].race, "overtaken")
      BY <1>3, <2>2, <3>1 DEF SessionRow
    <3>3. session[s].race = "clear"
      BY <3>1, <3>2 DEF Settled, SessionRow, Races
    <3>4. s \in request[r].gone \cup Own(r)
      BY <1>3, <3>3 DEF SessionInv, WindowInv
    <3> QED BY <1>3, <2>2, <3>4
  <2> QED BY <2>1, <2>2
<1>5. ChangersAreActive'
  <2>1. Live' \subseteq Live
    BY <1>3
  <2> QED BY <1>1, <1>2, <2>1 DEF SessionInv, ChangersAreActive, Idle
<1>6. LoginsCurrent'
  <2> SUFFICES ASSUME NEW x \in Requests, request'[x].step = "login", race'[x] # "overtaken"
               PROVE  FALSE
    BY DEF LoginsCurrent
  <2>1. x # r /\ request[x].step = "login"
    BY <1>1 DEF Idle
  <2>2. race[x] # "clear" /\ race[x] \in Races
    BY <2>1 DEF SessionInv, WindowInv, TypeOK
  <2>3. race'[x] = Settled(race[x], "overtaken")
    BY DEF CommitPassword, LoginsSettle
  <2> QED BY <2>2, <2>3 DEF Settled, Races
<1>7. WindowInv' /\ OneWriter'
  BY <1>1 DEF WindowInv, OneWriter
<1> QED BY <1>4, <1>5, <1>6, <1>7 DEF SessionInv

(* A rollback ends the races it began, and nothing is overtaken.           *)
LEMMA RollbackKeepsSessions ==
    ASSUME TypeOK, SessionInv, NEW r \in Requests, Rollback(r)
    PROVE  SessionInv'
<1>1. /\ request'[r] = Idle
      /\ \A x \in Requests \ {r} : request'[x] = request[x]
      /\ \A x \in Requests : request'[x].step \notin Replacing
      /\ user' = user
      /\ \A x \in Requests : race'[x] = Settled(race[x], "clear")
  BY DEF Rollback, LoginsSettle, End, TypeOK, Idle, Replacing, SessionInv, OneWriter
<1>2. ASSUME NEW s \in Live'
      PROVE  /\ s \in Live
             /\ session'[s].password = session[s].password
             /\ session'[s].race # "overtaken" => session[s].race # "overtaken"
  <2>1. s \in Live /\ session'[s] = [session[s] EXCEPT !.race = Settled(session[s].race, "clear")]
    BY <1>2 DEF Rollback, Live
  <2>2. session[s] \in SessionRow
    BY <2>1 DEF Live, TypeOK
  <2> QED BY <2>1, <2>2 DEF SessionRow, Settled
<1>3. SessionsExplained'
  BY <1>1, <1>2 DEF SessionInv, SessionsExplained
<1>4. ChangersAreActive'
  <2>1. Live' \subseteq Live
    BY <1>2
  <2> QED BY <1>1, <2>1 DEF SessionInv, ChangersAreActive, Idle
<1>5. LoginsCurrent'
  BY <1>1 DEF SessionInv, LoginsCurrent, Settled, Idle
<1>6. WindowInv' /\ OneWriter'
  BY <1>1 DEF WindowInv, OneWriter
<1> QED BY <1>3, <1>4, <1>5, <1>6 DEF SessionInv

LEMMA LoginKeepsSessions ==
    ASSUME TypeOK, SessionInv, NEW r \in Requests, CheckLogin(r)
    PROVE  SessionInv'
<1>1. /\ request'[r] = [step |-> "login", password |-> user.password]
      /\ \A x \in Requests \ {r} : request'[x] = request[x] /\ race'[x] = race[x]
      /\ race'[r] = IF UserLocked THEN "racing" ELSE "clear"
      /\ UNCHANGED <<user, session>> /\ Live' = Live
      /\ user.stage = "active"
  BY DEF CheckLogin, TypeOK, Live, CanLogIn
<1>2. SessionsExplained'
  BY <1>1 DEF SessionInv, SessionsExplained
<1>3. ChangersAreActive'
  BY <1>1 DEF SessionInv, ChangersAreActive
<1>4. LoginsCurrent'
  BY <1>1 DEF SessionInv, LoginsCurrent
<1>5. WindowInv'
  <2> SUFFICES ASSUME NEW w \in Requests, request'[w].step \in Replacing
               PROVE  /\ \A s \in Live : session[s].race = "clear" => s \in request'[w].gone \cup Own(w)'
                      /\ \A x \in Requests : request'[x].step = "login" => race'[x] # "clear"
    BY <1>1 DEF WindowInv
  <2>1. w # r /\ request'[w] = request[w] /\ Own(w)' = Own(w)
    BY <1>1 DEF Own, Replacing
  <2>2. race'[r] = "racing"
    BY <1>1, <2>1 DEF UserLocked
  <2> QED BY <1>1, <2>1, <2>2 DEF SessionInv, WindowInv
<1>6. OneWriter'
  BY <1>1 DEF SessionInv, OneWriter, Replacing
<1> QED BY <1>2, <1>3, <1>4, <1>5, <1>6 DEF SessionInv

LEMMA InsertKeepsSessions ==
    ASSUME TypeOK, SessionInv, NEW r \in Requests, CreateSession(r)
    PROVE  SessionInv'
<1>1. PICK s \in Sessions \ Live :
        /\ ~Named(s)
        /\ session' = [session EXCEPT ![s] =
             [password |-> request[r].password, race |-> race[r]]]
  BY DEF CreateSession
<1>2. /\ request[r].step = "login"
      /\ request'[r] = Idle
      /\ \A x \in Requests \ {r} : request'[x] = request[x] /\ race'[x] = race[x]
      /\ user' = user
  BY DEF CreateSession, End, TypeOK
<1>3. /\ Live' \subseteq Live \cup {s}
      /\ \A x \in Live : session'[x] = session[x]
      /\ session'[s].password = request[r].password
      /\ session'[s].race = race[r]
  BY <1>1 DEF Live, TypeOK
<1>4. SessionsExplained'
  BY <1>2, <1>3 DEF SessionInv, SessionsExplained, LoginsCurrent
<1>5. ChangersAreActive'
  <2> SUFFICES ASSUME NEW x \in Requests, request'[x].step \in {"change", "changing"},
                      request'[x].session \in Live'
               PROVE  user.stage = "active"
    BY <1>2 DEF ChangersAreActive
  <2>1. request'[x] = request[x] /\ request[x].session # s
    BY <1>1, <1>2 DEF Idle, Named
  <2> QED BY <1>3, <2>1 DEF SessionInv, ChangersAreActive
<1>6. LoginsCurrent'
  BY <1>2 DEF SessionInv, LoginsCurrent, Idle
<1>7. WindowInv'
  <2> SUFFICES ASSUME NEW w \in Requests, request'[w].step \in Replacing
               PROVE  /\ \A x \in Live' : session'[x].race = "clear" => x \in request'[w].gone \cup Own(w)'
                      /\ \A x \in Requests : request'[x].step = "login" => race'[x] # "clear"
    BY DEF WindowInv
  <2>1. w # r /\ request'[w] = request[w] /\ Own(w)' = Own(w)
    BY <1>2 DEF Own, Replacing, Idle
  <2>2. session'[s].race # "clear"
    BY <1>2, <1>3, <2>1 DEF SessionInv, WindowInv
  <2> QED BY <1>2, <1>3, <2>1, <2>2 DEF SessionInv, WindowInv, Idle
<1>8. OneWriter'
  BY <1>2 DEF SessionInv, OneWriter, Replacing, Idle
<1> QED BY <1>4, <1>5, <1>6, <1>7, <1>8 DEF SessionInv

(* With the row of the user locked for update: every login that was under  *)
(* way is overtaken, and so is every session that is left.                 *)
LEMMA OvertakingKeepsSessions ==
    ASSUME TypeOK, SessionInv, ~UserLocked, LoginsOvertaken,
           \A s \in Live' : s \in Live /\ session'[s].race = "overtaken",
           Live' = {} \/ user'.stage = "active",
           \A x \in Requests : request'[x] \in {request[x], Idle}
    PROVE  SessionInv'
<1>1. SessionsExplained'
  BY DEF SessionsExplained
<1>2. ChangersAreActive'
  BY DEF SessionInv, ChangersAreActive, Idle
<1>3. LoginsCurrent'
  BY DEF LoginsOvertaken, LoginsCurrent, Idle
<1>4. WindowInv' /\ OneWriter'
  BY DEF UserLocked, WindowInv, OneWriter, Idle, Replacing
<1> QED BY <1>1, <1>2, <1>3, <1>4 DEF SessionInv

(* A session that no login made too late has the current password, and its *)
(* account is active, wherever the handlers overlap.                       *)
THEOREM SessionsStayExplained == Spec => []SessionsExplained
<1>1. Init => SessionInv
  <2> SUFFICES ASSUME Init PROVE SessionInv
    OBVIOUS
  <2>1. Live = {} /\ \A r \in Requests : request[r].step = "idle"
    BY DEF Init, Live, Idle
  <2> QED BY <2>1 DEF SessionInv, SessionsExplained, ChangersAreActive, LoginsCurrent,
                      WindowInv, OneWriter, Replacing
<1>2. TypeOK /\ SessionInv /\ [Next]_vars => SessionInv'
  <2> SUFFICES ASSUME TypeOK, SessionInv, [Next]_vars PROVE SessionInv'
    OBVIOUS
  <2>1. ASSUME NEW r \in Requests,
               BeginForget(r) \/ BeginReset(r) \/ BeginAccept(r) \/ BeginResend(r)
        PROVE  SessionInv'
    <3>1. ASSUME NEW q, Begin(r, q), q.step \in {"forget", "reset", "accept", "resend"}
          PROVE  SessionInv'
      BY <3>1, OtherRequestKeepsSessions DEF Begin, Replacing
    <3>2. CASE BeginForget(r)
      BY <3>1, <3>2 DEF BeginForget
    <3>3. CASE BeginReset(r)
      BY <3>1, <3>3 DEF BeginReset
    <3>4. CASE BeginAccept(r)
      BY <3>1, <3>4 DEF BeginAccept
    <3>5. CASE BeginResend(r)
      BY <3>1, <3>5 DEF BeginResend
    <3> QED BY <2>1, <3>2, <3>3, <3>4, <3>5
  <2>2. ASSUME NEW r \in Requests, CommitForget(r) \/ CommitResend(r) \/ Abort(r)
        PROVE  SessionInv'
    <3>1. /\ End(r)
          /\ UNCHANGED <<user, session>>
          /\ race' \in {race, [race EXCEPT ![r] = "clear"]}
      BY <2>2 DEF CommitForget, CommitResend, Abort
    <3> QED BY <3>1, OtherRequestKeepsSessions DEF End, Idle, Replacing
  <2>3. ASSUME NEW r \in Requests, CheckChange(r) PROVE SessionInv'
    <3>1. \E s : Begin(r, [step |-> "change", session |-> s]) /\ user.stage = "active"
      BY <2>3 DEF CheckChange, SignedIn, CanLogIn
    <3> QED BY <3>1, OtherRequestKeepsSessions DEF Begin, Replacing
  <2>4. ASSUME NEW r \in Requests, NEW p \in Passwords, DeleteOtherSessions(r, p)
        PROVE  SessionInv'
    <3> DEFINE q == [step |-> "changing", session |-> request[r].session, password |-> p,
                     gone |-> Live \ {request[r].session}]
    <3>1. request[r].step = "change" /\ DeleteSessions(r, q)
      BY <2>4 DEF DeleteOtherSessions
    <3>2. q.step = "changing" /\ q.session = request[r].session /\ q.step \in Replacing
      BY DEF Replacing
    <3>3. Live \subseteq q.gone \cup {s \in Sessions : q.step = "changing" /\ q.session = s}
      BY DEF Live
    <3> HIDE DEF q
    <3> QED BY <3>1, <3>2, <3>3, DeletionKeepsSessions
  <2>5. ASSUME NEW r \in Requests, NEW p \in Passwords,
               DeleteAllSessions(r, p) \/ DeleteMemberSessions(r, p)
        PROVE  SessionInv'
    <3>1. PICK q : DeleteSessions(r, q) /\ q.step \in {"resetting", "replacing"} /\ q.gone = Live
      BY <2>5 DEF DeleteAllSessions, DeleteMemberSessions
    <3> QED BY <3>1, DeletionKeepsSessions DEF Replacing
  <2>6. ASSUME NEW r \in Requests, UpdateOwnPassword(r) PROVE SessionInv'
    <3>1. request[r].session \in Sessions
      BY <2>6 DEF UpdateOwnPassword, TypeOK, Request
    <3>2. {request[r].session} = Own(r)
      BY <2>6, <3>1 DEF UpdateOwnPassword, Own
    <3> QED BY <2>6, <3>2, CommitKeepsSessions DEF UpdateOwnPassword, Replacing
  <2>7. ASSUME NEW r \in Requests, CommitReset(r) \/ ResetMemberPassword(r) PROVE SessionInv'
    <3>1. {} = Own(r) /\ request[r].step \in Replacing /\ CommitPassword(r, {})
      BY <2>7 DEF CommitReset, ResetMemberPassword, Own, Replacing
    <3> QED BY <3>1, CommitKeepsSessions
  <2>8. ASSUME NEW r \in Requests, NEW p \in Passwords, CommitAccept(r, p) PROVE SessionInv'
    <3>1. user'.stage = "active" /\ ~UserLocked /\ LoginsOvertaken
      BY <2>8 DEF CommitAccept, TypeOK, UserRow
    <3>2. ASSUME NEW s \in Live' PROVE s \in Live /\ session'[s].race = "overtaken"
      <4>1. s \in Live /\ session'[s] = [session[s] EXCEPT !.race = "overtaken"]
        BY <2>8, <3>2 DEF CommitAccept, Live
      <4>2. session[s] \in SessionRow
        BY <4>1 DEF Live, TypeOK
      <4> QED BY <4>1, <4>2 DEF SessionRow
    <3>3. \A x \in Requests : request'[x] \in {request[x], Idle}
      BY <2>8 DEF CommitAccept, End, TypeOK
    <3> QED BY <3>1, <3>2, <3>3, OvertakingKeepsSessions
  <2>9. ASSUME Deactivate PROVE SessionInv'
    <3>1. Live' = {} /\ ~UserLocked /\ LoginsOvertaken /\ request' = request
      BY <2>9 DEF Deactivate, Live, NoSessions
    <3> QED BY <3>1, OvertakingKeepsSessions
  <2>10. ASSUME NEW s \in Sessions, EndSession(s) PROVE SessionInv'
    <3>1. /\ Live' \subseteq Live
          /\ \A x \in Live' : session'[x] = session[x]
          /\ UNCHANGED <<user, request, race>>
      BY <2>10 DEF EndSession, Live, TypeOK
    <3>2. SessionsExplained' /\ ChangersAreActive' /\ LoginsCurrent' /\ OneWriter'
      BY <3>1 DEF SessionInv, SessionsExplained, ChangersAreActive, LoginsCurrent, OneWriter
    <3>3. \A w \in Requests : Own(w)' = Own(w)
      BY <3>1 DEF Own
    <3>4. WindowInv'
      BY <3>1, <3>3 DEF SessionInv, WindowInv
    <3> QED BY <3>2, <3>4 DEF SessionInv
  <2>11. ASSUME Reactivate \/ \E p \in Passwords : CreateMember(p) PROVE SessionInv'
    <3>1. /\ user.stage # "active"
          /\ user'.stage = "active"
          /\ UNCHANGED <<session, request, race>>
          /\ Live' = Live
      BY <2>11 DEF CreateMember, Reactivate, TypeOK, UserRow, Live
    <3>2. \A s \in Live : session[s].race = "overtaken"
      BY <3>1 DEF SessionInv, SessionsExplained
    <3>3. \A r \in Requests : request[r].step = "login" => race[r] = "overtaken"
      BY <3>1 DEF SessionInv, LoginsCurrent
    <3>4. SessionsExplained' /\ ChangersAreActive' /\ LoginsCurrent' /\ OneWriter'
      BY <3>1, <3>2, <3>3
         DEF SessionInv, SessionsExplained, ChangersAreActive, LoginsCurrent, OneWriter
    <3>5. \A w \in Requests : Own(w)' = Own(w)
      BY <3>1 DEF Own
    <3>6. WindowInv'
      BY <3>1, <3>5 DEF SessionInv, WindowInv
    <3> QED BY <3>4, <3>6 DEF SessionInv
  <2>12. ASSUME UNCHANGED <<user, session, request, race>> PROVE SessionInv'
    BY <2>12 DEF SessionInv, SessionsExplained, ChangersAreActive, LoginsCurrent, WindowInv,
                 OneWriter, Own, Live
  <2>13. ASSUME NEW l \in Links, ExpireLink(l) PROVE SessionInv'
    BY <2>13, <2>12 DEF ExpireLink
  <2>14. ASSUME NEW i \in Invites,
                CreateInvite(i) \/ RevokeInvite(i) \/ ExpireInvite(i) \/ CooldownOver(i)
         PROVE  SessionInv'
    BY <2>14, <2>12 DEF CreateInvite, RevokeInvite, ExpireInvite, CooldownOver
  <2>15. CASE UNCHANGED vars
    BY <2>15, <2>12 DEF vars
  <2> QED
    BY <2>1, <2>2, <2>3, <2>4, <2>5, <2>6, <2>7, <2>8, <2>9, <2>10, <2>11, <2>13, <2>14, <2>15,
       LoginKeepsSessions, InsertKeepsSessions, RollbackKeepsSessions DEF Next
<1>3. SessionInv => SessionsExplained
  BY DEF SessionInv
<1> QED BY <1>1, <1>2, <1>3, TypeCorrect, PTL DEF Spec

----------------------------------------------------------------------------
(* The row locks: no two requests are halfway through the same link or the *)
(* same invite.                                                            *)
OneHolder ==
    \A r, s \in Requests : r # s =>
        /\ ~(request[r].step \in {"reset", "resetting"} /\ request[s].step \in {"reset", "resetting"}
             /\ request[r].link = request[s].link)
        /\ ~(request[r].step \in {"accept", "resend"} /\ request[s].step \in {"accept", "resend"}
             /\ request[r].invite = request[s].invite)

LockInv == LockedRowsStand /\ OneHolder

(* A request that takes no lock or gives one up leaves the locks of the    *)
(* others, whose rows the step has not touched.                            *)
LEMMA OthersStillHold ==
    ASSUME TypeOK, LockInv, NEW r \in Requests, NEW q,
           request' = [request EXCEPT ![r] = q],
           q.step \notin {"reset", "resetting", "accept", "resend"},
           \A x \in Requests \ {r} :
               /\ request[x].step \in {"reset", "resetting"} => request[x].link \in Unspent'
               /\ request[x].step \in {"accept", "resend"} =>
                    invite'[request[x].invite] \in {"pending", "expired"}
               /\ request[x].step = "resend" => resent'[request[x].invite] = 0
    PROVE  LockInv'
<1>1. /\ request'[r] = q
      /\ \A x \in Requests \ {r} : request'[x] = request[x]
  BY DEF TypeOK
<1>2. LockedRowsStand'
  BY <1>1 DEF LockedRowsStand
<1>3. OneHolder'
  BY <1>1 DEF LockInv, OneHolder
<1> QED BY <1>2, <1>3 DEF LockInv

(* The same for steps of the clock and of handlers without a second half:  *)
(* they keep clear of the rows that are locked.                            *)
LEMMA AllStillHold ==
    ASSUME TypeOK, LockInv, request' = request,
           \A x \in Requests :
               /\ request[x].step \in {"reset", "resetting"} => request[x].link \in Unspent'
               /\ request[x].step \in {"accept", "resend"} =>
                    invite'[request[x].invite] \in {"pending", "expired"}
               /\ request[x].step = "resend" => resent'[request[x].invite] = 0
    PROVE  LockInv'
<1>1. LockedRowsStand'
  BY DEF LockedRowsStand
<1>2. OneHolder'
  BY DEF LockInv, OneHolder
<1> QED BY <1>1, <1>2 DEF LockInv

LEMMA LocksStep == TypeOK /\ LockInv /\ [Next]_vars => LockInv'
<1> SUFFICES ASSUME TypeOK, LockInv, [Next]_vars PROVE LockInv'
  OBVIOUS
<1> USE DEF LockInv, LockedRowsStand
<1>same. ASSUME UNCHANGED <<link, invite, resent, request>> PROVE LockInv'
  BY <1>same, AllStillHold DEF Unspent
<1>free. ASSUME NEW r \in Requests, NEW q, request' = [request EXCEPT ![r] = q],
                q.step \notin {"reset", "resetting", "accept", "resend"},
                UNCHANGED <<link, invite, resent>>
         PROVE  LockInv'
  BY <1>free, OthersStillHold DEF Unspent
<1>1. ASSUME NEW r \in Requests, CheckLogin(r) PROVE LockInv'
  BY <1>1, <1>free DEF CheckLogin
<1>2. ASSUME NEW r \in Requests, CreateSession(r) PROVE LockInv'
  BY <1>2, <1>free DEF CreateSession, End, Idle
<1>3. ASSUME NEW r \in Requests, CheckChange(r) PROVE LockInv'
  BY <1>3, <1>free DEF CheckChange, Begin
<1>4. ASSUME NEW r \in Requests, NEW p \in Passwords,
             DeleteOtherSessions(r, p) \/ DeleteMemberSessions(r, p)
      PROVE  LockInv'
  <2>1. PICK q : DeleteSessions(r, q) /\ q.step \in {"changing", "replacing"}
    BY <1>4 DEF DeleteOtherSessions, DeleteMemberSessions
  <2> QED BY <2>1, <1>free DEF DeleteSessions
<1>4a. ASSUME NEW r \in Requests, UpdateOwnPassword(r) \/ ResetMemberPassword(r) PROVE LockInv'
  BY <1>4a, <1>free DEF UpdateOwnPassword, ResetMemberPassword, CommitPassword, End, Idle
<1>5. ASSUME NEW r \in Requests, BeginForget(r) PROVE LockInv'
  BY <1>5, <1>free DEF BeginForget, Begin
<1>6. ASSUME NEW r \in Requests, CommitForget(r) PROVE LockInv'
  <2>1. /\ request' = [request EXCEPT ![r] = Idle]
        /\ UNCHANGED <<invite, resent>>
    BY <1>6 DEF CommitForget, End
  <2>2. PICK new \in Links :
          link' = [l \in Links |->
                IF l = new THEN "valid"
                ELSE IF l \in request[r].seen \cap Unspent THEN "revoked" ELSE link[l]]
    BY <1>6 DEF CommitForget
  <2>3. ASSUME NEW x \in Requests \ {r}, request[x].step \in {"reset", "resetting"}
        PROVE  request[x].link \in Unspent'
    <3>1. request[x].link \in Links
      BY <2>3 DEF TypeOK, Request
    <3>2. request[x].link \notin request[r].seen
      BY <1>6, <2>3 DEF CommitForget, LinkLocked
    <3> QED BY <2>2, <2>3, <3>1, <3>2 DEF Unspent
  <2> QED BY <2>1, <2>3, OthersStillHold DEF Idle
<1>7. ASSUME NEW r \in Requests, BeginReset(r) PROVE LockInv'
  <2>1. PICK l \in Valid :
          /\ ~LinkLocked(l)
          /\ request' = [request EXCEPT ![r] = [step |-> "reset", link |-> l]]
          /\ UNCHANGED <<link, invite, resent>>
    BY <1>7 DEF BeginReset, Begin
  <2>2. /\ request'[r] = [step |-> "reset", link |-> l]
        /\ \A x \in Requests \ {r} : request'[x] = request[x]
        /\ \A x \in Requests :
             ~(request[x].step \in {"reset", "resetting"} /\ request[x].link = l)
    BY <2>1 DEF TypeOK, LinkLocked
  <2>3. LockedRowsStand'
    BY <2>1, <2>2 DEF Valid, Unspent
  <2>4. OneHolder'
    BY <2>2 DEF OneHolder
  <2> QED BY <2>3, <2>4
<1>7a. ASSUME NEW r \in Requests, NEW p \in Passwords, DeleteAllSessions(r, p) PROVE LockInv'
  <2>1. PICK q : /\ q.step = "resetting" /\ q.link = request[r].link
                 /\ request[r].step = "reset"
                 /\ request' = [request EXCEPT ![r] = q]
                 /\ UNCHANGED <<link, invite, resent>>
    BY <1>7a DEF DeleteAllSessions, DeleteSessions
  <2>2. /\ request'[r] = q
        /\ \A x \in Requests \ {r} : request'[x] = request[x]
        /\ Unspent' = Unspent
    BY <2>1 DEF TypeOK, Unspent
  <2>3. LockedRowsStand'
    BY <2>1, <2>2
  <2>4. OneHolder'
    BY <2>1, <2>2 DEF OneHolder
  <2> QED BY <2>3, <2>4
<1>8. ASSUME NEW r \in Requests, CommitReset(r) PROVE LockInv'
  <2>1. /\ request[r].step = "resetting"
        /\ request' = [request EXCEPT ![r] = Idle]
        /\ link' = [link EXCEPT ![request[r].link] = "used"]
        /\ UNCHANGED <<invite, resent>>
    BY <1>8 DEF CommitReset, CommitPassword, End
  <2>2. ASSUME NEW x \in Requests \ {r}, request[x].step \in {"reset", "resetting"}
        PROVE  request[x].link \in Unspent'
    <3>1. request[x].link # request[r].link
      BY <2>1, <2>2 DEF OneHolder
    <3>2. request[x].link \in Links
      BY <2>2 DEF TypeOK, Request
    <3> QED BY <2>1, <2>2, <3>1, <3>2 DEF TypeOK, Unspent
  <2> QED BY <2>1, <2>2, OthersStillHold DEF Idle
<1>hold. ASSUME NEW r \in Requests, NEW i \in Invites, NEW q,
                q.step \in {"accept", "resend"}, q.invite = i, Begin(r, q),
                invite[i] = "pending", ~InviteLocked(i), q.step = "resend" => resent[i] = 0
         PROVE  LockInv'
  <2>1. /\ request'[r] = q
        /\ \A x \in Requests \ {r} : request'[x] = request[x]
        /\ \A x \in Requests :
             ~(request[x].step \in {"accept", "resend"} /\ request[x].invite = i)
        /\ UNCHANGED <<link, invite, resent>>
    BY <1>hold DEF TypeOK, InviteLocked, Begin
  <2>2. LockedRowsStand'
    BY <1>hold, <2>1 DEF Unspent
  <2>3. OneHolder'
    BY <1>hold, <2>1 DEF OneHolder
  <2> QED BY <2>2, <2>3
<1>9. ASSUME NEW r \in Requests, BeginAccept(r) PROVE LockInv'
  BY <1>9, <1>hold DEF BeginAccept
<1>9a. ASSUME NEW r \in Requests, BeginResend(r) PROVE LockInv'
  BY <1>9a, <1>hold DEF BeginResend
<1>10. ASSUME NEW r \in Requests, NEW p \in Passwords, CommitAccept(r, p) PROVE LockInv'
  <2>1. /\ request[r].step = "accept"
        /\ request' = [request EXCEPT ![r] = Idle]
        /\ invite' = [invite EXCEPT ![request[r].invite] = "accepted"]
        /\ UNCHANGED <<link, resent>>
    BY <1>10 DEF CommitAccept, End
  <2>2. ASSUME NEW x \in Requests \ {r}, request[x].step \in {"accept", "resend"}
        PROVE  invite'[request[x].invite] \in {"pending", "expired"}
    <3>1. request[x].invite # request[r].invite
      BY <2>1, <2>2 DEF OneHolder
    <3>2. request[x].invite \in Invites
      BY <2>2 DEF TypeOK, Request
    <3> QED BY <2>1, <2>2, <3>1, <3>2 DEF TypeOK
  <2> QED BY <2>1, <2>2, OthersStillHold DEF Idle, Unspent
<1>11. ASSUME NEW r \in Requests, CommitResend(r) PROVE LockInv'
  <2>1. /\ request[r].step = "resend"
        /\ request' = [request EXCEPT ![r] = Idle]
        /\ resent' = [resent EXCEPT ![request[r].invite] = @ + 1]
        /\ UNCHANGED <<link, invite>>
    BY <1>11 DEF CommitResend, End
  <2>2. ASSUME NEW x \in Requests \ {r}, request[x].step = "resend"
        PROVE  resent'[request[x].invite] = 0
    <3>1. request[x].invite # request[r].invite
      BY <2>1, <2>2 DEF OneHolder
    <3>2. request[x].invite \in Invites
      BY <2>2 DEF TypeOK, Request
    <3> QED BY <2>1, <2>2, <3>1, <3>2 DEF TypeOK
  <2> QED BY <2>1, <2>2, OthersStillHold DEF Idle, Unspent
<1>12. ASSUME NEW r \in Requests, Abort(r) PROVE LockInv'
  BY <1>12, <1>free DEF Abort, End, Idle
<1>12a. ASSUME NEW r \in Requests, Rollback(r) PROVE LockInv'
  BY <1>12a, <1>free DEF Rollback, End, Idle
<1>13. ASSUME NEW s \in Sessions, EndSession(s) PROVE LockInv'
  BY <1>13, <1>same DEF EndSession
<1>14. ASSUME NEW l \in Links, ExpireLink(l) PROVE LockInv'
  BY <1>14, AllStillHold DEF ExpireLink, TypeOK, Unspent
<1>15. ASSUME NEW i \in Invites, CreateInvite(i) \/ RevokeInvite(i) \/ ExpireInvite(i)
       PROVE  LockInv'
  <2>1. /\ UNCHANGED <<link, resent, request>>
        /\ \A j \in Invites \ {i} : invite'[j] = invite[j]
        /\ \/ invite[i] = "absent"
           \/ ~InviteLocked(i)
           \/ invite'[i] = "expired"
    BY <1>15 DEF CreateInvite, RevokeInvite, ExpireInvite, TypeOK
  <2>2. ASSUME NEW x \in Requests, request[x].step \in {"accept", "resend"}
        PROVE  invite'[request[x].invite] \in {"pending", "expired"}
    <3>1. request[x].invite \in Invites /\ InviteLocked(request[x].invite)
      BY <2>2 DEF TypeOK, Request, InviteLocked
    <3> QED BY <2>1, <2>2, <3>1
  <2> QED BY <2>1, <2>2, AllStillHold DEF Unspent
<1>16. ASSUME NEW i \in Invites, CooldownOver(i) PROVE LockInv'
  <2>1. UNCHANGED <<link, invite, request>>
    BY <1>16 DEF CooldownOver
  <2>2. ASSUME NEW x \in Requests, request[x].step = "resend" PROVE resent'[request[x].invite] = 0
    BY <1>16, <2>2 DEF CooldownOver, TypeOK
  <2> QED BY <2>1, <2>2, AllStillHold DEF Unspent
<1>17. ASSUME \E p \in Passwords : CreateMember(p) PROVE LockInv'
  BY <1>17, <1>same DEF CreateMember
<1>18. CASE Deactivate \/ Reactivate
  BY <1>18, <1>same DEF Deactivate, Reactivate
<1>19. CASE UNCHANGED vars
  BY <1>19, <1>same DEF vars
<1> QED
  BY <1>1, <1>2, <1>3, <1>4, <1>5, <1>6, <1>7, <1>8, <1>9, <1>10, <1>11, <1>12, <1>13,
     <1>14, <1>15, <1>16, <1>17, <1>18, <1>19, <1>4a, <1>7a, <1>9a, <1>12a DEF Next

LEMMA LocksHold == Spec => []LockInv
<1>1. Init => LockInv
  BY DEF Init, LockInv, LockedRowsStand, OneHolder, Idle
<1> QED BY <1>1, LocksStep, TypeCorrect, PTL DEF Spec

(* A reset, an acceptance and a resend find at their commit what they read *)
(* under their lock, however many of them and of their rivals overlap.     *)
THEOREM LockedRowsAlwaysStand == Spec => []LockedRowsStand
<1>1. LockInv => LockedRowsStand
  BY DEF LockInv
<1> QED BY <1>1, LocksHold, PTL

(* A link that was used or revoked and an invite that was accepted or      *)
(* revoked are never changed again.                                        *)
THEOREM LinksWorkOnlyOnce == Spec => LinksWorkOnce
<1>1. TypeOK /\ LockInv /\ [Next]_vars =>
        [ /\ \A l \in Links : link[l] \in {"used", "revoked"} => link'[l] = link[l]
          /\ \A i \in Invites :
               invite[i] \in {"accepted", "revoked"} => invite'[i] = invite[i] ]_vars
  <2> SUFFICES ASSUME TypeOK, LockInv, Next
               PROVE  /\ \A l \in Links : link[l] \in {"used", "revoked"} => link'[l] = link[l]
                      /\ \A i \in Invites :
                           invite[i] \in {"accepted", "revoked"} => invite'[i] = invite[i]
    OBVIOUS
  <2> DEFINE Kept == /\ \A l \in Links : link[l] \in {"used", "revoked"} => link'[l] = link[l]
                     /\ \A i \in Invites :
                          invite[i] \in {"accepted", "revoked"} => invite'[i] = invite[i]
  <2>1. CASE UNCHANGED <<link, invite>>
    BY <2>1
  <2>2. ASSUME NEW r \in Requests, CommitForget(r) PROVE Kept
    BY <2>2 DEF CommitForget, Unspent
  <2>3. ASSUME NEW r \in Requests, CommitReset(r) PROVE Kept
    <3>1. /\ link' = [link EXCEPT ![request[r].link] = "used"]
          /\ invite' = invite
          /\ request[r].link \in Unspent
      BY <2>3 DEF CommitReset, LockInv, LockedRowsStand
    <3> QED BY <3>1 DEF TypeOK, Unspent
  <2>4. ASSUME NEW r \in Requests, NEW p \in Passwords, CommitAccept(r, p) PROVE Kept
    <3>1. /\ invite' = [invite EXCEPT ![request[r].invite] = "accepted"]
          /\ link' = link
          /\ invite[request[r].invite] \in {"pending", "expired"}
      BY <2>4 DEF CommitAccept, LockInv, LockedRowsStand
    <3> QED BY <3>1 DEF TypeOK
  <2>5. ASSUME NEW l \in Links, ExpireLink(l) PROVE Kept
    BY <2>5 DEF ExpireLink, TypeOK
  <2>6. ASSUME NEW i \in Invites, CreateInvite(i) \/ RevokeInvite(i) \/ ExpireInvite(i) PROVE Kept
    BY <2>6 DEF CreateInvite, RevokeInvite, ExpireInvite, TypeOK
  <2>7. \/ UNCHANGED <<link, invite>>
        \/ \E r \in Requests :
             CommitForget(r) \/ CommitReset(r) \/ \E p \in Passwords : CommitAccept(r, p)
        \/ \E l \in Links : ExpireLink(l)
        \/ \E i \in Invites : CreateInvite(i) \/ RevokeInvite(i) \/ ExpireInvite(i)
    BY DEF Next, CheckLogin, CreateSession, CheckChange, BeginForget, BeginReset, BeginAccept,
           BeginResend, CommitResend, Abort, Rollback, DeleteOtherSessions, DeleteAllSessions,
           DeleteMemberSessions, DeleteSessions, UpdateOwnPassword, ResetMemberPassword,
           EndSession, CooldownOver, CreateMember, Deactivate, Reactivate, Begin
  <2> QED BY <2>1, <2>2, <2>3, <2>4, <2>5, <2>6, <2>7
<1> QED BY <1>1, TypeCorrect, LocksHold, PTL DEF Spec, LinksWorkOnce

----------------------------------------------------------------------------
(* A request for a link that is still open will revoke all valid links but *)
(* those added since it began.  Counted for any set of such requests: what *)
(* none of them has seen leaves room for each of them to add one.          *)
Forgetting == {r \in Requests : request[r].step = "forget"}
Unseen(S) == {l \in Valid : \A r \in S : l \notin request[r].seen}
RoomForAll ==
    \A S \in SUBSET Forgetting :
        Cardinality(Unseen(S)) + Cardinality(S) <= Cardinality(Requests)

LEMMA FiniteParts ==
    /\ Cardinality(Requests) \in Nat
    /\ \A S \in SUBSET Requests :
         IsFiniteSet(S) /\ Cardinality(S) \in Nat /\ Cardinality(S) <= Cardinality(Requests)
    /\ \A T \in SUBSET Links : IsFiniteSet(T) /\ Cardinality(T) \in Nat
<1>1. IsFiniteSet(Requests) /\ IsFiniteSet(Links)
  BY AccountsAssumption
<1> QED BY <1>1, FS_Subset, FS_CardinalityType

LEMMA OneMoreLink ==
    ASSUME NEW A \in SUBSET Links, NEW B \in SUBSET Links, NEW x \in Links, B \subseteq A \cup {x}
    PROVE  Cardinality(B) <= Cardinality(A) + 1
<1>1. IsFiniteSet(A) /\ Cardinality(A) \in Nat /\ Cardinality(B) \in Nat
  BY FiniteParts
<1>2. IsFiniteSet(A \cup {x}) /\ Cardinality(A \cup {x}) \in {Cardinality(A), Cardinality(A) + 1}
  BY <1>1, FS_AddElement
<1>3. Cardinality(B) <= Cardinality(A \cup {x})
  BY <1>2, FS_Subset
<1> QED BY <1>1, <1>2, <1>3

LEMMA FewerLinksLeaveRoom ==
    ASSUME RoomForAll, Valid' \subseteq Valid, Forgetting' \subseteq Forgetting,
           \A r \in Forgetting' : request'[r] = request[r]
    PROVE  RoomForAll'
<1> SUFFICES ASSUME NEW S \in SUBSET Forgetting'
             PROVE  Cardinality(Unseen(S)') + Cardinality(S) <= Cardinality(Requests)
  BY DEF RoomForAll
<1>1. Unseen(S)' \subseteq Unseen(S)
  BY DEF Unseen
<1>2. Unseen(S) \in SUBSET Links /\ S \in SUBSET Requests
  BY DEF Unseen, Valid, Forgetting
<1>3. Cardinality(Unseen(S)') <= Cardinality(Unseen(S)) /\ Unseen(S)' \in SUBSET Links
  BY <1>1, <1>2, FiniteParts, FS_Subset
<1>4. Cardinality(Unseen(S)) + Cardinality(S) <= Cardinality(Requests)
  BY DEF RoomForAll
<1> QED BY <1>2, <1>3, <1>4, FiniteParts

LEMMA BeginForgetLeavesRoom ==
    ASSUME TypeOK, RoomForAll, NEW r \in Requests, BeginForget(r)
    PROVE  RoomForAll'
<1> SUFFICES ASSUME NEW S \in SUBSET Forgetting'
             PROVE  Cardinality(Unseen(S)') + Cardinality(S) <= Cardinality(Requests)
  BY DEF RoomForAll
<1>1. /\ request'[r].seen = Unspent
      /\ \A x \in Requests \ {r} : request'[x] = request[x]
      /\ link' = link
  BY DEF BeginForget, Begin, TypeOK
<1>2. S \in SUBSET Requests
  BY DEF Forgetting
<1>3. CASE r \in S
  <2>1. Unseen(S)' = {}
    BY <1>1, <1>3 DEF Unseen, Valid, Unspent
  <2> QED BY <2>1, <1>2, FiniteParts, FS_EmptySet
<1>4. CASE r \notin S
  <2>1. S \in SUBSET Forgetting
    BY <1>1, <1>4 DEF Forgetting
  <2>2. Unseen(S)' = Unseen(S)
    BY <1>1, <1>2, <1>4 DEF Unseen, Valid
  <2> QED BY <2>1, <2>2 DEF RoomForAll
<1> QED BY <1>3, <1>4

LEMMA CommitForgetLeavesRoom ==
    ASSUME TypeOK, RoomForAll, NEW r \in Requests, CommitForget(r)
    PROVE  RoomForAll'
<1> SUFFICES ASSUME NEW S \in SUBSET Forgetting'
             PROVE  Cardinality(Unseen(S)') + Cardinality(S) <= Cardinality(Requests)
  BY DEF RoomForAll
<1>1. PICK new \in Links :
        link' = [l \in Links |->
           IF l = new THEN "valid"
           ELSE IF l \in request[r].seen \cap Unspent THEN "revoked" ELSE link[l]]
  BY DEF CommitForget
<1>2. /\ r \in Forgetting
      /\ request'[r] = Idle
      /\ \A x \in Requests \ {r} : request'[x] = request[x]
  BY DEF CommitForget, End, TypeOK, Forgetting
<1>3. r \notin S /\ S \cup {r} \in SUBSET Forgetting /\ S \in SUBSET Requests
  BY <1>2 DEF Forgetting, Idle
<1>4. Unseen(S)' \subseteq Unseen(S \cup {r}) \cup {new}
  BY <1>1, <1>2, <1>3 DEF Unseen, Valid, Unspent
<1>5. Unseen(S \cup {r}) \in SUBSET Links
  BY DEF Unseen, Valid
<1>6. Cardinality(Unseen(S)') <= Cardinality(Unseen(S \cup {r})) + 1
  <2>1. Unseen(S)' \in SUBSET Links
    BY <1>4, <1>5
  <2> QED BY <2>1, <1>4, <1>5, OneMoreLink
<1>7. Cardinality(S \cup {r}) = Cardinality(S) + 1
  BY <1>3, FiniteParts, FS_AddElement
<1>8. Cardinality(Unseen(S \cup {r})) + Cardinality(S \cup {r}) <= Cardinality(Requests)
  BY <1>3 DEF RoomForAll
<1>9. Unseen(S)' \in SUBSET Links
  BY <1>4, <1>5
<1> QED BY <1>3, <1>5, <1>6, <1>7, <1>8, <1>9, FiniteParts

(* However many requests for a link overlap, in whatever order they see    *)
(* and revoke each other's links, there are never more valid links than    *)
(* requests.                                                               *)
THEOREM LinksAreBounded == Spec => []NoMoreLinksThanRequests
<1>1. Init => RoomForAll
  <2> SUFFICES ASSUME Init, NEW S \in SUBSET Forgetting
               PROVE  Cardinality(Unseen(S)) + Cardinality(S) <= Cardinality(Requests)
    BY DEF RoomForAll
  <2>1. Unseen(S) = {}
    BY DEF Init, Unseen, Valid
  <2>2. S \in SUBSET Requests
    BY DEF Forgetting
  <2> QED BY <2>1, <2>2, FiniteParts, FS_EmptySet
<1>2. TypeOK /\ RoomForAll /\ [Next]_vars => RoomForAll'
  <2> SUFFICES ASSUME TypeOK, RoomForAll, [Next]_vars PROVE RoomForAll'
    OBVIOUS
  <2>same. ASSUME UNCHANGED <<link, request>> PROVE RoomForAll'
    BY <2>same, FewerLinksLeaveRoom DEF Valid, Forgetting
  <2>begin. ASSUME NEW r \in Requests, NEW q, q.step # "forget", Begin(r, q) PROVE RoomForAll'
    BY <2>begin, FewerLinksLeaveRoom DEF Begin, Valid, Forgetting, TypeOK
  <2>end. ASSUME NEW r \in Requests, End(r), Valid' \subseteq Valid PROVE RoomForAll'
    BY <2>end, FewerLinksLeaveRoom DEF End, Forgetting, TypeOK, Idle
  <2>1. ASSUME NEW r \in Requests, CheckLogin(r) PROVE RoomForAll'
    BY <2>1, FewerLinksLeaveRoom DEF CheckLogin, Valid, Forgetting, TypeOK
  <2>2. ASSUME NEW r \in Requests, CheckChange(r) PROVE RoomForAll'
    BY <2>2, <2>begin DEF CheckChange
  <2>3. ASSUME NEW r \in Requests, BeginReset(r) PROVE RoomForAll'
    BY <2>3, <2>begin DEF BeginReset
  <2>4. ASSUME NEW r \in Requests, BeginAccept(r) PROVE RoomForAll'
    BY <2>4, <2>begin DEF BeginAccept
  <2>5. ASSUME NEW r \in Requests, BeginResend(r) PROVE RoomForAll'
    BY <2>5, <2>begin DEF BeginResend
  <2>6. ASSUME NEW r \in Requests,
               \/ CreateSession(r) \/ CommitResend(r) \/ Abort(r) \/ Rollback(r)
               \/ UpdateOwnPassword(r) \/ ResetMemberPassword(r)
               \/ \E p \in Passwords : CommitAccept(r, p)
        PROVE  RoomForAll'
    <3>1. End(r) /\ link' = link
      BY <2>6 DEF CreateSession, CommitResend, Abort, Rollback, UpdateOwnPassword,
                  ResetMemberPassword, CommitPassword, CommitAccept
    <3> QED BY <3>1, <2>end DEF Valid
  <2>7. ASSUME NEW r \in Requests, NEW p \in Passwords,
               DeleteOtherSessions(r, p) \/ DeleteAllSessions(r, p) \/ DeleteMemberSessions(r, p)
        PROVE  RoomForAll'
    <3>1. PICK q : DeleteSessions(r, q) /\ q.step # "forget"
      BY <2>7 DEF DeleteOtherSessions, DeleteAllSessions, DeleteMemberSessions
    <3> QED BY <3>1, FewerLinksLeaveRoom DEF DeleteSessions, Valid, Forgetting, TypeOK
  <2>8. ASSUME NEW r \in Requests, CommitReset(r) PROVE RoomForAll'
    <3>1. End(r) /\ link' = [link EXCEPT ![request[r].link] = "used"]
      BY <2>8 DEF CommitReset, CommitPassword
    <3>2. Valid' \subseteq Valid
      BY <3>1 DEF Valid, TypeOK
    <3> QED BY <3>1, <3>2, <2>end
  <2>9. ASSUME NEW l \in Links, ExpireLink(l) PROVE RoomForAll'
    <3>1. Valid' \subseteq Valid /\ request' = request
      BY <2>9 DEF ExpireLink, Valid, TypeOK
    <3> QED BY <3>1, FewerLinksLeaveRoom DEF Forgetting
  <2>10. ASSUME NEW s \in Sessions, EndSession(s) PROVE RoomForAll'
    BY <2>10, <2>same DEF EndSession
  <2>11. ASSUME NEW i \in Invites,
                CreateInvite(i) \/ RevokeInvite(i) \/ ExpireInvite(i) \/ CooldownOver(i)
         PROVE  RoomForAll'
    BY <2>11, <2>same DEF CreateInvite, RevokeInvite, ExpireInvite, CooldownOver
  <2>12. ASSUME \E p \in Passwords : CreateMember(p) PROVE RoomForAll'
    BY <2>12, <2>same DEF CreateMember
  <2>13. CASE Deactivate \/ Reactivate \/ UNCHANGED vars
    BY <2>13, <2>same DEF Deactivate, Reactivate, vars
  <2> QED
    BY <2>1, <2>2, <2>3, <2>4, <2>5, <2>6, <2>7, <2>8, <2>9, <2>10, <2>11, <2>12, <2>13,
       BeginForgetLeavesRoom, CommitForgetLeavesRoom DEF Next
<1>3. RoomForAll => NoMoreLinksThanRequests
  <2> SUFFICES ASSUME RoomForAll PROVE Cardinality(Valid) <= Cardinality(Requests)
    BY DEF NoMoreLinksThanRequests
  <2>1. Unseen({}) = Valid /\ {} \in SUBSET Forgetting
    BY DEF Unseen
  <2>2. Cardinality(Unseen({})) + Cardinality({}) <= Cardinality(Requests)
    BY <2>1 DEF RoomForAll
  <2>3. Valid \in SUBSET Links
    BY DEF Valid
  <2> QED BY <2>1, <2>2, <2>3, FiniteParts, FS_EmptySet
<1> QED BY <1>1, <1>2, <1>3, TypeCorrect, PTL DEF Spec
============================================================================
