----------------------------- MODULE Accounts -----------------------------
(***************************************************************************)
(* One account: its password, its sessions, the links that reset its       *)
(* password, and the invites sent to its address by one workspace          *)
(* (backend/internal/auth, invites and the account side of team).          *)
(*                                                                         *)
(* Accounts do not share any of these rows, so that one account stands for *)
(* all.  Elsewhere says that the account belongs to another workspace too. *)
(* Display names, the active workspace of a session and the text of the    *)
(* emails are left out.                                                    *)
(*                                                                         *)
(* A transaction that replaces the password updates the row of the user,   *)
(* deletes sessions and commits.  The row lock of the update lets sessions *)
(* be inserted (a foreign key asks for less than the lock excludes), and   *)
(* the deletion sees only what is there when it runs: the deletion and the *)
(* commit are two steps, with logins in between.  What happens between the *)
(* update and the deletion is seen by the latter and needs no step.  The   *)
(* handlers that read the row FOR UPDATE hold insertions back: a step each.*)
(***************************************************************************)
EXTENDS Naturals, FiniteSets

CONSTANTS
    Passwords,
    Sessions,    \* session tokens
    Links,       \* password reset tokens
    Invites,     \* invites of one workspace to the address of the account
    Requests,    \* requests served at the same time
    None

(* What has happened to a login, or to the session it made, since its      *)
(* check: it is racing while sessions are deleted and that is not yet      *)
(* committed, and overtaken once it is.                                    *)
Races == {"clear", "racing", "overtaken"}

ASSUME AccountsAssumption ==
    /\ IsFiniteSet(Links) /\ IsFiniteSet(Requests)
    /\ None \notin Passwords \cup [password : Passwords, race : Races]

VARIABLES
    user,
    session,
    link,        \* password_reset_tokens
    invite,      \* team_invites
    resent,      \* resends of an invite since its cooldown last ran out
    request,
    race       \* history: the race each request that is a login is in

vars == <<user, session, link, invite, resent, request, race>>

----------------------------------------------------------------------------
UserRow ==
    {u \in [stage : {"absent", "active", "inactive"}, password : Passwords \cup {None},
            member : BOOLEAN, elsewhere : BOOLEAN] : u.stage # "absent" => u.password # None}

(* A session and the password that its owner is known to know. *)
SessionRow == [password : Passwords, race : Races]

LinkStates == {"absent", "valid", "expired", "revoked", "used"}
InviteStates == {"absent", "pending", "expired", "revoked", "accepted"}

Request ==
    [step : {"idle"}]
    \cup [step : {"login"}, password : Passwords]
    \cup [step : {"change"}, session : Sessions]
    \cup [step : {"changing"}, session : Sessions, password : Passwords, gone : SUBSET Sessions]
    \cup [step : {"replacing"}, password : Passwords, gone : SUBSET Sessions]
    \cup [step : {"forget"}, seen : SUBSET Links]
    \cup [step : {"reset"}, link : Links]
    \cup [step : {"resetting"}, link : Links, password : Passwords, gone : SUBSET Sessions]
    \cup [step : {"accept", "resend"}, invite : Invites]

Idle == [step |-> "idle"]

(* The steps that hold the row of the user, until they commit. *)
Replacing == {"changing", "resetting", "replacing"}

Init ==
    /\ user \in {[stage |-> "absent", password |-> None, member |-> FALSE, elsewhere |-> FALSE]}
            \cup {[stage |-> "active", password |-> p, member |-> FALSE, elsewhere |-> TRUE] :
                    p \in Passwords}
    /\ session = [s \in Sessions |-> None]
    /\ link = [l \in Links |-> "absent"]
    /\ invite = [i \in Invites |-> "absent"]
    /\ resent = [i \in Invites |-> 0]
    /\ request = [r \in Requests |-> Idle]
    /\ race = [r \in Requests |-> "clear"]

Begin(r, q) ==
    /\ request[r] = Idle
    /\ request' = [request EXCEPT ![r] = q]
    /\ UNCHANGED <<user, session, link, invite, resent, race>>

End(r) == request' = [request EXCEPT ![r] = Idle]

(* A refused or failed transaction, or the end of the request's time. *)
Abort(r) ==
    /\ request[r].step \notin Replacing \cup {"idle"}
    /\ End(r)
    /\ race' = [race EXCEPT ![r] = "clear"]
    /\ UNCHANGED <<user, session, link, invite, resent>>

CanLogIn == user.stage = "active" /\ (user.member \/ user.elsewhere)

Live == {s \in Sessions : session[s] # None}

NoSessions == [s \in Sessions |-> None]

----------------------------------------------------------------------------
(* Replacing the password. *)
UserLocked == \E r \in Requests : request[r].step \in Replacing

LoginsRace ==
    race' = [r \in Requests |->
        IF request[r].step = "login" /\ race[r] = "clear" THEN "racing" ELSE race[r]]

LoginsOvertaken ==
    race' = [r \in Requests |-> IF request[r].step = "login" THEN "overtaken" ELSE race[r]]

(* The end of a race. *)
Settled(was, end) == IF was = "racing" THEN end ELSE was

LoginsSettle(end) == race' = [r \in Requests |-> Settled(race[r], end)]

(* UPDATE users, which waits for the row, and DELETE FROM sessions, which  *)
(* finds those of this moment.                                             *)
DeleteSessions(r, q) ==
    /\ ~UserLocked
    /\ request' = [request EXCEPT ![r] = q]
    /\ LoginsRace
    /\ UNCHANGED <<user, session, link, invite, resent>>

CommitPassword(r, kept) ==
    /\ user' = [user EXCEPT !.password = request[r].password]
    /\ session' = [s \in Sessions |->
         IF session[s] = None \/ s \in request[r].gone THEN None
         ELSE IF s \in kept THEN [password |-> request[r].password, race |-> "clear"]
         ELSE [session[s] EXCEPT !.race = Settled(@, "overtaken")]]
    /\ LoginsSettle("overtaken")
    /\ End(r)

Rollback(r) ==
    /\ request[r].step \in Replacing
    /\ session' = [s \in Sessions |->
         IF session[s] = None THEN None ELSE [session[s] EXCEPT !.race = Settled(@, "clear")]]
    /\ LoginsSettle("clear")
    /\ End(r)
    /\ UNCHANGED <<user, link, invite, resent>>

----------------------------------------------------------------------------
(* login: the password is compared outside of any transaction. *)
CheckLogin(r) ==
    /\ request[r] = Idle
    /\ CanLogIn
    /\ request' = [request EXCEPT ![r] = [step |-> "login", password |-> user.password]]
    /\ race' = [race EXCEPT ![r] = IF UserLocked THEN "racing" ELSE "clear"]
    /\ UNCHANGED <<user, session, link, invite, resent>>

(* Tokens are not issued twice: not those that a request still names.      *)
Named(s) ==
    \E r \in Requests :
        \/ request[r].step \in {"change", "changing"} /\ request[r].session = s
        \/ request[r].step \in Replacing /\ s \in request[r].gone

CreateSession(r) ==
    /\ request[r].step = "login"
    /\ \E s \in Sessions \ Live :
        /\ ~Named(s)
        /\ session' = [session EXCEPT ![s] =
             [password |-> request[r].password, race |-> race[r]]]
    /\ race' = [race EXCEPT ![r] = "clear"]
    /\ End(r)
    /\ UNCHANGED <<user, link, invite, resent>>

(* Logging out, or the session expires. *)
EndSession(s) ==
    /\ session[s] # None
    /\ session' = [session EXCEPT ![s] = None]
    /\ UNCHANGED <<user, link, invite, resent, request, race>>

SignedIn(s) == session[s] # None /\ CanLogIn

(* changePassword compares the current password; updateOwnPassword writes  *)
(* the new one without looking again, and ends the other sessions.         *)
CheckChange(r) ==
    \E s \in Sessions :
        /\ SignedIn(s)
        /\ Begin(r, [step |-> "change", session |-> s])

(* Seeded bug: the other sessions are kept. *)
KeepOtherSessions(r, p) ==
    /\ request[r].step = "change"
    /\ DeleteSessions(r, [step |-> "changing", session |-> request[r].session,
                          password |-> p, gone |-> {}])

DeleteOtherSessions(r, p) ==
    /\ request[r].step = "change"
    /\ DeleteSessions(r, [step |-> "changing", session |-> request[r].session,
                          password |-> p, gone |-> Live \ {request[r].session}])

UpdateOwnPassword(r) ==
    /\ request[r].step = "changing"
    /\ CommitPassword(r, {request[r].session})
    /\ UNCHANGED <<link, invite, resent>>

----------------------------------------------------------------------------
(* Password reset.  A request revokes the links it sees and adds its own;  *)
(* what others add meanwhile it does not see.                              *)
LinkLocked(l) ==
    \E r \in Requests : request[r].step \in {"reset", "resetting"} /\ request[r].link = l

Valid == {l \in Links : link[l] = "valid"}

(* Neither used nor revoked. *)
Unspent == {l \in Links : link[l] \in {"valid", "expired"}}

BeginForget(r) ==
    /\ CanLogIn
    /\ Begin(r, [step |-> "forget", seen |-> Unspent])

(* Seeded bugs: the older links are not revoked; they are, without looking *)
(* again after the wait for a reset that holds one.                        *)
CommitForgetKeeping(r) ==
    /\ request[r].step = "forget"
    /\ \E new \in Links : link[new] = "absent" /\ link' = [link EXCEPT ![new] = "valid"]
    /\ End(r)
    /\ UNCHANGED <<user, session, invite, resent, race>>

CommitForgetAnyway(r) ==
    /\ request[r].step = "forget"
    /\ \A l \in request[r].seen : ~LinkLocked(l)
    /\ \E new \in Links :
        /\ link[new] = "absent"
        /\ link' = [l \in Links |->
              IF l = new THEN "valid"
              ELSE IF l \in request[r].seen THEN "revoked" ELSE link[l]]
    /\ End(r)
    /\ UNCHANGED <<user, session, invite, resent, race>>

CommitForget(r) ==
    /\ request[r].step = "forget"
    /\ \A l \in request[r].seen : ~LinkLocked(l)
    /\ \E new \in Links :
        /\ link[new] = "absent"
        /\ link' = [l \in Links |->
              IF l = new THEN "valid"
              ELSE IF l \in request[r].seen \cap Unspent THEN "revoked" ELSE link[l]]
    /\ End(r)
    /\ UNCHANGED <<user, session, invite, resent, race>>

(* Seeded bug: the link is read without FOR UPDATE. *)
BeginResetUnlocked(r) ==
    \E l \in Valid : user.stage = "active" /\ Begin(r, [step |-> "reset", link |-> l])

(* completePasswordResetTransaction locks the link and checks it. *)
BeginReset(r) ==
    \E l \in Valid :
        /\ user.stage = "active"
        /\ ~LinkLocked(l)
        /\ Begin(r, [step |-> "reset", link |-> l])

DeleteAllSessions(r, p) ==
    /\ request[r].step = "reset"
    /\ DeleteSessions(r, [step |-> "resetting", link |-> request[r].link,
                          password |-> p, gone |-> Live])

CommitReset(r) ==
    /\ request[r].step = "resetting"
    /\ CommitPassword(r, {})
    /\ link' = [link EXCEPT ![request[r].link] = "used"]
    /\ UNCHANGED <<invite, resent>>

ExpireLink(l) ==
    /\ link[l] = "valid"
    /\ link' = [link EXCEPT ![l] = "expired"]
    /\ UNCHANGED <<user, session, invite, resent, request, race>>

----------------------------------------------------------------------------
(* Invites. *)
InviteLocked(i) ==
    \E r \in Requests : request[r].step \in {"accept", "resend"} /\ request[r].invite = i

(* idx_team_invites_pending_email counts an invite that has expired. *)
CreateInvite(i) ==
    /\ invite[i] = "absent"
    /\ \A j \in Invites : invite[j] \notin {"pending", "expired"}
    /\ invite' = [invite EXCEPT ![i] = "pending"]
    /\ UNCHANGED <<user, session, link, resent, request, race>>

RevokeInvite(i) ==
    /\ invite[i] \in {"pending", "expired"}
    /\ ~InviteLocked(i)
    /\ invite' = [invite EXCEPT ![i] = "revoked"]
    /\ UNCHANGED <<user, session, link, resent, request, race>>

ExpireInvite(i) ==
    /\ invite[i] = "pending"
    /\ invite' = [invite EXCEPT ![i] = "expired"]
    /\ UNCHANGED <<user, session, link, resent, request, race>>

BeginAccept(r) ==
    \E i \in Invites :
        /\ invite[i] = "pending"
        /\ ~InviteLocked(i)
        /\ Begin(r, [step |-> "accept", invite |-> i])

(* upsertInvitedUser: a new account, or one that is not an active member   *)
(* here and gets a new password.  Sessions are left alone, and so are      *)
(* overtaken like the logins.                                              *)
CommitAccept(r, p) ==
    /\ request[r].step = "accept"
    /\ ~UserLocked
    /\ ~(user.stage = "active" /\ user.member)
    /\ user' = [user EXCEPT !.stage = "active", !.password = p, !.member = TRUE]
    /\ session' = [s \in Sessions |->
         IF session[s] = None THEN None ELSE [session[s] EXCEPT !.race = "overtaken"]]
    /\ LoginsOvertaken
    /\ invite' = [invite EXCEPT ![request[r].invite] = "accepted"]
    /\ End(r)
    /\ UNCHANGED <<link, resent>>

(* The cooldown is read under the lock on the invite. *)
BeginResend(r) ==
    \E i \in Invites :
        /\ invite[i] = "pending"
        /\ ~InviteLocked(i)
        /\ resent[i] = 0
        /\ Begin(r, [step |-> "resend", invite |-> i])

CommitResend(r) ==
    /\ request[r].step = "resend"
    /\ resent' = [resent EXCEPT ![request[r].invite] = @ + 1]
    /\ End(r)
    /\ UNCHANGED <<user, session, link, invite, race>>

CooldownOver(i) ==
    /\ resent[i] > 0
    /\ resent' = [resent EXCEPT ![i] = 0]
    /\ UNCHANGED <<user, session, link, invite, request, race>>

----------------------------------------------------------------------------
(* The admins of this workspace, or of another one that the account is in; *)
(* is_active and the password belong to the account.                       *)
CreateMember(p) ==
    /\ user.stage = "absent"
    /\ user' = [stage |-> "active", password |-> p, member |-> TRUE, elsewhere |-> FALSE]
    /\ UNCHANGED <<session, link, invite, resent, request, race>>

DeleteMemberSessions(r, p) ==
    /\ request[r] = Idle
    /\ user.stage # "absent"
    /\ DeleteSessions(r, [step |-> "replacing", password |-> p, gone |-> Live])

ResetMemberPassword(r) ==
    /\ request[r].step = "replacing"
    /\ CommitPassword(r, {})
    /\ UNCHANGED <<link, invite, resent>>

(* The row of the user is locked FOR UPDATE, so that no session is made    *)
(* from the read to the commit.                                            *)
Deactivate ==
    /\ user.stage # "absent"
    /\ ~UserLocked
    /\ user' = [user EXCEPT !.stage = "inactive"]
    /\ session' = NoSessions
    /\ LoginsOvertaken
    /\ UNCHANGED <<link, invite, resent, request>>

Reactivate ==
    /\ user.stage = "inactive"
    /\ ~UserLocked
    /\ user' = [user EXCEPT !.stage = "active"]
    /\ UNCHANGED <<session, link, invite, resent, request, race>>

----------------------------------------------------------------------------
Next ==
    \/ \E r \in Requests :
        \/ CheckLogin(r) \/ CreateSession(r) \/ CheckChange(r) \/ UpdateOwnPassword(r)
        \/ BeginForget(r) \/ CommitForget(r) \/ BeginReset(r) \/ CommitReset(r)
        \/ BeginAccept(r) \/ BeginResend(r) \/ CommitResend(r) \/ ResetMemberPassword(r)
        \/ Abort(r) \/ Rollback(r)
        \/ \E p \in Passwords :
             \/ DeleteOtherSessions(r, p) \/ DeleteAllSessions(r, p)
             \/ DeleteMemberSessions(r, p) \/ CommitAccept(r, p)
    \/ \E s \in Sessions : EndSession(s)
    \/ \E l \in Links : ExpireLink(l)
    \/ \E i \in Invites : CreateInvite(i) \/ RevokeInvite(i) \/ ExpireInvite(i) \/ CooldownOver(i)
    \/ \E p \in Passwords : CreateMember(p)
    \/ Deactivate \/ Reactivate

Spec == Init /\ [][Next]_vars

----------------------------------------------------------------------------
TypeOK ==
    /\ user \in UserRow
    /\ session \in [Sessions -> SessionRow \cup {None}]
    /\ link \in [Links -> LinkStates]
    /\ invite \in [Invites -> InviteStates]
    /\ resent \in [Invites -> Nat]
    /\ request \in [Requests -> Request]
    /\ race \in [Requests -> Races]

(* A session is the work of somebody who knows the current password of an  *)
(* account that is active.  The exceptions are what the handlers leave     *)
(* open: a login, from its check to its insert, that overlapped the end of *)
(* the other sessions, from their deletion to its commit, and the sessions *)
(* of an account that accepted an invite while active elsewhere.           *)
SessionsExplained ==
    \A s \in Live : session[s].race # "overtaken" =>
        user.stage = "active" /\ session[s].password = user.password

(* Requests that overlap may leave several reset links valid, but never    *)
(* more than were served at the same time: with one request at a time, a   *)
(* new link revokes every older one.                                       *)
NoMoreLinksThanRequests == Cardinality(Valid) <= Cardinality(Requests)

(* What was checked under a row lock still stands when the transaction     *)
(* commits, but for the clock: neither the link nor the invite is used or  *)
(* revoked by another request, and no other admin has sent the invite      *)
(* again.                                                                  *)
LockedRowsStand ==
    \A r \in Requests :
        /\ request[r].step \in {"reset", "resetting"} => request[r].link \in Unspent
        /\ request[r].step \in {"accept", "resend"} =>
             invite[request[r].invite] \in {"pending", "expired"}
        /\ request[r].step = "resend" => resent[request[r].invite] = 0

(* A link that was used or revoked, and an invite that was accepted or     *)
(* revoked, never changes again, whichever requests were halfway through   *)
(* it.                                                                     *)
LinksWorkOnce ==
    [][ /\ \A l \in Links : link[l] \in {"used", "revoked"} => link'[l] = link[l]
        /\ \A i \in Invites :
             invite[i] \in {"accepted", "revoked"} => invite'[i] = invite[i] ]_vars
============================================================================
