----------------------------- MODULE Discussion -----------------------------
(***************************************************************************)
(* What people are told about a project: the comments of its issues and    *)
(* their activity entries (backend/internal/issues), the notifications     *)
(* that comments, assignments and sprints send (internal/notifications),   *)
(* and the pages in which a user reads them (internal/pagination).         *)
(*                                                                         *)
(* Rows carry the time at which their transaction began, not the one at    *)
(* which it committed, and a transaction waits for the row of the project  *)
(* in between.  The text of a comment is named by the time of the          *)
(* transaction that wrote it.  The notifications are those of one user.    *)
(***************************************************************************)
EXTENDS FiniteSets, Integers

CONSTANTS
    Users,
    Assigned,     \* users a role assignment makes an admin of the workspace
    Issues,
    Comments,
    On,           \* the issue of a comment
    Reporter,     \* the reporter of an issue
    Reader,       \* the user whose notifications are followed
    Movers,       \* bound: the users whose roles change
    Requests,     \* requests in progress at the same time
    MaxClock,     \* bound: how many transactions begin
    MaxMoves,     \* bound: how often a role changes or something is archived
    Limit,        \* notifications on a page
    None

ASSUME DiscussionAssumption ==
    /\ Assigned \subseteq Users
    /\ On \in [Comments -> Issues]
    /\ Reporter \in [Issues -> Users]
    /\ Reader \in Users
    /\ Movers \subseteq Users
    /\ MaxClock \in Nat
    /\ MaxMoves \in Nat
    /\ Limit \in Nat \ {0}
    /\ None \notin Users \cup Issues \cup Comments

VARIABLES
    workspace,    \* workspace_members, and users.is_active
    project,      \* project_members
    open,         \* is the project not archived?
    live,         \* issues that are not archived
    assignee,
    comment,
    activity,     \* activity_log, as far as it is about comments
    inbox,        \* the notifications of Reader
    read,         \* those with a read_at
    clock,
    moves,
    request,
    pages         \* what Reader has been shown of a list it pages through

members == <<workspace, project>>
issues == <<open, live, assignee>>
talk == <<comment, activity>>
mail == <<inbox, read>>
vars == <<members, issues, talk, mail, clock, moves, request, pages>>

Access == {"admin", "member", "none"}           \* none: also when inactive
ProjectRoles == {"contributor", "viewer", "none"}    \* a lead writes as well

Deeds == {"none", "post", "edit", "delete", "assign", "sprint"}

CommentRow == [stage: {"absent", "posted", "deleted"}, author: Users \cup {None}, text: Nat]
Entry == [at: Nat, comment: Comments,
          kind: {"comment_added", "comment_updated", "comment_deleted"}]
Gone == [stage |-> "deleted", author |-> None, text |-> 0]
Notification == [issue: Issues \cup {None}, at: Nat, id: Nat]

(* todo: rows still to be decided on for Reader; told: rows written.       *)
Request == [step: {"idle", "waiting", "working"}, deed: Deeds, actor: Users \cup {None},
            admin: BOOLEAN, at: Nat, issue: Issues \cup {None},
            comment: Comments \cup {None}, to: Users \cup {None}, todo: Nat, told: Nat]
Idle == [step |-> "idle", deed |-> "none", actor |-> None, admin |-> FALSE, at |-> 0,
         issue |-> None, comment |-> None, to |-> None, todo |-> 0, told |-> 0]

(* unseen: what was there at the first page and has not been shown yet;    *)
(* listed: what there was at the latest one.                               *)
Paging == [step: {"rest", "first", "turn", "next", "lost", "end"}, admin: BOOLEAN,
           offset: Nat, unseen: SUBSET Notification, listed: SUBSET Notification]
Unpaged == [step |-> "rest", admin |-> FALSE, offset |-> 0, unseen |-> {}, listed |-> {}]

Init ==
    /\ workspace = [u \in Users |-> "member"]
    /\ project = [u \in Users |-> "contributor"]
    /\ open = TRUE
    /\ live = Issues
    /\ assignee = [i \in Issues |-> None]
    /\ comment = [c \in Comments |-> [stage |-> "absent", author |-> None, text |-> 0]]
    /\ activity = {}
    /\ inbox = {}
    /\ read = {}
    /\ clock = 0
    /\ moves = 0
    /\ request = [r \in Requests |-> Idle]
    /\ pages = Unpaged

----------------------------------------------------------------------------
(* effective_workspace_members, and the role of the session. *)
EffectiveAdmin(u) == workspace[u] = "admin" \/ u \in Assigned
SignedIn(u) == workspace[u] # "none" \/ u \in Assigned

(* permissionsForRoles *)
CanWrite(u) ==
    \/ EffectiveAdmin(u)
    \/ workspace[u] = "member" /\ project[u] = "contributor"

(* userCanReadProject looks at direct members only. *)
CanRead(u) ==
    \/ workspace[u] = "admin"
    \/ workspace[u] = "member" /\ project[u] # "none"

(* Only one transaction holds the row of the project. *)
Unlocked == \A r \in Requests : request[r].step # "working"

(* Who joins, leaves or changes roles, and what is archived.  Roles in the *)
(* project are changed and issues archived under its lock.                 *)
Move == moves < MaxMoves /\ moves' = moves + 1

SetWorkspaceRole(u) ==
    /\ Move
    /\ \E a \in Access \ {workspace[u]} : workspace' = [workspace EXCEPT ![u] = a]
    /\ UNCHANGED <<project, issues, talk, mail, clock, request, pages>>
SetProjectRole(u) ==
    /\ Move
    /\ Unlocked /\ open
    /\ \E p \in ProjectRoles \ {project[u]} : project' = [project EXCEPT ![u] = p]
    /\ UNCHANGED <<workspace, issues, talk, mail, clock, request, pages>>

ArchiveIssue(i) ==
    /\ Move
    /\ Unlocked /\ open
    /\ i \in live
    /\ live' = live \ {i}
    /\ UNCHANGED <<members, open, assignee, talk, mail, clock, request, pages>>
ArchiveProject ==
    /\ Move
    /\ Unlocked /\ open
    /\ open' = FALSE
    /\ UNCHANGED <<members, live, assignee, talk, mail, clock, request, pages>>

----------------------------------------------------------------------------
(* A handler reads the session of its user and opens a transaction, in     *)
(* which RequireIssueWrite or RequireSprintWrite reads the roles; then it  *)
(* waits for the row of the project.                                       *)
Begin(r, deed, i, c) ==
    \E u \in Users :
        /\ request[r] = Idle
        /\ clock < MaxClock
        /\ SignedIn(u) /\ CanWrite(u)
        /\ open
        /\ i # None => i \in live
        /\ clock' = clock + 1
        /\ request' = [request EXCEPT ![r] =
             [Idle EXCEPT !.step = "waiting", !.deed = deed, !.actor = u,
                          !.admin = EffectiveAdmin(u), !.issue = i, !.comment = c,
                          !.at = clock + 1]]
        /\ UNCHANGED <<members, moves, issues, talk, mail, pages>>

BeginCreateComment(r) ==
    \E c \in Comments :
        /\ comment[c].stage = "absent"
        /\ \A s \in Requests : request[s].comment # c
        /\ Begin(r, "post", On[c], c)
(* The id of a comment is known once it is posted. *)
BeginUpdateComment(r) ==
    \E c \in Comments : comment[c].stage # "absent" /\ Begin(r, "edit", On[c], c)
BeginDeleteComment(r) ==
    \E c \in Comments : comment[c].stage # "absent" /\ Begin(r, "delete", On[c], c)
BeginAssign(r) == \E i \in Issues : Begin(r, "assign", i, None)
BeginSprint(r) == Begin(r, "sprint", None, None)

(* A failed check, another error, or the timeout. *)
Abandon(r) ==
    /\ request[r].step # "idle"
    /\ request' = [request EXCEPT ![r] = Idle]
    /\ UNCHANGED <<members, moves, issues, talk, mail, clock, pages>>

----------------------------------------------------------------------------
(* Seeded bug: the reads of a transaction are not under the lock. *)
LockNothing(r) == request[r].step = "waiting" /\ open

Lock(r) == request[r].step = "waiting" /\ Unlocked /\ open

Work(r, todo, to) ==
    /\ request' = [request EXCEPT ![r] =
         [@ EXCEPT !.step = "working", !.todo = todo, !.to = to]]
    /\ UNCHANGED <<members, moves, issues, talk, mail, clock, pages>>

(* How often Reader is among those told. *)
Rows(users) == IF Reader \in users THEN 1 ELSE 0

(* commentNotificationRecipients: each user once, the actor never. *)
CommentRecipients(q, mentioned) ==
    (mentioned \cup {Reporter[q.issue], assignee[q.issue]}) \ {q.actor}

(* mentionedWorkspaceUserIDs *)
Mentionable == {u \in Users : CanRead(u)}

CreateComment(r) ==
    LET q == request[r]
    IN  /\ q.deed = "post"
        /\ Lock(r)
        /\ q.issue \in live
        /\ \E mentioned \in SUBSET Mentionable :
               Work(r, Rows(CommentRecipients(q, mentioned)), None)

(* canEditComment: with the role the session had. *)
CanEdit(q) == q.admin \/ comment[q.comment].author = q.actor

Change(r, deed) ==
    LET q == request[r]
    IN  /\ q.deed = deed
        /\ Lock(r)
        /\ q.issue \in live
        /\ comment[q.comment].stage = "posted"
        /\ CanEdit(q)
        /\ Work(r, 0, None)

UpdateComment(r) == Change(r, "edit")
DeleteComment(r) == Change(r, "delete")

(* The rules leave the issue with final, and may have moved it; each user  *)
(* is told once, and a new assignee of the rules is told of that.          *)
AutomationRecipients(q, to, final, moved) ==
    ((IF final # to THEN {final} ELSE {})
        \cup (IF moved THEN {Reporter[q.issue], final} ELSE {})) \ {q.actor}

AssignRecipients(q, to, final) == IF final = to THEN {to} \ {q.actor} ELSE {}

(* verifyActiveProjectMember, of a request and of the rules. *)
Assignable == {u \in Users : CanRead(u)} \cup {None}

Assign(r) ==
    LET q == request[r]
    IN  /\ q.deed = "assign"
        /\ Lock(r)
        /\ q.issue \in live
        /\ \E to \in Assignable :
               IF to = assignee[q.issue]
               THEN Work(r, 0, to)
               ELSE \E final \in Assignable, moved \in BOOLEAN :
                      Work(r, Rows(AutomationRecipients(q, to, final, moved))
                              + Rows(AssignRecipients(q, to, final)), final)

(* NotifySprintEvent picks all of its recipients at once. *)
StartOrCompleteSprint(r) ==
    LET q == request[r]
    IN  /\ q.deed = "sprint"
        /\ Lock(r)
        /\ request' = [request EXCEPT ![r] =
             [@ EXCEPT !.step = "working",
                       !.told = Rows({u \in Users : CanRead(u)} \ {q.actor})]]
        /\ UNCHANGED <<members, moves, issues, talk, mail, clock, pages>>

(* The other senders ask for each recipient in turn, NotifyIssueAssigned   *)
(* last.                                                                   *)
Tell(r, deed) ==
    LET q == request[r]
    IN  /\ q.step = "working"
        /\ q.deed = deed
        /\ q.todo > 0
        /\ request' = [request EXCEPT ![r] =
             [q EXCEPT !.todo = q.todo - 1,
                       !.told = IF CanRead(Reader) THEN q.told + 1 ELSE q.told]]
        /\ UNCHANGED <<members, moves, issues, talk, mail, clock, pages>>
NotifyIssueComment(r) == Tell(r, "post")
NotifyAutomationChanges(r) == Tell(r, "assign")

----------------------------------------------------------------------------
EntryOf(q) ==
    [at |-> q.at, comment |-> q.comment,
     kind |-> CASE q.deed = "post" -> "comment_added"
                [] q.deed = "edit" -> "comment_updated"
                [] OTHER -> "comment_deleted"]

(* Every notification is a row of its own, with a random id. *)
RowsOf(q) == {[issue |-> q.issue, at |-> q.at, id |-> n] : n \in 1..q.told}

Commit(r) ==
    LET q == request[r]
    IN  /\ q.step = "working"
        /\ q.todo = 0
        /\ comment' =
             CASE q.deed = "post" ->
                    [comment EXCEPT ![q.comment] = [stage |-> "posted", author |-> q.actor,
                                                    text |-> q.at]]
               [] q.deed = "edit" -> [comment EXCEPT ![q.comment].text = q.at]
               [] q.deed = "delete" -> [comment EXCEPT ![q.comment] = Gone]
               [] OTHER -> comment
        /\ activity' = IF q.comment # None THEN activity \cup {EntryOf(q)} ELSE activity
        /\ assignee' = IF q.deed = "assign" THEN [assignee EXCEPT ![q.issue] = q.to]
                                            ELSE assignee
        /\ inbox' = inbox \cup RowsOf(q)
        /\ request' = [request EXCEPT ![r] = Idle]
        /\ UNCHANGED <<members, moves, open, live, read, clock, pages>>

----------------------------------------------------------------------------
(* notificationAccessCondition, for an administrator or not. *)
Visible(admin) ==
    {n \in inbox :
        \/ admin
        \/ /\ project[Reader] # "none"
           /\ open
           /\ n.issue # None => n.issue \in live}

MarkRead ==
    /\ SignedIn(Reader)
    /\ \E n \in Visible(EffectiveAdmin(Reader)) \ read : read' = read \cup {n}
    /\ UNCHANGED <<members, moves, issues, talk, inbox, clock, request, pages>>
MarkAllRead ==
    /\ SignedIn(Reader)
    /\ read' = read \cup Visible(EffectiveAdmin(Reader))
    /\ UNCHANGED <<members, moves, issues, talk, inbox, clock, request, pages>>

(* ORDER BY created_at DESC, id DESC *)
Before(m, n) == m.at > n.at \/ (m.at = n.at /\ m.id > n.id)
Rank(n, rows) == Cardinality({m \in rows : Before(m, n)})

(* Window *)
Page(rows, offset) == {n \in rows : offset <= Rank(n, rows) /\ Rank(n, rows) < offset + Limit}
HasNext(rows, offset) == Cardinality(rows) > offset + Limit
(* Seeded bug: the row that only shows that there is a next page is        *)
(* skipped over.                                                           *)
NextOffsetPastProbe(offset) == offset + Limit + 1
NextOffset(offset) == offset + Limit

(* Every page is a request of its own: the role of the session first. *)
AskPage ==
    /\ pages.step \in {"rest", "turn"}
    /\ SignedIn(Reader)
    /\ pages' = [pages EXCEPT !.step = IF @ = "rest" THEN "first" ELSE "next",
                              !.admin = EffectiveAdmin(Reader)]
    /\ UNCHANGED <<members, moves, issues, talk, mail, clock, request>>

(* A list is given up for lost once something it had listed is gone: the   *)
(* rows behind it have moved up.                                           *)
ListPage ==
    LET rows == Visible(pages.admin)
        offset == pages.offset
        wanted == IF pages.step = "first" THEN rows ELSE pages.unseen
    IN  /\ pages.step \in {"first", "next"}
        /\ pages' =
             IF ~(pages.listed \subseteq rows) THEN [Unpaged EXCEPT !.step = "lost"]
             ELSE IF HasNext(rows, offset)
             THEN [step |-> "turn", admin |-> FALSE, offset |-> NextOffset(offset),
                   unseen |-> wanted \ Page(rows, offset), listed |-> rows]
             ELSE [Unpaged EXCEPT !.step = "end", !.unseen = wanted \ Page(rows, offset)]
        /\ UNCHANGED <<members, moves, issues, talk, mail, clock, request>>

----------------------------------------------------------------------------
Requesting(r) ==
    \/ BeginCreateComment(r) \/ BeginUpdateComment(r) \/ BeginDeleteComment(r)
    \/ BeginAssign(r) \/ BeginSprint(r) \/ Abandon(r)
    \/ CreateComment(r) \/ UpdateComment(r) \/ DeleteComment(r)
    \/ Assign(r) \/ StartOrCompleteSprint(r)
    \/ NotifyIssueComment(r) \/ NotifyAutomationChanges(r) \/ Commit(r)

Next ==
    \/ \E r \in Requests : Requesting(r)
    \/ \E u \in Movers : SetWorkspaceRole(u) \/ SetProjectRole(u)
    \/ \E i \in Issues : ArchiveIssue(i)
    \/ ArchiveProject
    \/ MarkRead \/ MarkAllRead
    \/ AskPage \/ ListPage

Spec == Init /\ [][Next]_vars

----------------------------------------------------------------------------
TypeOK ==
    /\ workspace \in [Users -> Access]
    /\ project \in [Users -> ProjectRoles]
    /\ open \in BOOLEAN
    /\ live \subseteq Issues
    /\ assignee \in [Issues -> Users \cup {None}]
    /\ comment \in [Comments -> CommentRow]
    /\ activity \subseteq Entry
    /\ inbox \subseteq Notification
    /\ IsFiniteSet(inbox)
    /\ read \subseteq inbox
    /\ clock \in Nat
    /\ moves \in Nat
    /\ request \in [Requests -> Request]
    /\ pages \in Paging

EntriesOf(c) == {e \in activity : e.comment = c}

(* However requests overlap, the activity of a comment has it added once   *)
(* and first, deleted once if it is gone and not otherwise, and an entry   *)
(* for the text it has.                                                    *)
CommentsAreExplained ==
    \A c \in Comments :
        LET E == EntriesOf(c)
        IN  /\ comment[c].stage = "absent" => E = {}
            /\ comment[c].stage # "absent" =>
                 \E a \in E : /\ a.kind = "comment_added"
                              /\ \A e \in E \ {a} : e.kind # "comment_added" /\ a.at < e.at
            /\ comment[c].stage = "deleted" =>
                 \E d \in E : /\ d.kind = "comment_deleted"
                              /\ \A e \in E \ {d} : e.kind # "comment_deleted"
            /\ comment[c].stage = "posted" =>
                 /\ \A e \in E : e.kind # "comment_deleted"
                 /\ \E e \in E : e.at = comment[c].text

(* A reader who pages to the end has been shown every notification that    *)
(* was there at the first page, whatever arrived in between and in         *)
(* whichever order it was dated, unless something that was listed          *)
(* disappeared.                                                            *)
PagesMissNothing == pages.step = "end" => pages.unseen = {}
=============================================================================
