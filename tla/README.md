# Kelmio: verification project

Kelmio is an issue tracker: a Go backend over PostgreSQL, three worker commands
and a React client. This directory holds TLA+ models of the parts of the backend
whose correctness depends on the order of steps: of transactions, of processes,
of a crash between two of them. TLC checks the models on small instances; TLAPS
proves the most important invariants for every value of the constants.

Paths below are relative to the repository. `PROJECT.json` maps each definition
to the lines it models and lists the runs, the hazards and the theorems.

## 1. The system

| Component | State it keeps | Operations | What is hard | What makes it correct |
| --- | --- | --- | --- | --- |
| Email outbox (`internal/emailoutbox`, `cmd/email-worker`) | `email_outbox` rows: status, attempts, next attempt, start of processing | enqueue, claim a batch, send, mark sent / retry / failed | two workers, sends of unbounded length, lost acknowledgements, restarts | nothing lost; a failure is earned; a settled row stays settled |
| Workflow (`internal/workflows`) | statuses, transitions of a project | create, update, reorder, archive a status; replace the transitions | archiving has to rewrite issues, transitions and rules | an issue is always on an active status; a done status exists |
| Issues (`internal/issues`) | issues, labels, comments, links, activity, parents | create, update, transition, assign, label, archive, set the parent, link, unlink | rules run inside the same transaction; a parent or a link may need the locks of two projects | the activity trail explains the issue; parents have no cycle; what was read still stands |
| Automation rules (`internal/automations`) | rules with trigger, conditions, ordered actions, position | create, update, reorder, delete, disable by invalidation; `Engine.Execute` | rules see a snapshot, write in order; what they name may go away | no enabled rule names what is gone; later actions win |
| Project access (`internal/projectaccess`) | none | row lock of the project, roles of the actor | every writer of a project is serialised by it, other writers are not | roles are those of the moment of the write |
| Team, project members (`internal/team`, `projectmembers`) | `users.is_active`, `workspace_members`, `project_members`, invites | update and create members, put and delete project members, accept an invite | counts read without locks at READ COMMITTED; an account is shared by workspaces | an active admin and a manager remain |
| Backups and drills (`internal/backups`, `internal/restores`, `cmd/backup-worker`) | artifacts in a directory, a state file, the restore target | dump, publish, validate, reset, restore, verify, clean up, record, prune | every step is a process that can fail or die; one-off commands beside the daemon | the latest verified artifact is kept, and is complete |
| Sprints (`internal/sprints`) | sprints, `issues.sprint_id` | create, update, start, complete, add, remove | two projects' locks in one request, in the order the request names them | a completed sprint gains nothing; requests that wait for each other end |
| Organizations, groups, assignments (`internal/organizations`, `groups`, `workspaces`) | organization members, groups, role assignments | create, add, remove, assign, unassign | the last admin is counted without a lock; assignments have no foreign key to their subject | an admin remains; nobody has access through a deleted group |
| Accounts (`internal/auth`, `invites`) | users, sessions, reset tokens, invites | login, logout, change, request and complete a reset; create, resend, revoke and accept an invite | a login overlapping with a password change; two requests with one token | sessions are explained by the current password; a token or an invite works once |
| Migrator, bootstrap (`internal/migrations`, `bootstrap`) | `schema_migrations`, first workspace | apply, create | several at once | each migration once, one first workspace |
| Rate limiter, CSRF (`internal/ratelimit`, `csrf`) | counters in memory | allow | concurrent requests, window edges | never more than the limit |
| Notifications, pagination (`internal/notifications`, `pagination`) | `notifications` rows | insert with a comment, an assignment or a sprint; list by pages, mark read | rows are ordered by the begin of their transaction and appear at its commit; a cursor is an offset | paging misses nothing |
| Saved filters, labels, projects | their rows | single statements | ends of other transactions that touch them | rows refer to what exists |
| Configuration, metrics, audit, diagnostics | none, or counters | read | - | - |
| Client (`src/frontend`) | what the user sees | HTTP requests | late answers | - |

How they interact. Every HTTP handler opens one PostgreSQL transaction at the
default level, READ COMMITTED: a statement sees what was committed when it began,
and two statements of one transaction may see different data. Mutual exclusion is
by row locks alone. Writers of a project's issues, workflow, rules and sprints
take `FOR UPDATE OF project` first (`projectaccess`); label deletion, membership
changes and archiving a project do not. An issue's handler calls the automation
engine in its own transaction, so a failing rule undoes the user's change.
Deleting a label and removing a member run an `UPDATE` that disables the rules
naming them (`automations/invalidation.go`). Invites and password resets enqueue
an email in their own transaction; the email worker is a process of its own that
shares only the table. The backup worker reads the database with `pg_dump` and
shares a directory, a state file and one restore target with the `--once` and
`--restore-only` commands.

## 2. The modules

### EmailOutbox, OutboxDelivery

`EmailOutbox` models `emailoutbox/outbox.go`, `processor.go`, the send of
`mailer.go` and the loop of `cmd/email-worker`.

| Model | Code |
| --- | --- |
| `outbox[e]` | the row: `status`, `attempt_count`, and as numbers of ticks the time to `next_attempt_at` (`due`) and until the claim is stale (`fresh`) |
| `locked[w]` | rows locked by the open claim transaction of a worker (`FOR UPDATE SKIP LOCKED`) |
| `batch[w]` | the `[]Email` snapshots in memory and how far `ProcessRecord` got |
| `client[w]` | the client `NewClient` gave the worker when it started: SMTP, or `NoopClient` where `EMAIL_DELIVERY_ENABLED` is false (the default of `docker-compose.prod.yml`) |
| `accepted[e]` | history: the attempts whose message the SMTP server accepted |
| `dropped` | history: the emails handed to a `NoopClient` |
| `Enqueue` | `Enqueue` and its deduplication key |
| `LockCandidates`, `CommitClaim` | the locking read and the update of `ClaimBatch` |
| `CommitClaimUnseen`, `AbortClaim`, `MarkLost`, `Restart` | a lost commit acknowledgement, a rollback, a failed update, a worker that dies or is stopped and comes back, perhaps with the other client |
| `Send` | rendering and the client's `Send`: `SendMail` with "delivered", "refused" and "accepted, but the acknowledgement was lost"; `SendNothing`, the `NoopClient`, which reports success |
| `Mark` | `MarkSent`, `MarkRetry`, `MarkFailed`: updates by row id alone |
| `Tick` | time: both countdowns go down |

`Send` and `Mark` are separate steps because the code holds no lock between them.
`OutboxDelivery` is the promise to the rest of the program: queued, perhaps
delivered several times while queued, then settled for good, as sent only after a
delivery or, where delivery may be switched off, after it was discarded.
`PromisedState` in `EmailOutbox` maps a row to it: a claimed row is still
queued, and what counts as delivered is that a message left. A single worker
implements it (`ImplementsDelivery`); two do not.

"Sent" means less than it says: a worker whose delivery is disabled marks what it
takes as sent. `SentIsExplained` admits exactly that and nothing else. Where no
worker runs so, a sent row was accepted (`SentWasAccepted`, proved as
`SentIsTrue`).

### ProjectWorkflow

One project: `workflows/store.go`, the issue handlers that change status,
assignee, labels and stage, `automations/store.go`, `engine.go`, `evaluator.go`
and `invalidation.go`.

The project lock allows one writer at a time. A transaction that reads only what
the lock protects is therefore one action (`CreateStatus`, `UpdateStatus`,
`ReplaceTransitions`, `ArchiveStatus`, `DeleteRule`, `ReorderRules`, `SetLabels`,
`ArchiveIssue`). Two kinds of transaction also read what the lock does not
protect, and are split where they do:

- an issue's: `BeginCreate`, `BeginTransition`, `BeginAssign` or `BeginUpdate`
  (the user's change), `LoadRules` (the engine's snapshot of issue and rules),
  `StartRule` and `RunAction` for each rule and action, `CommitIssue`;
- a rule's: `BeginCreateRule` or `BeginUpdateRule` (`validateDependencies`), then
  `CommitRule`.

`phase` says which transaction holds the lock; `run` and `draft` are what it has
in memory and not committed. `Rollback` ends either at any point: a rule that
fails, an error, the timeout. Between their steps run the writers without the
lock: `DeleteLabel`, `RevokeUser`, `DeactivateElsewhere`, `AdmitUser`.

### WorkspaceMembers

`team/handler.go`, `projectmembers/store.go`, accepting of `invites/handler.go`
and the role lookup of `auth`. `account` is `users.is_active`, `direct`
`workspace_members`, `project` `project_members`. A guarded request is two steps,
the check under its row locks (`CheckUpdate`, `CheckPut`, `CheckDelete`) and the
write (`CommitUpdate`, `CommitPut`, `CommitDelete`); `Authorize` is the role that
`updateMember` takes from the session before. `seen` is what the check scanned
from the locked rows. `UserLocked` and `ProjectLocked` are the row locks; nothing
else keeps transactions apart. The admins and leads that a check counts are not
locked, and an update that commits may take some of them away: the history variable
`overtaken` holds the open transactions to which that has happened since their
count. Admins by role assignment are the constant `Assigned`.

### BackupWorker

`cmd/backup-worker/main.go`, `internal/backups` and `internal/restores`. Any
number of processes, each the daemon (`"loop"`), `--once` or `--restore-only`, go
through the steps of `performCycle`: dump, publish, validate, reset, restore,
verify, clean up, record, retain. Artifacts are numbered by publication, so a
greater number is a later modification time. `dumps` remembers whether what an
artifact holds is complete (the database was migrated and had its core rows when
it was dumped), `files` is the directory, `target` the restore target's schema,
`state` the state file. `RecordFailure` loads the state in the step that fails
(`Fail`) and saves it in a later one, as the code does. Every command can fail
with its effect, half of it or none (`CommandFails`), every write of the state
file can fail, and `Crash` stops a process anywhere.

### Planning, PlanningBoard

`sprints/handler.go`, the parent and link handlers of `issues/handler.go` and
`store_helpers.go`, and archiving a project. Several projects, issues and sprints;
`Home` is `project_id`, which no handler changes.

| Model | Code |
| --- | --- |
| `open`, `issue[i].stage` | `archived_at` of a project and an issue |
| `issue[i]`, `sprint[s]`, `links` | the columns these handlers read and write |
| `request[r]` | an open transaction: the rows it names, what it has read (`from`), the project rows it holds (`locks`) |
| `Begin...(r)` | lock the first project, read and check under it |
| `Create`, `CheckParent`, `Add`, `Remove`, `Link`, `FindLink`, `Unlink` | lock the second project, read under it, write |
| `SetParent` | the write of `setIssueParent`; `CheckParent` is the walk over the ancestors before it |
| `Refuse`, `Abort` | a failed check; anything else that ends a transaction |
| `CreateSprint` ... `ArchiveProject` | handlers with a single lock |

`Wanted` is the project a transaction still has to lock. Which of its two projects
comes first differs: `addIssue` locks the sprint's, `setIssueParent` the issue's.
`Reaches` says what the recursive query of `verifyIssueParent` finds, by closed
sets instead of a walk, and `WalkEnds` that it comes back.

`PlanningBoard` is the promise to the client: the same handlers without requests,
locks or waits, each of them one step that checks and writes. `Planning` keeps the
names and the meaning of its variables, so the refinement mapping leaves out
`request` and nothing else. Two promises are weaker than one might expect, and
the abstract module says so: a new parent is walked upwards only as far as the walk
stays in the issue's project (`IsAbove`), and a link is deleted when one of its
issues is open (`UnlinkIssues`), not both.

### Accounts

One account: `auth/handler.go`, `auth/passwordreset`, `invites/handler.go` and the
handlers of `team/handler.go` that create an account, set its password or its
`is_active`. `session[s]` is the password that the owner of the session is known
to know, and the race its login was in. The passwords are compared outside the
transaction that writes, so a login is `CheckLogin` and `CreateSession`, and a change
`CheckChange` and the transaction after it.

A transaction that replaces the password is an `UPDATE` of the user's row, a
`DELETE` of sessions and a `COMMIT`, and is two steps here: the deletion
(`DeleteOtherSessions`, `DeleteAllSessions`, `DeleteMemberSessions`) and the commit
(`UpdateOwnPassword`, `CommitReset`, `ResetMemberPassword`), or `Rollback`. From its
update on it holds the row (`UserLocked`), so a second one waits, but the lock of an
update that changes no key lets the foreign-key check of an inserted session pass:
logins are checked against the old password and create their sessions in between.
The deletion removes the sessions that are there when it runs (`gone`). What happens
between the update and the deletion is the same as what happens before both. A
deactivation reads the row `FOR UPDATE`, which holds the insertion of sessions back,
and is one step, as is an acceptance.

`race` is history: a login, or the session it made, is `racing` when some part of the
time from its check to its insert was between a deletion and its commit, or the
deletion fell into it; the commit makes that `overtaken`, a rollback makes it `clear`.
An acceptance, which ends no session, overtakes every session there is.

A request for a link (`BeginForget`, `CommitForget`) revokes the links its statement
saw that are unused and unrevoked when it gets their locks. A reset, an acceptance and
a resend hold the row lock of their link or invite from `Begin...` to `Commit...`. The
emails these handlers enqueue are the rows of `EmailOutbox`; they are written with the
commit, and nothing here reads them back.

### OrganizationAccess

One organization: `organizations/handler.go`, `groups/handler.go` and the role
assignments of `workspaces/handler.go`. No handler locks what it reads, so each is
a step that reads and a step that writes; `seen` are the assignments that
`deleteGroup` deleted before the group. `overlapped` is history: two changes of
organization members were open at once. Its assignments are what `WorkspaceMembers`
has as the constant `Assigned`.

### Discussion

The comment handlers of `issues/handler.go`, `notifications/handler.go` and
`pagination/pagination.go`, in one project. A request is `Begin...` (the session,
the start of the transaction and the roles), `CreateComment`, `UpdateComment`,
`DeleteComment`, `Assign` or `StartOrCompleteSprint` (what it reads once it has the
project's row), `NotifyIssueComment` or `NotifyAutomationChanges` (one recipient at a
time), and `Commit`. `at` is `created_at`: `now()` is the time at which a transaction
began, so that a row that appears later may be listed further down.

`inbox` are the notifications of one user, `Reader`; recipients do not influence each
other. What the rules do to an assigned issue is a choice here (`final`, `moved`), as
`ProjectWorkflow` has the engine. `AskPage` and `ListPage` are one page: the role of
the session, then the query. `pages.unseen` is what the first page's query saw and no
page has shown; the module gives up as "lost" once a listed row has disappeared,
because then offsets do skip rows.

## 3. What is checked

Fault and object counts are bounds of the run, not of the module.

| Run | Instance | What it shows |
| --- | --- | --- |
| `outbox_safety` | 2 emails (one cannot be rendered), 2 workers with either client, 2 attempts, batch 2, one fault of any kind | claims never share an attempt number; at most one delivery per attempt; "sent" is accounted for; "failed" is earned |
| `outbox_single` | 2 emails, 1 worker with either client, 2 faults, fair | one worker implements `OutboxDelivery`; settled rows are final; attempts beyond the limit are paid for by faults; every email is settled |
| `workflow_rules` | 3 statuses, 1 issue, 1 label, 1 user, 2 rules with ordered actions | no issue, transition or enabled rule is left with an archived status; a done status remains; the activity trail is unbroken; later actions win; statuses change along transitions only |
| `members` | 2 users, 2 workspaces founded by one of them and the other an admin by assignment in one, 2 requests that overlap in any way, invites and new accounts in between | what a transaction read stands until it writes; the last admin goes only to a transaction whose count was overtaken or to a deactivation from the other workspace, and the last manager of a project only to one whose count was overtaken |
| `backup_cycles` | the daemon and both one-off commands by turns, keep 2 of 4 artifacts, 3 faults, fair | the latest verified artifact is kept and complete, is never forgotten, and backups go on |
| `planning_tree` | 3 issues of 2 projects, tasks and subtasks, 2 requests | no cycle of parents within a project; no constraint of the database is run into; what was read before the second lock stands; what is archived is final; each handler acts as if at once (`PlanningBoard`) |
| `planning_sprints` | 2 issues and 2 sprints of 2 projects, 2 requests, fair | a completed sprint is final and gains no issue; planning acts as if at once; requests that lock two projects in opposite order all end |
| `planning_cycle` (violation) | 4 issues of 2 projects, 2 requests | two requests under the locks of different projects close a cycle of parents |
| `accounts_sessions` | 2 passwords, 2 sessions, 1 reset link, 1 invite, 3 requests | whoever has a session knows the password of an active account, but for logins that overlapped a deletion of the sessions or the time to its commit, and for invites |
| `accounts_links` | 1 password, 1 session, 3 reset links, 2 invites, 2 requests | valid links are at most as many as overlapping requests; what was locked is not used or revoked by others; links and invites work once, and what was revoked stays so |
| `organizations` | 2 users, 1 group, 1 workspace, 2 requests | an admin remains when changes of members take turns; nobody has access through a deleted group |
| `discussion` | 2 users, 1 issue, 1 comment, 3 transactions, 2 at a time, 1 change of the reader's roles or archiving, pages of one | a comment's activity explains it; a reader who pages to the end misses nothing |

Why the bounds are enough.

- Outbox. Interference needs two claims of one row, so two workers and two
  attempts; the second email is there so that batches and SKIP LOCKED matter
  and a worker records one claim while it holds another. Delays 1 and 2 and a
  stale period of 2 let a claim become stale before, at and after its retry.
  One fault suffices beside a second worker; the run with one worker has two, so
  a recovery can fail as well.
- Workflow. Three statuses are needed for a path that is not symmetric and an
  archival whose replacement is neither end of a transition. Two rules with two
  and three actions write the same fields, and each has an action that looks at
  what the other writes. One issue is enough: no property relates two issues, and
  `ArchiveStatus` treats them independently (the proofs cover any number).
- Members. A lost last admin or manager needs two users, of whom one is counted and
  goes while the other is being changed; the assignment makes one who may act and is
  not counted. Two workspaces are needed for a deactivation from elsewhere, two
  requests for an overlap. The proofs cover any number of each.
- Backups. Four artifacts with two kept let retention run twice and remove what
  an earlier cycle verified; three faults let a cycle fail, its recovery fail,
  and the next one too. The bound stops the daemon, so these runs do not check
  for deadlock, nor does `members`, in which the accounts of both users
  may all be inactive. `backup_cycles` states progress as "the bound is reached".

- Planning. Three issues, two of them in one project, let an issue be moved between
  a parent at home and one elsewhere while the third changes; two requests are the
  least that can interfere, and all two that a cycle takes. The run without sprints
  and the one without types and links keep each other small: no action reads both.
  Epics are to a missing parent what subtasks are to a present one; the proofs cover
  all types together.
  Four issues are the least for a cycle across projects that no single lock covers.
- Accounts. Two sessions are "this one and the others"; with three requests two
  transactions that replace the password meet a login, one before the other and both
  after its check. Three links are one more than the overlapping requests; two invites
  let one stand in the way of the next. Links and sessions have a run each because
  they meet only in a reset, which both have.
- Organizations. A lost last admin takes two users who change each other. One group
  suffices, as groups do not interact; a subject is a user or that group.

- Discussion. Posting and two requests that overlap on the comment are three
  transactions; with pages of one, two rows are two pages and the third arrives in
  between. One change around them decides what is seen, told or permitted; the reader
  is the one whom it concerns. Comments do not influence each other (the proofs cover any number).

Deadlock is not checked in the planning, account, organization and discussion runs
either: archived projects, used links, an organization without an admin, and the
last transaction are ends. Only `workflow_rules`
and `backup_cycles` check a type invariant; every module has one, and it is proved.

Symmetry is used for workers, requests, users, tokens and other values without
an order, in runs without liveness properties only.

`LaterActionsWin` compares what the engine has done step by step with `Outcome`,
which looks at the snapshot and the list of rules alone: for each field the last
action that names it has had its effect, and a field that no action names is as it
was. `StatusMovesAreAllowed` uses `LeadsTo`, reachability stated by closed sets.

### Fairness

- `EmailOutbox`: the poll timer fires again, a claim transaction ends, `Send`
  returns and an update completes (weak fairness per worker), and time passes.
  The faults are not fair and are finitely many. That `Send` returns is an
  assumption the code does not fully earn: the connection has a deadline, the SMTP
  dialogue after it none (`mailer.go:71`).
- `BackupWorker`: a running process takes its next step, because each command has
  a timeout and the loop a timer. Starting the daemon has strong fairness: its
  container restarts it, and a one-off command that runs by turns disables the
  start again and again. Somebody applies the migrations in the end.
- `Planning`: PostgreSQL's deadlock detector ends one of the transactions that wait
  for each other in a ring (weak fairness of `EndDeadlock`), and the queue of a row
  lock gives each request its turn in the end (strong fairness of its steps). The
  five-second timeout of a request, `Abort`, is not fair and not needed.

## 4. What is proved

Each theorem holds for every value of the constants that satisfies the module's
`ASSUME`: any number of emails, workers, statuses, issues, rules, users, requests,
processes and faults.

`EmailOutboxProofs`. The inductive invariant `IInv` joins the type invariant and
the four safety properties with `ClaimsCounted`: a claim's attempt number is
counted by its row. Without it a new claim could repeat the number of an old one,
and `MarkRetry`, which compares the snapshot's number, could fail a row early.
Lemmas state what `ClaimedRow`, `Aged` and `Marked` do to a row; then there is one
lemma for each action. Results: `TypeCorrect`, `ClaimsAreDistinct`,
`DeliveriesAreCounted`, `SentIsAccountedFor`, `FailureIsEarned`; and `SentIsTrue`,
where no worker runs with delivery disabled, because then nothing is ever dropped
(`NothingDropped`).

With one worker (`OneWorker`, the deployment) more is true. `OneWorkerInv` adds that
a claim in memory is the last word on its row (`ClaimsAreCurrent`) and that a row
that may be claimed without a further fault has fewer attempts than the limit and
the faults so far allow (`RoomIsLeft`): a claim takes one attempt, and only a fault
makes a row that is at its limit claimable again. `ExcessIsAlwaysPaid` follows, and
`DeliveryIsImplemented`: each step is a step of `OutboxDelivery` or a stutter. It
states the safety part of `ImplementsDelivery`; the fairness of the abstract
specification is left to TLC. `SettledStaysSettled` is read off that refinement.
`OneWorker` is necessary: `outbox_concurrent` reopens a settled row with two.

`ProjectWorkflowProofs`. `TypeCorrect` first, then properties that rest on it.
`IssuesStayOnActiveStatuses` needs that an issue in transit, in `run`, is on an
active status too: the lock keeps statuses from being archived between the check
and the commit. `ActivityIsComplete` carries along where the trail of the open
transaction stands. `StatusDependenciesStayLive` includes the rule in `draft`.
`DoneStatusStays` and `TransitionsStayLive` are inductive with the type invariant.
`StatusesFollowTheWorkflow` needs that the workflow leads from the status stored for
the issue in transit to the one its run has reached (`OnItsWay`), a path that each
action of a rule on the status makes longer. `LaterActionsHavePriority` needs to know
where the run is: `RunsInOrder` says that there is a rule `c` and a number `j` such
that the queue holds the rules after `c`, what is left of `c` are its actions after
the first `j`, and the issue is the `Outcome` of all actions before that place. Taking
an action moves the place by one; starting a rule moves it to the front of the
next one, and there is no action in between.

`WorkspaceMembersProofs`. Nothing is assumed of the workspaces, of the users they
share or of the overlap of transactions. `LocksInv` says that open transactions have
different targets, which is what their row locks achieve, that rows of an account that
does not exist are empty, and that what was decided upon stands
(`DecisionsAlwaysStand`). `SomeoneRemains` adds that a transaction which is to take an
active admin or lead away, and is not in `overtaken`, still leaves somebody it has
counted. It survives the commit of an update because that one has another target and
marks the transactions it takes somebody from; the commits on project members because
the project is locked (`ProjectsApart`); the others because they only add. Results:
`LastAdminAlwaysStays` and `ManagersAreKept`. Their exceptions are necessary:
`members_admin_race` has an overtaken demotion, and a deactivation from a second
workspace takes the last admin without any overlap.

`BackupWorkerProofs`. `TypeCorrect`; then `VerifiedStays` and `SuccessIsVerified`
under `~Overlap`, from `SerialInv`: at most one process is not stopped; what the
running process relies on at its step is so (`Sound`): its artifact is the newest
in the directory, the target holds that artifact when it is verified, and a process
without an artifact has no failed drill to resume; a failure to be resumed is about
the newest artifact, and the artifact of the last success exists and is complete.
Retention keeps at least one artifact and runs only when the newest is the verified
one, which is why the invariant speaks of the newest. `backup_oneoff_retention`
shows that `~Overlap` is needed. `SuccessOnlyMovesForward` comes from the same invariant:
the artifact that is recorded is the newest there is, and the recorded one exists.

`AccountsProofs`. `SessionsStayExplained` follows from `SessionInv`: a change of the
password whose session still exists belongs to an active account (`ChangersAreActive`);
a login that has not been overtaken knows the current password of an active account
(`LoginsCurrent`); while a transaction is between its deletion and its commit, every
session that is neither deleted by it nor the one it keeps is marked as racing, and so
is every login (`WindowInv`); and there is one such transaction at a time
(`OneWriter`), which is what the row lock achieves. Hence a commit makes each session
it leaves behind an overtaken one. `LockedRowsAlwaysStand` is inductive with
`OneHolder`: no two requests are halfway through one link or one invite.
`LinksWorkOnlyOnce` rests on it: only the holder of a link or an invite uses it.
`LinksAreBounded` counts. For every set of open requests for a link, the valid links
none of them has seen leave room for each of them to add one (`RoomForAll`); with
the empty set, that is the property. A request that commits adds a link and leaves
the set, one that begins has seen every link there is.

`OrganizationAccessProofs`. `AccessStaysThroughLiveGroups` follows from
`MembersOfLiveGroups`, the cascade of the foreign key. `TurnsKeepAdmin` shows that,
until two changes of members have overlapped, at most one is open and the one that
is about to take an administrator's role away leaves another one (`TurnsTaken`); it
uses that there are finitely many users.

`PlanningProofs`. The inductive invariant `IInv` says of each open request which rows
it names (`Named`), which projects it has locked (`Holds`), what it has read (`Reads`)
and, when it gives an issue a parent of its own project, that there is a set of the
project's issues closed under parents, with the new parent and without the issue
(`Walked`); and that no project is locked twice (`Exclusive`). A step of another
request stays clear of the locked projects (`SoundStays`), so all of it survives.
`ReadsAlwaysStand` is a part of it. Then `IssueSteps` sums up what a step may do to the
rows of the issues, and `ConstraintsAlwaysHold`, `ArchivedIsFinal` and
`CompletedStaysClosed` follow from that summary. `ProjectsStayAcyclic` uses
`ParentsExist`, so that a new issue is nobody's parent, and that no cycle leads through
a set that is closed under parents from the outside. Across projects the same
argument fails, as `planning_cycle` shows: a walk leads through projects that the
request has not locked, where parents change before it writes.

`HandlersActAtOnce` is the refinement of `PlanningBoard`. `StepKinds` divides the steps
into those that change `request` alone, those that write (`Writes`) and the handlers
with a single lock (`Alone`); each of the latter two is a step of the abstract module.
For a write, `Reads` gives the checks that were made under the first lock, and
`Walked` becomes `~IsAbove`. It needs one fact besides `IInv`, `SprintsExist`: a sprint
that a request names has been created.

`DiscussionProofs`. `CommentsStayExplained` carries along that transactions have times
of their own (`TimesAreOwn`), that a comment is named by others only once it has been
posted, by transactions that began later (`Fits`), and that one request works at a
time (`OneWorks`). `PagesNeverMiss` needs that whatever has not been shown yet has a
rank of at least the next offset (`PageInv`): new rows only raise ranks, and when
there is no next page every rank is below its end.

Only checked by TLC: liveness (`EventuallySettled`, `BackupsContinue`, `RequestsEnd`),
which the prover does not reach, and with it the fairness part of
`ImplementsDelivery`. Every other property of a passing run is a theorem, under the
assumptions named above. `NoOpenCycle` is refuted.

## 5. Where the code and its documents part

`PROJECT.json` lists one disagreement with its run, `planning_cycle`. Six more are
reproduced by configurations in this directory that it does not list; each ends with
the counterexample:

| Configuration (module) | What the document says | What the run shows |
| --- | --- | --- |
| `outbox_restart` (`MCEmailOutbox`) | `docs/v5-plan.md:162`: the worker restarts "без потери или двойной доставки" (without loss or double delivery) | a worker that dies between sending and `MarkSent` makes the email leave twice |
| `outbox_concurrent` (`MCEmailOutbox`) | `docs/v5-plan.md:519`: the worker is safe under "concurrent execution" | without any fault, a slow send is taken over, and its late `MarkRetry` reopens a sent row |
| `workflow_rule_race` (`MCProjectWorkflow`) | `docs/v4-plan.md:281`: "rule нельзя сохранить с invalid dependency" (a rule cannot be saved with an invalid dependency) | a label or member removed between a rule's check and its insert leaves it enabled |
| `members_admin_race` (`MCWorkspaceMembers`) | `team/handler.go:266`: "workspace must keep at least one active admin" | two admins demote each other |
| `backup_oneoff_retention` (`MCBackupWorker`) | `docs/local-operations.md:108-109`: retention "always preserves the latest verified copy" | a one-off cycle beside the daemon: retention of one keeps the newest artifact and removes what the other calls verified |
| `backup_stuck` (`MCBackupWorker`) | `docs/backup-restore.md:46`: "then runs every 24 hours by default" | an artifact that cannot be verified stops every later backup |

Known to the models and without a run:

- a stale takeover does not look at the attempt limit, so a row can be attempted
  more often than `EMAIL_MAX_ATTEMPTS` (`ExcessIsPaidByFaults` says how often);
- an admin of another workspace can deactivate the only admin of this one;
- removing the last lead counts an admin whom an open transaction is demoting;
- two drills share the restore target: one can verify what the other restored;
- adding an issue to a sprint does not look at the sprint it leaves, which may be
  completed;
- `deleteIssueLink` reads the other issue in the statement that waits for the lock on
  its project, so the issue may be archived by the time the link is deleted;
- a login that compared the old password creates its session after a change or a
  reset has ended the others, or between that and its commit (`overtaken` in
  `Accounts`); a password change that was checked before a reset overwrites it;
- accepting an invite gives an account that is active elsewhere a new password and
  ends none of its sessions;
- an invite that has expired still blocks the next one to the same address
  (`idx_team_invites_pending_email`) until somebody revokes it;
- two overlapping changes can leave an organization without an admin, and admins
  whose account is inactive are counted;
- a removed organization member stays in its groups and keeps its assignments;
- an assignment made while its group is being deleted stays, without a subject;
- the activity of a comment can list an edit after its deletion: entries carry the
  begin of their transactions, and the edit began later and committed first;
- a list paged by offset skips rows once a row before them has disappeared;
- an admin by role assignment is not told of a sprint, and can neither be mentioned
  nor assigned: those queries read `workspace_members` alone.

## 6. What is not modelled

- Contents: names, descriptions, texts, payloads, templates, positions of statuses,
  colours, SQL of list queries, HTML. No property here depends on them.
- Enforcement by the database (foreign keys, unique indexes) appears through its
  effect on a step. Deadlocks PostgreSQL resolves by aborting are `Rollback` or
  `Abandon`.
- Site administration: who may create an organization or a workspace, and which
  workspace a session has active.
- SMTP and `pg_dump`, `pg_restore` and `psql` are external: their outcomes are
  choices.
- The permissions of the actor of an issue, sprint, workflow, rule or organization
  write: the actor is always allowed. `Discussion` has them.
- The client, the scripts, configuration, metrics and logging.
- The components listed as not modelled in `PROJECT.json`; the plan has the ones
  that deserve a model.

## 7. Plan

Done, in this order: the outbox with its abstract specification; workflow and
automations; membership; backups; planning with its abstract specification; accounts
with invites; organizations; comments and notifications. Each has its MC module, its
runs and its proofs.

Next:

1. **Migrator, bootstrap, rate limiter.** Advisory lock and version table; the
   fixed window.
2. **Composition** of `OrganizationAccess` and `WorkspaceMembers`, whose constant
   `Assigned` becomes the other's state.
3. **Another abstract specification.** What `Accounts` promises a client: each reset,
   acceptance and resend as one step, as `PlanningBoard` does for planning.

## 8. Running it

    tlc -workers 2 -config outbox_safety.cfg MCEmailOutbox.tla
    tlc -workers 2 -config outbox_single.cfg MCEmailOutbox.tla
    tlc -workers 2 -config workflow_rules.cfg MCProjectWorkflow.tla
    tlapm EmailOutboxProofs.tla
    tlapm PlanningProofs.tla

The other runs use the module `PROJECT.json` or section 5 names. The runs marked
as violations, and the configurations of section 5, end with a counterexample; the
others pass. `discussion`, `workflow_rules`, `planning_tree`, `members` and the two runs of
`accounts` are the longest, at one to three minutes each.

Operators whose comment begins with "Seeded bug" are variants of a definition
with a plausible mistake. No specification uses them: put in place of the original,
each makes TLC refute the property it is listed with in `PROJECT.json`.
