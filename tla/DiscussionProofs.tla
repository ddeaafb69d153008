-------------------------- MODULE DiscussionProofs --------------------------
(***************************************************************************)
(* For any number of users, comments, notifications and overlapping        *)
(* requests: the activity explains the comments, and pages miss nothing.   *)
(***************************************************************************)
EXTENDS Discussion, FiniteSetTheorems, TLAPS

(* What a step of a request that has not come to its commit may do. *)
LEMMA WorkType ==
  ASSUME TypeOK, NEW r \in Requests, NEW todo \in Nat, NEW to \in Users \cup {None},
         Work(r, todo, to)
  PROVE  TypeOK'
<1>1. [request[r] EXCEPT !.step = "working", !.todo = todo, !.to = to] \in Request
  BY DEF TypeOK, Request
<1> QED BY <1>1 DEF Work, TypeOK, members, issues, talk, mail

LEMMA BeginType ==
  ASSUME TypeOK, NEW r \in Requests, NEW deed \in Deeds, NEW i \in Issues \cup {None},
         NEW c \in Comments \cup {None}, Begin(r, deed, i, c)
  PROVE  TypeOK'
<1>1. PICK u \in Users :
        /\ clock' = clock + 1
        /\ request' = [request EXCEPT ![r] =
             [Idle EXCEPT !.step = "waiting", !.deed = deed, !.actor = u,
                          !.admin = EffectiveAdmin(u), !.issue = i, !.comment = c,
                          !.at = clock + 1]]
        /\ UNCHANGED <<members, moves, issues, talk, mail, pages>>
  BY DEF Begin
<1>2. EffectiveAdmin(u) \in BOOLEAN
  BY DEF EffectiveAdmin
<1>3. [Idle EXCEPT !.step = "waiting", !.deed = deed, !.actor = u,
                   !.admin = EffectiveAdmin(u), !.issue = i, !.comment = c,
                   !.at = clock + 1] \in Request
  <2>1. clock + 1 \in Nat
    BY DEF TypeOK
  <2> QED BY <1>2, <2>1 DEF Request, Idle
<1>4. request' \in [Requests -> Request]
  BY <1>1, <1>3 DEF TypeOK
<1> QED BY <1>1, <1>4 DEF TypeOK, members, issues, talk, mail

LEMMA RowsType == \A S : Rows(S) \in Nat
BY DEF Rows

LEMMA TellType ==
  ASSUME TypeOK, NEW r \in Requests, NEW deed, Tell(r, deed)
  PROVE  TypeOK'
<1>1. request[r].todo - 1 \in Nat /\ request[r].told + 1 \in Nat /\ request[r].told \in Nat
  BY DEF Tell, TypeOK, Request
<1>2. [request[r] EXCEPT !.todo = request[r].todo - 1,
               !.told = IF CanRead(Reader) THEN request[r].told + 1 ELSE request[r].told]
        \in Request
  BY <1>1 DEF TypeOK, Request
<1> QED BY <1>2 DEF Tell, TypeOK, members, issues, talk, mail

(* The rows of a commit are of their type and finitely many. *)
LEMMA RowsOfType ==
  ASSUME NEW q \in Request
  PROVE  RowsOf(q) \subseteq Notification /\ IsFiniteSet(RowsOf(q))
<1> DEFINE f == [n \in 1..q.told |-> [issue |-> q.issue, at |-> q.at, id |-> n]]
<1>1. q.told \in Nat /\ q.at \in Nat /\ q.issue \in Issues \cup {None}
  BY DEF Request
<1>2. IsFiniteSet(1..q.told)
  BY <1>1, FS_Interval
<1>3. f \in Surjection(1..q.told, RowsOf(q))
  BY DEF Surjection, RowsOf
<1>4. IsFiniteSet(RowsOf(q))
  <2> HIDE DEF f
  <2> QED BY <1>2, <1>3, FS_Surjection
<1> QED BY <1>1, <1>4 DEF RowsOf, Notification

LEMMA CommitType ==
  ASSUME TypeOK, NEW r \in Requests, Commit(r)
  PROVE  TypeOK'
<1> DEFINE q == request[r]
<1>1. q \in Request
  BY DEF TypeOK
<1>2. comment' \in [Comments -> CommentRow]
  <2>1. CASE q.deed = "post"
    <3>1. q.at \in Nat /\ q.actor \in Users \cup {None}
      BY <1>1 DEF Request
    <3>2. comment' = [comment EXCEPT ![q.comment] =
                       [stage |-> "posted", author |-> q.actor, text |-> q.at]]
      BY <2>1 DEF Commit
    <3> HIDE DEF q
    <3> QED BY <3>1, <3>2 DEF TypeOK, CommentRow
  <2>2. CASE q.deed = "edit"
    <3>1. q.at \in Nat
      BY <1>1 DEF Request
    <3>2. comment' = [comment EXCEPT ![q.comment].text = q.at]
      BY <2>2 DEF Commit
    <3> HIDE DEF q
    <3> QED BY <3>1, <3>2 DEF TypeOK, CommentRow
  <2>3. CASE q.deed = "delete"
    <3>1. comment' = [comment EXCEPT ![q.comment] = Gone]
      BY <2>3 DEF Commit
    <3> HIDE DEF q
    <3> QED BY <3>1 DEF TypeOK, CommentRow, Gone
  <2> QED
    BY <2>1, <2>2, <2>3 DEF Commit, TypeOK
<1>3. activity' \subseteq Entry
  <2>1. q.comment # None => EntryOf(q) \in Entry
    BY <1>1 DEF EntryOf, Entry, Request
  <2> QED BY <2>1 DEF Commit, TypeOK
<1>4. assignee' \in [Issues -> Users \cup {None}]
  BY <1>1 DEF Commit, TypeOK, Request
<1>5. inbox' \subseteq Notification /\ IsFiniteSet(inbox') /\ read' \subseteq inbox'
  <2>1. IsFiniteSet(inbox \cup RowsOf(q))
    BY <1>1, RowsOfType, FS_Union DEF TypeOK
  <2> QED BY <1>1, <2>1, RowsOfType DEF Commit, TypeOK
<1>6. request' \in [Requests -> Request]
  BY DEF Commit, TypeOK, Idle, Request, Deeds
<1> QED
  BY <1>2, <1>3, <1>4, <1>5, <1>6 DEF Commit, TypeOK, members

LEMMA ListPageType == TypeOK /\ ListPage => TypeOK'
<1> SUFFICES ASSUME TypeOK, ListPage PROVE TypeOK'
  OBVIOUS
<1>1. Visible(pages.admin) \subseteq Notification
  BY DEF Visible, TypeOK
<1>2. NextOffset(pages.offset) \in Nat
  BY DiscussionAssumption DEF NextOffset, TypeOK, Paging
<1>3. pages' \in Paging
  BY <1>1, <1>2 DEF ListPage, Paging, Unpaged, TypeOK
<1> QED BY <1>3 DEF ListPage, TypeOK, members, issues, talk, mail

(* Every value a step writes has its type, and notifications are finitely  *)
(* many, whatever requests overlap.                                        *)
THEOREM TypeCorrect == Spec => []TypeOK
<1>1. Init => TypeOK
  <2> SUFFICES ASSUME Init PROVE TypeOK
    OBVIOUS
  <2>1. Idle \in Request
    BY DEF Idle, Request, Deeds
  <2>2. Unpaged \in Paging
    BY DEF Unpaged, Paging
  <2>3. comment \in [Comments -> CommentRow]
    BY DEF Init, CommentRow
  <2> QED
    BY <2>1, <2>2, <2>3, FS_EmptySet DEF Init, TypeOK, Access, ProjectRoles
<1>2. TypeOK /\ [Next]_vars => TypeOK'
  <2> SUFFICES ASSUME TypeOK, [Next]_vars PROVE TypeOK'
    OBVIOUS
  <2>1. ASSUME NEW r \in Requests, Requesting(r) PROVE TypeOK'
    <3>1. CASE BeginCreateComment(r)
      BY <3>1, BeginType, DiscussionAssumption DEF BeginCreateComment, Deeds
    <3>2. CASE BeginUpdateComment(r)
      BY <3>2, BeginType, DiscussionAssumption DEF BeginUpdateComment, Deeds
    <3>3. CASE BeginDeleteComment(r)
      BY <3>3, BeginType, DiscussionAssumption DEF BeginDeleteComment, Deeds
    <3>4. CASE BeginAssign(r)
      BY <3>4, BeginType DEF BeginAssign, Deeds
    <3>5. CASE BeginSprint(r)
      BY <3>5, BeginType DEF BeginSprint, Deeds
    <3>6. CASE Abandon(r)
      BY <3>6 DEF Abandon, TypeOK, Idle, Request, Deeds, members, issues, talk, mail
    <3>7. CASE CreateComment(r)
      <4>1. PICK mentioned : Work(r, Rows(CommentRecipients(request[r], mentioned)), None)
        BY <3>7 DEF CreateComment
      <4> QED BY <4>1, WorkType, RowsType
    <3>8. CASE UpdateComment(r)
      BY <3>8, WorkType DEF UpdateComment, Change
    <3>9. CASE DeleteComment(r)
      BY <3>9, WorkType DEF DeleteComment, Change
    <3>10. CASE Assign(r)
      <4> DEFINE q == request[r]
      <4>1. PICK to \in Assignable :
              IF to = assignee[q.issue]
              THEN Work(r, 0, to)
              ELSE \E final \in Assignable, moved \in BOOLEAN :
                     Work(r, Rows(AutomationRecipients(q, to, final, moved))
                             + Rows(AssignRecipients(q, to, final)), final)
        BY <3>10 DEF Assign
      <4>2. Assignable \subseteq Users \cup {None}
        BY DEF Assignable
      <4>3. CASE Work(r, 0, to)
        BY <4>2, <4>3, WorkType
      <4>4. ASSUME NEW final \in Assignable, NEW moved \in BOOLEAN,
                   Work(r, Rows(AutomationRecipients(q, to, final, moved))
                             + Rows(AssignRecipients(q, to, final)), final)
            PROVE  TypeOK'
        <5>1. Rows(AutomationRecipients(q, to, final, moved))
                + Rows(AssignRecipients(q, to, final)) \in Nat
          BY RowsType
        <5> HIDE DEF q
        <5> QED BY <4>2, <4>4, <5>1, WorkType
      <4> QED BY <4>1, <4>3, <4>4
    <3>11. CASE StartOrCompleteSprint(r)
      <4>1. [request[r] EXCEPT !.step = "working",
               !.told = Rows({u \in Users : CanRead(u)} \ {request[r].actor})] \in Request
        BY RowsType DEF TypeOK, Request
      <4> QED BY <3>11, <4>1 DEF StartOrCompleteSprint, TypeOK, members, issues, talk, mail
    <3>12. CASE NotifyIssueComment(r) \/ NotifyAutomationChanges(r)
      BY <3>12, TellType DEF NotifyIssueComment, NotifyAutomationChanges
    <3>13. CASE Commit(r)
      BY <3>13, CommitType
    <3> QED
      BY <2>1, <3>1, <3>2, <3>3, <3>4, <3>5, <3>6, <3>7, <3>8, <3>9, <3>10, <3>11,
         <3>12, <3>13 DEF Requesting
  <2>2. ASSUME NEW u \in Movers, SetWorkspaceRole(u) \/ SetProjectRole(u) PROVE TypeOK'
    BY <2>2, DiscussionAssumption DEF Move, SetWorkspaceRole, SetProjectRole, TypeOK, issues, talk, mail
  <2>3. ASSUME NEW i \in Issues, ArchiveIssue(i) PROVE TypeOK'
    BY <2>3 DEF Move, ArchiveIssue, TypeOK, members, talk, mail
  <2>4. CASE ArchiveProject
    <3>1. open' = FALSE /\ moves' = moves + 1
      BY <2>4 DEF ArchiveProject, Move
    <3>2. moves' \in Nat
      BY <3>1 DEF TypeOK
    <3> QED BY <2>4, <3>1, <3>2 DEF ArchiveProject, TypeOK, members, talk, mail
  <2>5. CASE MarkRead \/ MarkAllRead
    BY <2>5 DEF MarkRead, MarkAllRead, Visible, TypeOK, members, issues, talk
  <2>6. CASE AskPage
    <3>1. EffectiveAdmin(Reader) \in BOOLEAN
      BY DEF EffectiveAdmin
    <3>2. pages' \in Paging
      BY <2>6, <3>1 DEF AskPage, Paging, TypeOK
    <3> QED BY <2>6, <3>2 DEF AskPage, TypeOK, members, issues, talk, mail
  <2>7. CASE UNCHANGED vars
    BY <2>7 DEF vars, TypeOK, members, issues, talk, mail
  <2> QED
    BY <2>1, <2>2, <2>3, <2>4, <2>5, <2>6, <2>7, ListPageType DEF Next
<1> QED BY <1>1, <1>2, PTL DEF Spec

----------------------------------------------------------------------------
Pending == {r \in Requests : request[r].step # "idle"}

(* Transactions begin at times of their own, and entries carry them.       *)
TimesAreOwn ==
    /\ \A r \in Pending : request[r].at <= clock
    /\ \A r, s \in Pending : r # s => request[r].at # request[s].at
    /\ \A e \in activity : e.at <= clock /\ \A r \in Pending : request[r].at # e.at

(* A comment is posted by one request and named by others afterwards; the  *)
(* one that works on it has found it posted.                               *)
Fits(r) ==
    LET q == request[r]
    IN  /\ q.deed \in {"post", "edit", "delete"} <=> q.comment \in Comments
        /\ q.deed = "post" =>
             /\ comment[q.comment].stage = "absent"
             /\ \A s \in Requests \ {r} : request[s].comment # q.comment
        /\ q.deed \in {"edit", "delete"} =>
             /\ comment[q.comment].stage # "absent"
             /\ \A e \in activity :
                  e.comment = q.comment /\ e.kind = "comment_added" => e.at < q.at
             /\ q.step = "working" => comment[q.comment].stage = "posted"

OneWorks ==
    \A r, s \in Requests :
        request[r].step = "working" /\ request[s].step = "working" => r = s

CommentInv ==
    /\ TypeOK
    /\ TimesAreOwn
    /\ \A r \in Pending : Fits(r)
    /\ OneWorks
    /\ CommentsAreExplained

(* Nothing happens to comments and requests. *)
LEMMA ElsewhereKeeps ==
  ASSUME CommentInv, TypeOK', UNCHANGED <<comment, activity, clock, request>>
  PROVE  CommentInv'
BY DEF CommentInv, TimesAreOwn, Pending, Fits, OneWorks, CommentsAreExplained, EntriesOf

(* A request begins at a time of its own. *)
LEMMA BeginKeeps ==
  ASSUME CommentInv, TypeOK', NEW r \in Requests, NEW deed \in Deeds, NEW i,
         NEW c \in Comments \cup {None}, Begin(r, deed, i, c),
         deed \in {"post", "edit", "delete"} <=> c \in Comments,
         deed = "post" => /\ comment[c].stage = "absent"
                          /\ \A s \in Requests : request[s].comment # c,
         deed \in {"edit", "delete"} => comment[c].stage # "absent"
  PROVE  CommentInv'
<1>1. /\ request'[r].step = "waiting" /\ request'[r].deed = deed
      /\ request'[r].comment = c /\ request'[r].at = clock + 1
      /\ \A s \in Requests \ {r} : request'[s] = request[s]
      /\ request[r].step = "idle"
      /\ clock' = clock + 1
      /\ UNCHANGED <<comment, activity>>
  BY DEF Begin, CommentInv, TypeOK, Idle, talk
<1>2. clock \in Nat /\ \A s \in Requests : request[s].at \in Nat
  BY DEF CommentInv, TypeOK, Request
<1>3. \A e \in activity : e.at \in Nat
  BY DEF CommentInv, TypeOK, Entry
<1>4. Pending' = Pending \cup {r} /\ r \notin Pending
  BY <1>1 DEF Pending
<1>5. TimesAreOwn'
  BY <1>1, <1>2, <1>3, <1>4 DEF CommentInv, TimesAreOwn, Pending
<1>6. ASSUME NEW s \in Pending' PROVE Fits(s)'
  <2>1. CASE s = r
    <3>1. \A e \in activity : e.at < clock + 1
      BY <1>2, <1>3 DEF CommentInv, TimesAreOwn
    <3> QED BY <2>1, <3>1, <1>1 DEF Fits
  <2>2. CASE s # r
    <3>1. s \in Requests /\ s \in Pending /\ Fits(s) /\ request'[s] = request[s]
      BY <2>2, <1>1, <1>4 DEF CommentInv, Pending
    <3>2. request[s].deed = "post" => c # request[s].comment
      BY <3>1, DiscussionAssumption DEF Fits
    <3> QED BY <3>1, <3>2, <1>1 DEF Fits
  <2> QED BY <2>1, <2>2
<1>7. OneWorks'
  BY <1>1 DEF CommentInv, OneWorks
<1>8. CommentsAreExplained'
  BY <1>1 DEF CommentInv, CommentsAreExplained, EntriesOf
<1> QED BY <1>5, <1>6, <1>7, <1>8 DEF CommentInv

LEMMA AbandonKeeps ==
  ASSUME CommentInv, TypeOK', NEW r \in Requests, Abandon(r)
  PROVE  CommentInv'
<1>1. /\ request'[r] = Idle
      /\ \A s \in Requests \ {r} : request'[s] = request[s]
      /\ UNCHANGED <<comment, activity, clock>>
  BY DEF Abandon, CommentInv, TypeOK, talk
<1>2. Pending' = Pending \ {r}
  BY <1>1 DEF Pending, Idle
<1>3. ASSUME NEW s \in Pending' PROVE Fits(s)'
  <2>1. s \in Requests /\ s # r /\ s \in Pending /\ Fits(s) /\ request'[s] = request[s]
    BY <1>1, <1>2 DEF CommentInv, Pending
  <2>2. None \notin Comments /\ request'[r].comment = None
    BY <1>1, DiscussionAssumption DEF Idle
  <2> QED BY <2>1, <2>2, <1>1 DEF Fits
<1>4. TimesAreOwn' /\ OneWorks'
  BY <1>1, <1>2 DEF CommentInv, TimesAreOwn, OneWorks, Idle, Pending
<1>5. CommentsAreExplained'
  BY <1>1 DEF CommentInv, CommentsAreExplained, EntriesOf
<1> QED BY <1>3, <1>4, <1>5 DEF CommentInv

(* A request works on under the lock. *)
LEMMA WorkKeeps ==
  ASSUME CommentInv, TypeOK', NEW r \in Requests, r \in Pending,
         \A s \in Requests \ {r} : request[s].step # "working",
         request[r].deed \in {"edit", "delete"} =>
           comment[request[r].comment].stage = "posted",
         UNCHANGED <<comment, activity, clock>>,
         \A s \in Requests \ {r} : request'[s] = request[s],
         /\ request'[r].step = "working"
         /\ request'[r].deed = request[r].deed
         /\ request'[r].comment = request[r].comment
         /\ request'[r].at = request[r].at
  PROVE  CommentInv'
<1>1. Pending' = Pending
  BY DEF Pending
<1>2. \A s \in Requests : /\ request'[s].deed = request[s].deed
                          /\ request'[s].comment = request[s].comment
                          /\ request'[s].at = request[s].at
  OBVIOUS
<1>3. ASSUME NEW s \in Pending' PROVE Fits(s)'
  <2>1. s \in Requests /\ Fits(s)
    BY <1>1 DEF CommentInv, Pending
  <2>2. CASE s = r
    BY <2>1, <2>2, <1>2 DEF Fits
  <2>3. CASE s # r
    BY <2>1, <2>3, <1>2 DEF Fits
  <2> QED BY <2>2, <2>3
<1>4. TimesAreOwn'
  BY <1>1, <1>2 DEF CommentInv, TimesAreOwn, Pending
<1>5. OneWorks'
  BY DEF OneWorks
<1>6. CommentsAreExplained'
  BY DEF CommentInv, CommentsAreExplained, EntriesOf
<1> QED BY <1>3, <1>4, <1>5, <1>6 DEF CommentInv

(* A commit adds the entry that its change of the comment calls for. *)
LEMMA CommitKeeps ==
  ASSUME CommentInv, TypeOK', NEW r \in Requests, Commit(r)
  PROVE  CommentInv'
<1> DEFINE q == request[r]
           c == q.comment
           n == EntryOf(q)
<1>1. /\ request'[r] = Idle
      /\ \A s \in Requests \ {r} : request'[s] = request[s]
      /\ clock' = clock
      /\ activity' = IF c # None THEN activity \cup {n} ELSE activity
      /\ q.step = "working"
      /\ r \in Pending
  BY DEF Commit, CommentInv, TypeOK, Pending
<1>2. Pending' = Pending \ {r}
  BY <1>1 DEF Pending, Idle
<1>3. Fits(r) /\ q \in Request /\ (c # None <=> c \in Comments)
  BY <1>1, DiscussionAssumption DEF CommentInv, TypeOK, Request
<1>4. n.at = q.at /\ n.comment = c
  BY DEF EntryOf
<1>5. TimesAreOwn'
  BY <1>1, <1>2, <1>4 DEF CommentInv, TimesAreOwn, Pending
<1>6. OneWorks'
  BY <1>1 DEF CommentInv, OneWorks, Idle
<1>7. /\ q.deed = "post" =>
            c \in Comments /\ comment' = [comment EXCEPT ![c] =
              [stage |-> "posted", author |-> q.actor, text |-> q.at]]
      /\ q.deed = "edit" => c \in Comments /\ comment' = [comment EXCEPT ![c].text = q.at]
      /\ q.deed = "delete" => c \in Comments /\ comment' = [comment EXCEPT ![c] = Gone]
      /\ q.deed \notin {"post", "edit", "delete"} => c \notin Comments /\ comment' = comment
  BY <1>3 DEF Commit, Fits
<1>8. \A d \in Comments \ {c} : comment'[d] = comment[d]
  BY <1>7 DEF CommentInv, TypeOK
<1>9. c \in Comments => comment[c] \in CommentRow
  BY DEF CommentInv, TypeOK
<1>10. c \in Comments /\ comment[c].stage # "absent" => comment'[c].stage # "absent"
  BY <1>3, <1>7, <1>9 DEF CommentRow, Gone, CommentInv, TypeOK, Request
<1>11. ASSUME NEW s \in Pending' PROVE Fits(s)'
  <2> DEFINE d == request[s].comment
  <2>1. s \in Requests /\ s # r /\ s \in Pending /\ Fits(s) /\ request'[s] = request[s]
    BY <1>1, <1>2 DEF CommentInv, Pending
  <2>2. request[s].step # "working"
    BY <2>1, <1>1 DEF CommentInv, OneWorks
  <2>3. CASE request[s].deed = "post"
    <3>1. d \in Comments /\ d # c /\ comment[d].stage = "absent"
      BY <2>1, <2>3 DEF Fits
    <3>2. comment'[d].stage = "absent"
      BY <3>1, <1>8
    <3>3. \A t \in Requests \ {s} : request'[t].comment # d
      BY <2>1, <2>3, <3>1, <1>1, DiscussionAssumption DEF Fits, Idle
    <3> QED BY <2>1, <2>3, <3>2, <3>3 DEF Fits
  <2>4. CASE request[s].deed \in {"edit", "delete"}
    <3>1. d \in Comments /\ comment[d].stage # "absent"
      BY <2>1, <2>4 DEF Fits
    <3>2. comment'[d].stage # "absent"
      BY <3>1, <1>8, <1>10
    <3>3. q.deed = "post" => c # d
      BY <2>1, <1>3 DEF Fits
    <3>4. q.deed # "post" => n.kind # "comment_added"
      BY DEF EntryOf
    <3>5. \A e \in activity' :
            e.comment = d /\ e.kind = "comment_added" => e.at < request[s].at
      BY <2>1, <2>4, <3>3, <3>4, <1>1, <1>4 DEF Fits
    <3> QED BY <2>1, <2>2, <2>4, <3>2, <3>5 DEF Fits
  <2>5. CASE request[s].deed \notin {"post", "edit", "delete"}
    BY <2>1, <2>5 DEF Fits
  <2> QED BY <2>3, <2>4, <2>5
<1>12. CommentsAreExplained'
  <2> SUFFICES ASSUME NEW d \in Comments
               PROVE  LET E == EntriesOf(d)'
                      IN /\ comment'[d].stage = "absent" => E = {}
                         /\ comment'[d].stage # "absent" =>
                              \E a \in E : /\ a.kind = "comment_added"
                                           /\ \A e \in E \ {a} : /\ e.kind # "comment_added"
                                                                 /\ a.at < e.at
                         /\ comment'[d].stage = "deleted" =>
                              \E f \in E : /\ f.kind = "comment_deleted"
                                           /\ \A e \in E \ {f} : e.kind # "comment_deleted"
                         /\ comment'[d].stage = "posted" =>
                              /\ \A e \in E : e.kind # "comment_deleted"
                              /\ \E e \in E : e.at = comment'[d].text
    BY DEF CommentsAreExplained
  <2> DEFINE E == EntriesOf(d)
  <2>1. CASE d # c
    <3>1. EntriesOf(d)' = E
      BY <2>1, <1>1, <1>4 DEF EntriesOf
    <3> QED BY <2>1, <3>1, <1>8 DEF CommentInv, CommentsAreExplained
  <2>2. CASE d = c
    <3>1. EntriesOf(d)' = E \cup {n}
      BY <2>2, <1>1, <1>3, <1>4 DEF EntriesOf
    <3>2. q.deed \in {"post", "edit", "delete"}
      BY <2>2, <1>3 DEF Fits
    <3>3. CASE q.deed = "post"
      <4>1. E = {}
        BY <2>2, <3>3, <1>3 DEF Fits, CommentInv, CommentsAreExplained
      <4>2. n.kind = "comment_added"
        BY <3>3 DEF EntryOf
      <4>3. comment'[d].stage = "posted" /\ comment'[d].text = q.at
        BY <2>2, <3>3, <1>7 DEF CommentInv, TypeOK
      <4> QED BY <3>1, <4>1, <4>2, <4>3, <1>4
    <3>4. CASE q.deed \in {"edit", "delete"}
      <4>1. comment[d].stage = "posted"
        BY <2>2, <3>4, <1>1, <1>3 DEF Fits
      <4>2. PICK a \in E : /\ a.kind = "comment_added"
                          /\ \A e \in E \ {a} : e.kind # "comment_added" /\ a.at < e.at
        BY <4>1 DEF CommentInv, CommentsAreExplained
      <4>3. a.at < q.at
        BY <2>2, <3>4, <4>2, <1>3 DEF Fits, EntriesOf
      <4>4. \A e \in E : e.kind # "comment_deleted"
        BY <4>1 DEF CommentInv, CommentsAreExplained
      <4>5. n.kind # "comment_added"
        BY <3>4 DEF EntryOf
      <4>6. /\ a \in E \cup {n}
            /\ \A e \in (E \cup {n}) \ {a} : e.kind # "comment_added" /\ a.at < e.at
        BY <4>2, <4>3, <4>5, <1>4
      <4>7. CASE q.deed = "edit"
        <5>1. n.kind = "comment_updated"
          BY <4>7 DEF EntryOf
        <5>2. comment'[d].stage = "posted" /\ comment'[d].text = q.at
          BY <2>2, <4>1, <4>7, <1>7, <1>9 DEF CommentInv, TypeOK, CommentRow
        <5> QED BY <3>1, <4>2, <4>4, <4>6, <5>1, <5>2, <1>4
      <4>8. CASE q.deed = "delete"
        <5>1. n.kind = "comment_deleted"
          BY <4>8 DEF EntryOf
        <5>2. comment'[d].stage = "deleted"
          BY <2>2, <4>8, <1>7 DEF Gone, CommentInv, TypeOK
        <5> QED BY <3>1, <4>2, <4>4, <4>6, <5>1, <5>2
      <4> QED BY <3>4, <4>7, <4>8
    <3> QED BY <3>2, <3>3, <3>4
  <2> QED BY <2>1, <2>2
<1> QED BY <1>5, <1>6, <1>11, <1>12 DEF CommentInv

LEMMA RequestKeeps ==
  ASSUME CommentInv, TypeOK', NEW r \in Requests, Requesting(r)
  PROVE  CommentInv'
<1> DEFINE q == request[r]
<1> USE DiscussionAssumption
<1>1. CASE BeginCreateComment(r)
  BY <1>1, BeginKeeps DEF BeginCreateComment, Deeds
<1>2. CASE BeginUpdateComment(r)
  BY <1>2, BeginKeeps DEF BeginUpdateComment, Deeds
<1>3. CASE BeginDeleteComment(r)
  BY <1>3, BeginKeeps DEF BeginDeleteComment, Deeds
<1>4. CASE BeginAssign(r)
  BY <1>4, BeginKeeps DEF BeginAssign, Deeds
<1>5. CASE BeginSprint(r)
  BY <1>5, BeginKeeps DEF BeginSprint, Deeds
<1>6. CASE Abandon(r)
  BY <1>6, AbandonKeeps
<1>7. ASSUME NEW todo, NEW to, Work(r, todo, to), Lock(r),
             q.deed \in {"edit", "delete"} => comment[q.comment].stage = "posted"
      PROVE  CommentInv'
  <2>1. request' = [request EXCEPT ![r] =
          [q EXCEPT !.step = "working", !.todo = todo, !.to = to]]
    BY <1>7 DEF Work
  <2>2. q \in Request /\ r \in Pending /\ \A s \in Requests : request[s].step # "working"
    BY <1>7 DEF Lock, Unlocked, Pending, CommentInv, TypeOK
  <2>3. /\ request'[r].step = "working" /\ request'[r].deed = q.deed
        /\ request'[r].comment = q.comment /\ request'[r].at = q.at
        /\ \A s \in Requests \ {r} : request'[s] = request[s]
    BY <2>1, <2>2 DEF CommentInv, TypeOK, Request
  <2>4. UNCHANGED <<comment, activity, clock>>
    BY <1>7 DEF Work, talk
  <2> QED BY <1>7, <2>2, <2>3, <2>4, WorkKeeps
<1>8. CASE CreateComment(r)
  <2>1. PICK mentioned : Work(r, Rows(CommentRecipients(q, mentioned)), None)
    BY <1>8 DEF CreateComment
  <2> QED BY <1>7, <1>8, <2>1 DEF CreateComment
<1>9. CASE UpdateComment(r) \/ DeleteComment(r)
  BY <1>7, <1>9 DEF UpdateComment, DeleteComment, Change
<1>10. CASE Assign(r)
  <2>1. \E todo, to : Work(r, todo, to)
    BY <1>10 DEF Assign
  <2> QED BY <1>7, <1>10, <2>1 DEF Assign
<1>11. CASE StartOrCompleteSprint(r)
  <2> DEFINE told == Rows({u \in Users : CanRead(u)} \ {q.actor})
  <2>1. request' = [request EXCEPT ![r] = [q EXCEPT !.step = "working", !.told = told]]
    BY <1>11 DEF StartOrCompleteSprint
  <2> HIDE DEF told
  <2>2. q \in Request /\ r \in Pending /\ \A s \in Requests : request[s].step # "working"
    BY <1>11 DEF StartOrCompleteSprint, Lock, Unlocked, Pending, CommentInv, TypeOK
  <2>3. /\ request'[r].step = "working" /\ request'[r].deed = q.deed
        /\ request'[r].comment = q.comment /\ request'[r].at = q.at
        /\ \A s \in Requests \ {r} : request'[s] = request[s]
    BY <2>1, <2>2 DEF CommentInv, TypeOK, Request
  <2>4. UNCHANGED <<comment, activity, clock>> /\ q.deed = "sprint"
    BY <1>11 DEF StartOrCompleteSprint, talk
  <2> QED BY <2>2, <2>3, <2>4, WorkKeeps
<1>12. CASE NotifyIssueComment(r) \/ NotifyAutomationChanges(r)
  <2>1. PICK todo, told : request' = [request EXCEPT ![r] =
          [q EXCEPT !.todo = todo, !.told = told]]
    BY <1>12 DEF NotifyIssueComment, NotifyAutomationChanges, Tell
  <2>2. q \in Request /\ q.step = "working" /\ r \in Pending /\ q.deed \in {"post", "assign"}
    BY <1>12 DEF NotifyIssueComment, NotifyAutomationChanges, Tell, Pending, CommentInv, TypeOK
  <2>3. \A s \in Requests \ {r} : request[s].step # "working"
    BY <2>2 DEF CommentInv, OneWorks
  <2>4. /\ request'[r].step = "working" /\ request'[r].deed = q.deed
        /\ request'[r].comment = q.comment /\ request'[r].at = q.at
        /\ \A s \in Requests \ {r} : request'[s] = request[s]
    BY <2>1, <2>2 DEF CommentInv, TypeOK, Request
  <2>5. UNCHANGED <<comment, activity, clock>>
    BY <1>12 DEF NotifyIssueComment, NotifyAutomationChanges, Tell, talk
  <2> QED BY <2>2, <2>3, <2>4, <2>5, WorkKeeps
<1>13. CASE Commit(r)
  BY <1>13, CommitKeeps
<1> QED
  BY <1>1, <1>2, <1>3, <1>4, <1>5, <1>6, <1>8, <1>9, <1>10, <1>11, <1>12, <1>13
     DEF Requesting

(* The activity of a comment has it added once and first, deleted once if  *)
(* it is gone, and an entry for its text: for any number of requests that  *)
(* overlap on any number of comments.                                      *)
THEOREM CommentsStayExplained == Spec => []CommentsAreExplained
<1>1. Init /\ TypeOK => CommentInv
  BY DEF Init, CommentInv, TimesAreOwn, Pending, OneWorks, CommentsAreExplained,
         EntriesOf, Idle
<1>2. CommentInv /\ TypeOK' /\ [Next]_vars => CommentInv'
  <2> SUFFICES ASSUME CommentInv, TypeOK', [Next]_vars PROVE CommentInv'
    OBVIOUS
  <2>1. CASE \E r \in Requests : Requesting(r)
    BY <2>1, RequestKeeps
  <2>2. CASE \E u \in Movers : SetWorkspaceRole(u) \/ SetProjectRole(u)
    BY <2>2, ElsewhereKeeps DEF SetWorkspaceRole, SetProjectRole, talk
  <2>3. CASE (\E i \in Issues : ArchiveIssue(i)) \/ ArchiveProject
    BY <2>3, ElsewhereKeeps DEF ArchiveIssue, ArchiveProject, talk
  <2>4. CASE MarkRead \/ MarkAllRead \/ AskPage \/ ListPage
    BY <2>4, ElsewhereKeeps DEF MarkRead, MarkAllRead, AskPage, ListPage, talk
  <2>5. CASE UNCHANGED vars
    BY <2>5, ElsewhereKeeps DEF vars, talk
  <2> QED BY <2>1, <2>2, <2>3, <2>4, <2>5 DEF Next
<1>3. CommentInv => CommentsAreExplained
  BY DEF CommentInv
<1> QED BY <1>1, <1>2, <1>3, TypeCorrect, PTL DEF Spec

----------------------------------------------------------------------------
(* A row's rank is below the number of rows, and grows with the rows. *)
LEMMA RankBounds ==
  ASSUME NEW S \in SUBSET Notification, IsFiniteSet(S), NEW n \in S
  PROVE  /\ Cardinality(S) \in Nat
         /\ Rank(n, S) \in Nat
         /\ Rank(n, S) < Cardinality(S)
<1> DEFINE T == {m \in S : Before(m, n)}
<1>1. ~Before(n, n)
  <2>1. n.at \in Nat /\ n.id \in Nat
    BY DEF Notification
  <2> QED BY <2>1 DEF Before
<1>2. T \subseteq S \ {n}
  BY <1>1
<1>3. IsFiniteSet(S \ {n}) /\ Cardinality(S \ {n}) = Cardinality(S) - 1
  BY FS_RemoveElement
<1>4. Cardinality(T) <= Cardinality(S \ {n}) /\ IsFiniteSet(T)
  <2> HIDE DEF T
  <2> QED BY <1>2, <1>3, FS_Subset
<1>5. Cardinality(T) \in Nat /\ Cardinality(S) \in Nat
  BY <1>4, FS_CardinalityType
<1> QED BY <1>3, <1>4, <1>5 DEF Rank

LEMMA RankGrows ==
  ASSUME NEW S, NEW R, IsFiniteSet(R), S \subseteq R, NEW n
  PROVE  Rank(n, S) <= Rank(n, R) /\ Rank(n, S) \in Nat /\ Rank(n, R) \in Nat
<1> DEFINE T == {m \in S : Before(m, n)}
           V == {m \in R : Before(m, n)}
<1>1. T \subseteq V /\ V \subseteq R
  OBVIOUS
<1>2. IsFiniteSet(V) /\ IsFiniteSet(T) /\ Cardinality(T) <= Cardinality(V)
  <2> HIDE DEF T, V
  <2> QED BY <1>1, FS_Subset
<1>3. Cardinality(T) \in Nat /\ Cardinality(V) \in Nat
  BY <1>2, FS_CardinalityType
<1> QED BY <1>2, <1>3 DEF Rank

(* What has not been shown yet comes after the offset of the next page.    *)
PageInv ==
    /\ pages.step \in {"rest", "first"} => pages.offset = 0 /\ pages.listed = {}
    /\ pages.step \in {"turn", "next"} =>
         /\ pages.unseen \subseteq pages.listed
         /\ \A n \in pages.unseen : Rank(n, pages.listed) >= pages.offset
    /\ pages.step = "end" => pages.unseen = {}

LEMMA ListPageKeeps ==
  ASSUME TypeOK, PageInv, ListPage
  PROVE  PageInv'
<1> DEFINE rows == Visible(pages.admin)
           offset == pages.offset
           wanted == IF pages.step = "first" THEN rows ELSE pages.unseen
<1>1. rows \subseteq Notification /\ IsFiniteSet(rows)
  <2>1. rows \subseteq inbox
    BY DEF Visible
  <2> HIDE DEF rows
  <2> QED BY <2>1, FS_Subset DEF TypeOK
<1>2. offset \in Nat /\ Limit \in Nat
  BY DiscussionAssumption DEF TypeOK, Paging
<1>3. CASE ~(pages.listed \subseteq rows)
  <2>1. pages' = [Unpaged EXCEPT !.step = "lost"]
    BY <1>3 DEF ListPage
  <2> QED BY <2>1 DEF PageInv, Unpaged
<1>4. CASE pages.listed \subseteq rows
  <2>1. \A n \in wanted : n \in rows /\ Rank(n, rows) >= offset /\ Rank(n, rows) \in Nat
    <3>1. CASE pages.step = "first"
      <4> SUFFICES ASSUME NEW n \in rows PROVE Rank(n, rows) >= offset /\ Rank(n, rows) \in Nat
        BY <3>1
      <4>1. offset = 0
        BY <3>1 DEF PageInv
      <4> HIDE DEF rows, offset
      <4> QED BY <4>1, <1>1, RankBounds
    <3>2. CASE pages.step = "next"
      <4> SUFFICES ASSUME NEW n \in pages.unseen
                   PROVE  n \in rows /\ Rank(n, rows) >= offset /\ Rank(n, rows) \in Nat
        BY <3>2
      <4>1. n \in pages.listed /\ Rank(n, pages.listed) >= offset
        BY <3>2 DEF PageInv
      <4>2. /\ Rank(n, pages.listed) <= Rank(n, rows)
            /\ Rank(n, pages.listed) \in Nat /\ Rank(n, rows) \in Nat
        <5> HIDE DEF rows
        <5> QED BY <1>1, <1>4, RankGrows
      <4> HIDE DEF rows, offset
      <4> QED BY <4>1, <4>2, <1>2, <1>4
    <3> QED BY <3>1, <3>2 DEF ListPage
  <2>2. CASE HasNext(rows, offset)
    <3>1. pages' = [step |-> "turn", admin |-> FALSE, offset |-> NextOffset(offset),
                    unseen |-> wanted \ Page(rows, offset), listed |-> rows]
      BY <1>4, <2>2 DEF ListPage
    <3>2. \A n \in wanted \ Page(rows, offset) : Rank(n, rows) >= NextOffset(offset)
      <4> HIDE DEF rows, offset, wanted
      <4> QED BY <1>2, <2>1 DEF Page, NextOffset
    <3> HIDE DEF rows, offset, wanted
    <3> QED BY <2>1, <3>1, <3>2 DEF PageInv
  <2>3. CASE ~HasNext(rows, offset)
    <3>1. pages' = [Unpaged EXCEPT !.step = "end", !.unseen = wanted \ Page(rows, offset)]
      BY <1>4, <2>3 DEF ListPage
    <3> HIDE DEF rows, offset, wanted
    <3>2. ASSUME NEW n \in wanted PROVE n \in Page(rows, offset)
      <4>1. Rank(n, rows) < Cardinality(rows) /\ Cardinality(rows) \in Nat
        BY <1>1, <2>1, <3>2, RankBounds
      <4> QED BY <1>2, <2>1, <2>3, <3>2, <4>1 DEF HasNext, Page
    <3>3. pages'.unseen = {} /\ pages'.step = "end"
      BY <3>1, <3>2 DEF Unpaged
    <3> QED BY <3>3 DEF PageInv
  <2> QED BY <2>2, <2>3
<1> QED BY <1>3, <1>4

(* Paging to the end shows all that was there at the first page, for any   *)
(* number of notifications and any order in which they arrive.             *)
THEOREM PagesNeverMiss == Spec => []PagesMissNothing
<1>1. Init => PageInv
  BY DEF Init, PageInv, Unpaged
<1>2. TypeOK /\ PageInv /\ [Next]_vars => PageInv'
  <2> SUFFICES ASSUME TypeOK, PageInv, [Next]_vars PROVE PageInv'
    OBVIOUS
  <2>1. CASE ListPage
    BY <2>1, ListPageKeeps
  <2>2. CASE AskPage
    <3>1. /\ pages'.step = IF pages.step = "rest" THEN "first" ELSE "next"
          /\ pages'.offset = pages.offset /\ pages'.unseen = pages.unseen
          /\ pages'.listed = pages.listed /\ pages.step \in {"rest", "turn"}
      BY <2>2 DEF AskPage, TypeOK, Paging
    <3> QED BY <3>1 DEF PageInv
  <2>3. CASE pages' = pages
    BY <2>3 DEF PageInv
  <2>4. ASSUME NEW r \in Requests, Requesting(r) PROVE pages' = pages
    BY <2>4 DEF Requesting, BeginCreateComment, BeginUpdateComment, BeginDeleteComment,
         BeginAssign, BeginSprint, Begin, Abandon, CreateComment, UpdateComment,
         DeleteComment, Change, Assign, Work, StartOrCompleteSprint, NotifyIssueComment,
         NotifyAutomationChanges, Tell, Commit
  <2> QED
    BY <2>1, <2>2, <2>3, <2>4 DEF Next, SetWorkspaceRole, SetProjectRole, ArchiveIssue,
       ArchiveProject, MarkRead, MarkAllRead, vars
<1>3. PageInv => PagesMissNothing
  BY DEF PageInv, PagesMissNothing
<1> QED BY <1>1, <1>2, <1>3, TypeCorrect, PTL DEF Spec
=============================================================================
