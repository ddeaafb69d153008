-------------------------- MODULE PlanningProofs --------------------------
(***************************************************************************)
(* For any projects, issues, sprints and overlapping requests: what a      *)
(* request read under its locks still stands when it writes; parents have  *)
(* no cycle within a project and fit the types; what is archived or        *)
(* completed stays so.                                                     *)
(***************************************************************************)
EXTENDS Planning, TLAPS

(* What a request knows.  The rows it names, of the kinds its step needs.  *)
Named(q) ==
    /\ q.step # "idle" => q.issue \in Issues
    /\ q.step \in {"create", "parent", "reparent"} =>
         q.other \in Issues \cup {None} /\ q.other # q.issue
    /\ q.step \in {"parent", "reparent"} => q.other # q.from
    /\ q.step = "create" =>
         /\ q.kind \in Types
         /\ q.kind = "subtask" => q.other # None
         /\ q.kind = "epic" => q.other = None
    /\ q.step \in {"add", "remove"} => q.other \in Sprints
    /\ q.step \in {"link", "find", "unlink"} =>
         /\ q.other \in Issues /\ q.other # q.issue
         /\ q.kind \in LinkTypes
         /\ q.from \in {q.issue, q.other}
    /\ q.step = "link" => q.from = q.issue

(* The project rows it has locked, all of them open. *)
Holds(q) ==
    /\ q.locks \subseteq open
    /\ q.step \notin {"idle", "add", "remove"} => Home[q.issue] \in q.locks
    /\ q.step \in {"add", "remove"} => Home[q.other] \in q.locks
    /\ q.step = "reparent" /\ q.other # None => Home[q.other] \in q.locks

(* What it has read. *)
Reads(q) ==
    /\ q.step = "create" => issue[q.issue].stage = "absent"
    /\ q.step \in {"parent", "reparent"} =>
         /\ issue[q.issue].stage = "open"
         /\ issue[q.issue].parent = q.from
         /\ issue[q.issue].type = "epic" => q.other = None
         /\ issue[q.issue].type = "subtask" => q.other # None
    /\ q.step = "reparent" /\ q.other # None => issue[q.other].stage = "open"
    /\ q.step \in {"link", "find", "unlink"} => issue[q.issue].stage = "open"
    /\ q.step = "unlink" => LinkOf(q) \in links

(* The ancestors it has walked through in a project of its own: a set that *)
(* is closed under the parents there, with the new parent and without the  *)
(* issue.                                                                  *)
ClosedIn(T, p) ==
    \A i \in T :
        /\ Home[i] = p
        /\ issue[i].parent \in Live /\ Home[issue[i].parent] = p => issue[i].parent \in T
Walked(q) ==
    q.step = "reparent" /\ q.other # None /\ Home[q.other] = Home[q.issue] =>
        \E T \in SUBSET Issues :
            q.other \in T /\ q.issue \notin T /\ ClosedIn(T, Home[q.issue])

Sound(q) == Named(q) /\ Holds(q) /\ Reads(q) /\ Walked(q)

Exclusive ==
    \A r, s \in Requests : r # s =>
        /\ request[r].locks \cap request[s].locks = {}
        /\ ~(request[r].step = "unlink" /\ request[s].step = "unlink"
             /\ LinkOf(request[r]) = LinkOf(request[s]))

(* No issue is linked to itself. *)
ProperLinks == \A l \in links : l[1] # l[2]

IInv ==
    /\ TypeOK
    /\ \A r \in Requests : Sound(request[r])
    /\ Exclusive
    /\ ProperLinks

----------------------------------------------------------------------------
(* A request is left as sound as it was by a step that stays clear of the  *)
(* projects it holds.                                                      *)
LEMMA SoundStays ==
    ASSUME TypeOK, NEW q \in Request, Sound(q), q.locks \subseteq open',
           \A i \in Issues : Home[i] \in q.locks => issue'[i] = issue[i],
           q.step = "unlink" => LinkOf(q) \in links'
    PROVE  Sound(q)'
<1>1. Named(q)'
  BY DEF Sound, Named
<1>2. Holds(q)'
  BY DEF Sound, Holds
<1>3. Reads(q)'
  BY DEF Sound, Reads, Named, Holds
<1>4. Walked(q)'
  <2> SUFFICES ASSUME q.step = "reparent", q.other # None, Home[q.other] = Home[q.issue]
               PROVE  \E T \in SUBSET Issues :
                        q.other \in T /\ q.issue \notin T /\ ClosedIn(T, Home[q.issue])'
    BY DEF Walked
  <2>1. PICK T \in SUBSET Issues :
          q.other \in T /\ q.issue \notin T /\ ClosedIn(T, Home[q.issue])
    BY DEF Sound, Walked
  <2>2. Home[q.issue] \in q.locks /\ Home[q.issue] \in open
    BY DEF Sound, Holds
  <2>3. \A i \in Issues : Home[i] = Home[q.issue] => issue'[i] = issue[i]
    BY <2>2
  <2>4. \A i \in Issues : Home[i] = Home[q.issue] => (i \in Live' => i \in Live)
    BY <2>2, <2>3 DEF Live
  <2>5. ClosedIn(T, Home[q.issue])'
    <3> SUFFICES ASSUME NEW i \in T
                 PROVE  /\ Home[i] = Home[q.issue]
                        /\ issue'[i].parent \in Live' /\ Home[issue'[i].parent] = Home[q.issue] =>
                             issue'[i].parent \in T
      BY DEF ClosedIn
    <3>1. i \in Issues /\ Home[i] = Home[q.issue] /\ issue'[i] = issue[i]
      BY <2>1, <2>3 DEF ClosedIn
    <3>2. issue[i].parent \in Live' => issue[i].parent \in Issues
      BY DEF Live
    <3> QED BY <2>1, <2>4, <3>1, <3>2 DEF ClosedIn
  <2> QED BY <2>1, <2>5
<1> QED BY <1>1, <1>2, <1>3, <1>4 DEF Sound

(* A step of one request keeps the invariant if the others' projects are   *)
(* not touched and what it goes on with is sound.                          *)
LEMMA OneMoves ==
    ASSUME IInv, NEW r \in Requests, NEW next \in Request,
           request' = [request EXCEPT ![r] = next],
           open' = open, sprint' \in [Sprints -> SprintRow],
           issue' \in [Issues -> IssueRow], links' \in SUBSET Links, ProperLinks',
           \A x \in Requests \ {r} :
               /\ next.locks \cap request[x].locks = {}
               /\ \A i \in Issues : Home[i] \in request[x].locks => issue'[i] = issue[i]
               /\ request[x].step = "unlink" =>
                    /\ LinkOf(request[x]) \in links'
                    /\ next.step = "unlink" => LinkOf(request[x]) # LinkOf(next),
           Sound(next)'
    PROVE  IInv'
<1> USE DEF IInv
<1>1. TypeOK'
  BY DEF TypeOK
<1>2. /\ request'[r] = next
      /\ \A x \in Requests \ {r} : request'[x] = request[x]
  BY DEF TypeOK
<1>3. ASSUME NEW x \in Requests PROVE Sound(request[x])'
  <2>1. CASE x = r
    BY <2>1, <1>2 DEF Sound, Named, Holds, Reads, Walked, ClosedIn, LinkOf
  <2>2. CASE x # r
    <3> DEFINE q == request[x]
    <3>1. q \in Request /\ Sound(q) /\ q.locks \subseteq open'
      BY DEF TypeOK, Sound, Holds
    <3>2. Sound(q) /\ request'[x] = request[x]
      BY <3>1, <1>2, <2>2
    <3> HIDE DEF q
    <3>3. ASSUME NEW y, y = q PROVE Sound(y)'
      <4>1. y \in Request /\ Sound(y) /\ y.locks \subseteq open'
        BY <3>1, <3>3
      <4>2. \A i \in Issues : Home[i] \in y.locks => issue'[i] = issue[i]
        BY <3>3, <2>2 DEF q
      <4>3. y.step = "unlink" => LinkOf(y) \in links'
        BY <3>3, <2>2 DEF q
      <4> QED BY <4>1, <4>2, <4>3, SoundStays
    <3> QED BY <3>2, <3>3 DEF q, Sound, Named, Holds, Reads, Walked, ClosedIn, LinkOf
  <2> QED BY <2>1, <2>2
<1>4. Exclusive'
  BY <1>2 DEF Exclusive
<1> QED BY <1>1, <1>3, <1>4

(* The same for a handler that is over at once. *)
LEMMA NobodyMoves ==
    ASSUME IInv, request' = request, open' \in SUBSET open,
           sprint' \in [Sprints -> SprintRow], issue' \in [Issues -> IssueRow], links' = links,
           \A x \in Requests :
               /\ request[x].locks \subseteq open'
               /\ \A i \in Issues : Home[i] \in request[x].locks => issue'[i] = issue[i]
    PROVE  IInv'
<1> USE DEF IInv
<1>1. TypeOK'
  BY DEF TypeOK
<1>2. ASSUME NEW x \in Requests PROVE Sound(request[x])'
  <2>1. ASSUME NEW y, y = request[x] PROVE Sound(y)'
    <3>1. y \in Request /\ Sound(y) /\ y.locks \subseteq open'
      BY <2>1 DEF TypeOK
    <3>2. y.step = "unlink" => LinkOf(y) \in links'
      BY <3>1 DEF Sound, Reads
    <3> QED BY <2>1, <3>1, <3>2, SoundStays
  <2> QED BY <2>1 DEF Sound, Named, Holds, Reads, Walked, ClosedIn, LinkOf
<1>3. Exclusive'
  BY DEF Exclusive, LinkOf
<1>4. ProperLinks'
  BY DEF ProperLinks
<1> QED BY <1>1, <1>2, <1>3, <1>4

----------------------------------------------------------------------------
(* Which second project a step waits for, and what it then checks. *)
LEMMA WantedFacts ==
    ASSUME NEW q
    PROVE  /\ q.step \in {"create", "parent", "link", "unlink"} /\ q.other # None =>
                Wanted(q) = {Home[q.other]}
           /\ q.step \in {"create", "parent"} /\ q.other = None => Wanted(q) = {}
           /\ q.step \in {"add", "remove"} => Wanted(q) = {Home[q.issue]}
           /\ q.step = "find" => Wanted(q) = {}
BY DEF Wanted

LEMMA AcceptedFacts ==
    ASSUME NEW q, Accepted(q)
    PROVE  /\ q.step = "create" => q.other = None \/ q.other \in Live
           /\ q.step = "parent" => ParentAccepted(q)
           /\ q.step = "add" => /\ sprint[q.other].status # "completed"
                                /\ q.issue \in Live
                                /\ Home[q.issue] = Home[q.other]
           /\ q.step = "remove" => sprint[q.other].status # "completed" /\ q.issue \in Live
           /\ q.step = "link" => {q.issue, q.other} \subseteq Live /\ ~LinkKnown(q)
           /\ q.step = "find" => LinkOf(q) \in links /\ {q.issue, q.other} \subseteq Live
BY DEF Accepted

LEMMA IdleIsSound == Idle \in Request /\ Sound(Idle)
BY DEF Idle, Request, Steps, Sound, Named, Holds, Reads, Walked

LEMMA IdleStaysSound == Sound(Idle)'
BY DEF Idle, Sound, Named, Holds, Reads, Walked

(* A request that begins with a project nobody has locked.                 *)
LEMMA BeginKeepsInv ==
    ASSUME IInv, NEW r \in Requests, NEW step \in Steps \ {"idle", "reparent", "unlink"},
           NEW i \in Issues, NEW o \in Issues \cup Sprints \cup {None},
           NEW kind \in Types \cup LinkTypes \cup {"none"}, NEW from \in Issues \cup {None},
           NEW p \in Projects, Begin(r, step, i, o, kind, from, p),
           NEW q, q = [step |-> step, issue |-> i, other |-> o, kind |-> kind,
                       from |-> from, locks |-> {p}],
           Named(q), Reads(q),
           p = IF step \in {"add", "remove"} THEN Home[o] ELSE Home[i]
    PROVE  IInv'
<1>1. q \in Request
  BY DEF Request
<1>2. /\ request' = [request EXCEPT ![r] = q]
      /\ UNCHANGED <<open, sprint, issue, links>>
      /\ p \in open
      /\ \A x \in Requests \ {r} : p \notin request[x].locks
  BY DEF Begin, Lockable, Free
<1>3. Sound(q)
  <2>1. Holds(q)
    BY <1>2 DEF Holds
  <2>2. Walked(q)
    BY DEF Walked
  <2> QED BY <2>1, <2>2 DEF Sound
<1>4. q.locks = {p} /\ q.step # "unlink"
  OBVIOUS
<1>5. Sound(q)'
  BY <1>2, <1>3 DEF Sound, Named, Holds, Reads, Walked, ClosedIn, LinkOf, Live
<1>6. \A x \in Requests : request[x].step = "unlink" => LinkOf(request[x]) \in links
  BY DEF IInv, Sound, Reads
<1>7. /\ sprint' \in [Sprints -> SprintRow]
      /\ issue' \in [Issues -> IssueRow] /\ links' \in SUBSET Links /\ ProperLinks'
  BY <1>2 DEF IInv, TypeOK, ProperLinks
<1>8. \A x \in Requests \ {r} : q.locks \cap request[x].locks = {}
  BY <1>2, <1>4
<1>9. /\ request' = [request EXCEPT ![r] = q]
      /\ open' = open /\ issue' = issue /\ links' = links
  BY <1>2
<1> QED BY <1>1, <1>4, <1>5, <1>6, <1>7, <1>8, <1>9, OneMoves

(* A transaction that ends, and what may be said of the rows it wrote.     *)
LEMMA FinishKeepsInv ==
    ASSUME IInv, NEW r \in Requests, Finish(r), open' = open,
           sprint' \in [Sprints -> SprintRow],
           issue' \in [Issues -> IssueRow], links' \in SUBSET Links, ProperLinks',
           \A x \in Requests \ {r} :
               /\ \A i \in Issues : Home[i] \in request[x].locks => issue'[i] = issue[i]
               /\ request[x].step = "unlink" => LinkOf(request[x]) \in links'
    PROVE  IInv'
<1>1. Idle.locks = {} /\ Idle.step # "unlink"
  BY DEF Idle
<1> QED BY <1>1, IdleIsSound, IdleStaysSound, OneMoves DEF Finish

(* Nobody else has locked the projects of a request that goes on.          *)
LEMMA ProceedFacts ==
    ASSUME IInv, NEW r \in Requests, NEW step, Proceed(r, step)
    PROVE  /\ request[r].step = step
           /\ Sound(request[r]) /\ request[r] \in Request
           /\ Wanted(request[r]) \subseteq open
           /\ Accepted(request[r])
           /\ \A x \in Requests \ {r} :
                /\ (request[r].locks \cup Wanted(request[r])) \cap request[x].locks = {}
                /\ request[x].step = "unlink" => LinkOf(request[x]) \in links
                /\ ~WaitsForLink(r, x)
BY DEF Proceed, Ready, Visible, Free, IInv, TypeOK, Exclusive, Sound, Reads

LEMMA RowKeepsInv ==
    ASSUME IInv, NEW r \in Requests, Finish(r), UNCHANGED <<open, sprint, links>>,
           NEW i \in Issues, NEW row \in IssueRow, issue' = [issue EXCEPT ![i] = row],
           \A x \in Requests \ {r} : Home[i] \notin request[x].locks
    PROVE  IInv'
<1>1. /\ sprint' \in [Sprints -> SprintRow]
      /\ issue' \in [Issues -> IssueRow] /\ links' \in SUBSET Links /\ ProperLinks'
      /\ \A j \in Issues : j # i => issue'[j] = issue[j]
  BY DEF IInv, TypeOK, ProperLinks
<1>2. \A x \in Requests : request[x].step = "unlink" => LinkOf(request[x]) \in links'
  BY DEF IInv, Sound, Reads
<1> QED BY <1>1, <1>2, FinishKeepsInv

LEMMA RowWithNobodyKeepsInv ==
    ASSUME IInv, UNCHANGED <<open, sprint, links, request>>,
           NEW i \in Issues, NEW row \in IssueRow, issue' = [issue EXCEPT ![i] = row],
           Unlocked(Home[i])
    PROVE  IInv'
<1>1. /\ sprint' \in [Sprints -> SprintRow]
      /\ issue' \in [Issues -> IssueRow]
      /\ \A j \in Issues : j # i => issue'[j] = issue[j]
      /\ \A x \in Requests : request[x].locks \subseteq open'
  BY DEF IInv, TypeOK, Sound, Holds
<1> QED BY <1>1, NobodyMoves DEF Unlocked

LEMMA SprintKeepsInv ==
    ASSUME IInv, sprint' \in [Sprints -> SprintRow], UNCHANGED <<open, issue, links, request>>
    PROVE  IInv'
<1>1. /\ issue' \in [Issues -> IssueRow]
      /\ \A x \in Requests : request[x].locks \subseteq open'
  BY DEF IInv, TypeOK, Sound, Holds
<1> QED BY <1>1, NobodyMoves

LEMMA StartsKeepInv == ASSUME IInv, NEW r \in Requests, Starts(r) PROVE IInv'
<1>home. \A x \in Issues \cup Sprints : Home[x] \in Projects
  BY PlanningAssumption
<1>1. ASSUME BeginCreate(r) PROVE IInv'
  <2>1. PICK i \in Issues, o \in Issues \cup {None}, t \in Types :
          /\ issue[i].stage = "absent"
          /\ t = "subtask" => o # None
          /\ t = "epic" => o = None
          /\ i # o
          /\ Begin(r, "create", i, o, t, None, Home[i])
    BY <1>1 DEF BeginCreate
  <2> DEFINE q == [step |-> "create", issue |-> i, other |-> o, kind |-> t,
                   from |-> None, locks |-> {Home[i]}]
  <2>2. Named(q) /\ Reads(q)
    BY <2>1 DEF Named, Reads
  <2> HIDE DEF q
  <2> QED BY <2>1, <2>2, <1>home, BeginKeepsInv DEF q, Steps
<1>2. ASSUME BeginSetParent(r) PROVE IInv'
  <2>1. PICK i \in Live, o \in Issues \cup {None} :
          /\ issue[i].type = "epic" => o = None
          /\ issue[i].type = "subtask" => o # None
          /\ o \notin {i, issue[i].parent}
          /\ Begin(r, "parent", i, o, "none", issue[i].parent, Home[i])
    BY <1>2 DEF BeginSetParent
  <2> DEFINE q == [step |-> "parent", issue |-> i, other |-> o, kind |-> "none",
                   from |-> issue[i].parent, locks |-> {Home[i]}]
  <2>2. i \in Issues /\ issue[i].stage = "open" /\ issue[i].parent \in Issues \cup {None}
    BY <2>1 DEF Live, IInv, TypeOK, IssueRow
  <2>3. Named(q) /\ Reads(q)
    BY <2>1, <2>2 DEF Named, Reads
  <2> HIDE DEF q
  <2> QED BY <2>1, <2>2, <2>3, <1>home, BeginKeepsInv DEF q, Steps
<1>3. ASSUME BeginAdd(r) \/ BeginRemove(r) PROVE IInv'
  <2>1. PICK i \in Issues, s \in Sprints, step \in {"add", "remove"} :
          Begin(r, step, i, s, "none", None, Home[s])
    BY <1>3 DEF BeginAdd, BeginRemove
  <2> DEFINE q == [step |-> step, issue |-> i, other |-> s, kind |-> "none",
                   from |-> None, locks |-> {Home[s]}]
  <2>2. Named(q) /\ Reads(q)
    BY DEF Named, Reads
  <2> HIDE DEF q
  <2> QED BY <2>1, <2>2, <1>home, BeginKeepsInv DEF q, Steps
<1>4. ASSUME BeginLink(r) PROVE IInv'
  <2>1. PICK i \in Live, o \in Issues, t \in LinkTypes :
          i # o /\ Begin(r, "link", i, o, t, i, Home[i])
    BY <1>4 DEF BeginLink
  <2> DEFINE q == [step |-> "link", issue |-> i, other |-> o, kind |-> t,
                   from |-> i, locks |-> {Home[i]}]
  <2>2. i \in Issues /\ issue[i].stage = "open"
    BY DEF Live
  <2>3. Named(q) /\ Reads(q)
    BY <2>1, <2>2 DEF Named, Reads
  <2> HIDE DEF q
  <2> QED BY <2>1, <2>2, <2>3, <1>home, BeginKeepsInv DEF q, Steps
<1>5. ASSUME BeginUnlink(r) PROVE IInv'
  <2>1. PICK l \in links : \E i \in {l[1], l[2]} \cap Live :
          Begin(r, "find", i, IF i = l[1] THEN l[2] ELSE l[1], l[3], l[1], Home[i])
    BY <1>5 DEF BeginUnlink
  <2>2. PICK i \in {l[1], l[2]} \cap Live :
          Begin(r, "find", i, IF i = l[1] THEN l[2] ELSE l[1], l[3], l[1], Home[i])
    BY <2>1
  <2> DEFINE o == IF i = l[1] THEN l[2] ELSE l[1]
  <2>3. /\ i \in Issues /\ o \in Issues /\ o # i
        /\ l[3] \in LinkTypes /\ l[1] \in {i, o}
        /\ issue[i].stage = "open"
    BY DEF IInv, TypeOK, Links, ProperLinks, Live
  <2> HIDE DEF o
  <2> DEFINE q == [step |-> "find", issue |-> i, other |-> o, kind |-> l[3],
                   from |-> l[1], locks |-> {Home[i]}]
  <2>4. Named(q) /\ Reads(q)
    BY <2>3 DEF Named, Reads
  <2>5. Begin(r, "find", i, o, l[3], l[1], Home[i])
    BY <2>2 DEF o
  <2> HIDE DEF q
  <2> QED BY <2>3, <2>4, <2>5, <1>home, BeginKeepsInv DEF q, Steps
<1> QED BY <1>1, <1>2, <1>3, <1>4, <1>5 DEF Starts

(* The lock on the project that comes second is taken, and the ancestors   *)
(* are walked: the issue's new parent stays within a closed set.           *)
LEMMA CheckParentKeepsInv == ASSUME IInv, NEW r \in Requests, CheckParent(r) PROVE IInv'
<1> DEFINE q == request[r]
<1>1. /\ q.step = "parent" /\ Sound(q) /\ q \in Request
      /\ Wanted(q) \subseteq open
      /\ Accepted(q)
      /\ \A x \in Requests \ {r} : (q.locks \cup Wanted(q)) \cap request[x].locks = {}
      /\ UNCHANGED <<open, sprint, issue, links>>
      /\ request' = [request EXCEPT ![r].step = "reparent", ![r].locks = @ \cup Wanted(q)]
  BY ProceedFacts DEF CheckParent
<1>2. /\ q.other = None => Wanted(q) = {}
      /\ q.other # None => Wanted(q) = {Home[q.other]}
  BY <1>1, WantedFacts
<1>3. /\ q.issue \in Issues /\ q.other \in Issues \cup {None}
      /\ q.other \notin {q.issue, q.from}
      /\ q.locks \subseteq open /\ Home[q.issue] \in q.locks
      /\ Reads(q)
  BY <1>1 DEF Sound, Named, Holds
<1>4. ParentAccepted(q)
  BY <1>1, AcceptedFacts
<1>all. request \in [Requests -> Request]
  BY DEF IInv, TypeOK
<1>go. /\ request' \in [Requests -> Request]
       /\ \A x \in Requests \ {r} : request'[x] = request[x]
       /\ request'[r].step = "reparent" /\ request'[r].locks = q.locks \cup Wanted(q)
       /\ request'[r].issue = q.issue /\ request'[r].other = q.other
       /\ request'[r].kind = q.kind /\ request'[r].from = q.from
  <2>1. Wanted(q) \in SUBSET Projects
    BY <1>1 DEF IInv, TypeOK
  <2> QED BY <1>1, <1>all, <2>1 DEF Request, Steps
<1>pick. PICK next : next = request'[r]
  OBVIOUS
<1>next. /\ next \in Request
         /\ request' = [request EXCEPT ![r] = next]
         /\ next.step = "reparent" /\ next.locks = q.locks \cup Wanted(q)
         /\ next.issue = q.issue /\ next.other = q.other
         /\ next.kind = q.kind /\ next.from = q.from
  BY <1>all, <1>go, <1>pick
<1>7. Sound(next)
  <2>1. Named(next)
    BY <1>3, <1>next DEF Named
  <2>2. Holds(next)
    BY <1>1, <1>2, <1>3, <1>next DEF Holds
  <2>3. Reads(next)
    <3>1. q.other # None => issue[q.other].stage = "open"
      BY <1>4 DEF ParentAccepted, Live
    <3> QED BY <1>1, <1>3, <1>next, <3>1 DEF Reads
  <2>4. Walked(next)
    <3> SUFFICES ASSUME q.other # None, Home[q.other] = Home[q.issue]
                 PROVE  \E T \in SUBSET Issues :
                          q.other \in T /\ q.issue \notin T /\ ClosedIn(T, Home[q.issue])
      BY <1>next DEF Walked
    <3>1. PICK U \in SUBSET Live : q.other \in U /\ ClosedUpwards(U) /\ q.issue \notin U
      BY <1>4 DEF ParentAccepted, Reaches
    <3> DEFINE T == {i \in U : Home[i] = Home[q.issue]}
    <3>2. T \in SUBSET Issues /\ q.other \in T /\ q.issue \notin T
      BY <3>1 DEF Live
    <3>3. ClosedIn(T, Home[q.issue])
      BY <3>1 DEF ClosedIn, ClosedUpwards
    <3> QED BY <3>2, <3>3
  <2> QED BY <2>1, <2>2, <2>3, <2>4 DEF Sound
<1>9. Sound(next)'
  BY <1>1, <1>7 DEF Sound, Named, Holds, Reads, Walked, ClosedIn, LinkOf, Live
<1>10. /\ sprint' \in [Sprints -> SprintRow]
       /\ issue' \in [Issues -> IssueRow] /\ links' \in SUBSET Links /\ ProperLinks'
  BY <1>1 DEF IInv, TypeOK, ProperLinks
<1>11. ASSUME NEW x \in Requests \ {r}
       PROVE  /\ next.locks \cap request[x].locks = {}
              /\ request[x].step = "unlink" => LinkOf(request[x]) \in links'
  BY <1>1, <1>next DEF IInv, Sound, Reads
<1>12. open' = open /\ issue' = issue
  BY <1>1
<1> HIDE DEF q
<1> QED BY <1>next, <1>9, <1>10, <1>11, <1>12, OneMoves

(* The link's row is locked by nobody else; the other issue's project is   *)
(* still to be locked.                                                     *)
LEMMA FindLinkKeepsInv == ASSUME IInv, NEW r \in Requests, FindLink(r) PROVE IInv'
<1> DEFINE q == request[r]
<1>1. /\ q.step = "find" /\ Sound(q) /\ q \in Request
      /\ Accepted(q)
      /\ \A x \in Requests \ {r} : q.locks \cap request[x].locks = {} /\ ~WaitsForLink(r, x)
      /\ UNCHANGED <<open, sprint, issue, links>>
      /\ request' = [request EXCEPT ![r].step = "unlink"]
  BY ProceedFacts DEF FindLink
<1>2. LinkOf(q) \in links
  BY <1>1, AcceptedFacts
<1>all. request \in [Requests -> Request]
  BY DEF IInv, TypeOK
<1>go. /\ request' \in [Requests -> Request]
       /\ \A x \in Requests \ {r} : request'[x] = request[x]
       /\ request'[r].step = "unlink" /\ request'[r].locks = q.locks
       /\ request'[r].issue = q.issue /\ request'[r].other = q.other
       /\ request'[r].kind = q.kind /\ request'[r].from = q.from
  BY <1>1, <1>all DEF Request, Steps
<1>pick. PICK next : next = request'[r]
  OBVIOUS
<1>next. /\ next \in Request
         /\ request' = [request EXCEPT ![r] = next]
         /\ next.step = "unlink" /\ next.locks = q.locks
         /\ next.issue = q.issue /\ next.other = q.other
         /\ next.kind = q.kind /\ next.from = q.from
  BY <1>all, <1>go, <1>pick
<1>5. LinkOf(next) = LinkOf(q)
  BY <1>next DEF LinkOf
<1>6. Sound(next)
  <2>1. Named(next) /\ Holds(next)
    BY <1>1, <1>next DEF Sound, Named, Holds
  <2>2. Reads(next)
    BY <1>1, <1>2, <1>5, <1>next DEF Sound, Reads
  <2>3. Walked(next)
    BY <1>next DEF Walked
  <2> QED BY <2>1, <2>2, <2>3 DEF Sound
<1>8. Sound(next)'
  BY <1>1, <1>6 DEF Sound, Named, Holds, Reads, Walked, ClosedIn, LinkOf, Live
<1>9. /\ sprint' \in [Sprints -> SprintRow]
      /\ issue' \in [Issues -> IssueRow] /\ links' \in SUBSET Links /\ ProperLinks'
  BY <1>1 DEF IInv, TypeOK, ProperLinks
<1>10. ASSUME NEW x \in Requests \ {r}
       PROVE  /\ next.locks \cap request[x].locks = {}
              /\ request[x].step = "unlink" =>
                   LinkOf(request[x]) \in links' /\ LinkOf(request[x]) # LinkOf(next)
  BY <1>1, <1>5, <1>next DEF IInv, Sound, Reads, WaitsForLink
<1>11. open' = open /\ issue' = issue
  BY <1>1
<1> HIDE DEF q
<1> QED BY <1>next, <1>8, <1>9, <1>10, <1>11, OneMoves

LEMMA ContinuesKeepsInv == ASSUME IInv, NEW r \in Requests, Continues(r) PROVE IInv'
<1> DEFINE q == request[r]
<1>row. IInv => issue \in [Issues -> IssueRow]
  BY DEF IInv, TypeOK
<1>1. ASSUME Create(r) PROVE IInv'
  <2>1. /\ q.step = "create" /\ Sound(q)
        /\ issue' = [issue EXCEPT ![q.issue] = [stage |-> "open", type |-> q.kind,
                                                parent |-> q.other, sprint |-> None]]
        /\ Finish(r) /\ UNCHANGED <<open, sprint, links>>
        /\ \A x \in Requests \ {r} : q.locks \cap request[x].locks = {}
    BY <1>1, ProceedFacts DEF Create
  <2>2. /\ q.issue \in Issues /\ q.other \in Issues \cup {None} /\ q.kind \in Types
        /\ Home[q.issue] \in q.locks
    BY <2>1 DEF Sound, Named, Holds
  <2>3. [stage |-> "open", type |-> q.kind, parent |-> q.other, sprint |-> None] \in IssueRow
    BY <2>2 DEF IssueRow, Stages
  <2> QED BY <2>1, <2>2, <2>3, RowKeepsInv
<1>2. ASSUME SetParent(r) PROVE IInv'
  <2>1. /\ q.step = "reparent" /\ Sound(q)
        /\ issue' = [issue EXCEPT ![q.issue].parent = q.other]
        /\ Finish(r) /\ UNCHANGED <<open, sprint, links>>
        /\ \A x \in Requests \ {r} : q.locks \cap request[x].locks = {}
    BY <1>2 DEF SetParent, IInv, Exclusive
  <2>2. /\ q.issue \in Issues /\ q.other \in Issues \cup {None}
        /\ Home[q.issue] \in q.locks
    BY <2>1 DEF Sound, Named, Holds
  <2>3. /\ [issue[q.issue] EXCEPT !.parent = q.other] \in IssueRow
        /\ issue' = [issue EXCEPT ![q.issue] = [issue[q.issue] EXCEPT !.parent = q.other]]
    BY <1>row, <2>1, <2>2 DEF IssueRow
  <2> QED BY <2>1, <2>2, <2>3, RowKeepsInv
<1>3. ASSUME Add(r) PROVE IInv'
  <2>1. /\ q.step = "add" /\ Sound(q)
        /\ issue' = [issue EXCEPT ![q.issue].sprint = q.other]
        /\ Finish(r) /\ UNCHANGED <<open, sprint, links>>
        /\ \A x \in Requests \ {r} : Wanted(q) \cap request[x].locks = {}
    BY <1>3, ProceedFacts DEF Add
  <2>2. q.issue \in Issues /\ q.other \in Sprints /\ Wanted(q) = {Home[q.issue]}
    BY <2>1, WantedFacts DEF Sound, Named
  <2>3. /\ [issue[q.issue] EXCEPT !.sprint = q.other] \in IssueRow
        /\ issue' = [issue EXCEPT ![q.issue] = [issue[q.issue] EXCEPT !.sprint = q.other]]
    BY <1>row, <2>1, <2>2 DEF IssueRow
  <2>4. \A x \in Requests \ {r} : Home[q.issue] \notin request[x].locks
    BY <2>1, <2>2
  <2>5. q.issue \in Issues /\ Finish(r) /\ UNCHANGED <<open, sprint, links>>
    BY <2>1, <2>2
  <2> HIDE DEF q
  <2> QED BY <2>3, <2>4, <2>5, RowKeepsInv
<1>4. ASSUME Remove(r) PROVE IInv'
  <2>1. /\ q.step = "remove" /\ Sound(q)
        /\ issue' = [issue EXCEPT ![q.issue].sprint = None]
        /\ Finish(r) /\ UNCHANGED <<open, sprint, links>>
        /\ \A x \in Requests \ {r} : Wanted(q) \cap request[x].locks = {}
    BY <1>4, ProceedFacts DEF Remove
  <2>2. q.issue \in Issues /\ Wanted(q) = {Home[q.issue]}
    BY <2>1, WantedFacts DEF Sound, Named
  <2>3. /\ [issue[q.issue] EXCEPT !.sprint = None] \in IssueRow
        /\ issue' = [issue EXCEPT ![q.issue] = [issue[q.issue] EXCEPT !.sprint = None]]
    BY <1>row, <2>1, <2>2 DEF IssueRow
  <2>4. \A x \in Requests \ {r} : Home[q.issue] \notin request[x].locks
    BY <2>1, <2>2
  <2>5. q.issue \in Issues /\ Finish(r) /\ UNCHANGED <<open, sprint, links>>
    BY <2>1, <2>2
  <2> HIDE DEF q
  <2> QED BY <2>3, <2>4, <2>5, RowKeepsInv
<1>5. ASSUME Link(r) PROVE IInv'
  <2>1. /\ q.step = "link" /\ Sound(q)
        /\ links' = links \cup {LinkOf(q)}
        /\ Finish(r) /\ UNCHANGED <<open, sprint, issue>>
    BY <1>5, ProceedFacts DEF Link
  <2>2. LinkOf(q) \in Links /\ LinkOf(q)[1] # LinkOf(q)[2]
    BY <2>1 DEF Sound, Named, LinkOf, Links
  <2>3. /\ sprint' \in [Sprints -> SprintRow] /\ issue' \in [Issues -> IssueRow]
        /\ links' \in SUBSET Links /\ ProperLinks'
    BY <2>1, <2>2 DEF IInv, TypeOK, ProperLinks
  <2>4. \A x \in Requests : request[x].step = "unlink" => LinkOf(request[x]) \in links'
    BY <2>1 DEF IInv, Sound, Reads
  <2> QED BY <2>1, <2>3, <2>4, FinishKeepsInv
<1>6. ASSUME Unlink(r) PROVE IInv'
  <2>1. /\ q.step = "unlink"
        /\ links' = links \ {LinkOf(q)}
        /\ Finish(r) /\ UNCHANGED <<open, sprint, issue>>
    BY <1>6 DEF Unlink, Proceed
  <2>2. /\ sprint' \in [Sprints -> SprintRow] /\ issue' \in [Issues -> IssueRow]
        /\ links' \in SUBSET Links /\ ProperLinks'
    BY <2>1 DEF IInv, TypeOK, ProperLinks
  <2>3. \A x \in Requests \ {r} : request[x].step = "unlink" => LinkOf(request[x]) \in links'
    BY <2>1 DEF IInv, Sound, Reads, Exclusive
  <2> QED BY <2>1, <2>2, <2>3, FinishKeepsInv
<1>7. ASSUME Rollback(r) PROVE IInv'
  <2>1. /\ sprint' \in [Sprints -> SprintRow] /\ issue' \in [Issues -> IssueRow]
        /\ links' \in SUBSET Links /\ ProperLinks'
    BY <1>7 DEF Rollback, IInv, TypeOK, ProperLinks
  <2>2. \A x \in Requests : request[x].step = "unlink" => LinkOf(request[x]) \in links'
    BY <1>7 DEF Rollback, IInv, Sound, Reads
  <2> QED BY <1>7, <2>1, <2>2, FinishKeepsInv DEF Rollback
<1> QED
  BY <1>1, <1>2, <1>3, <1>4, <1>5, <1>6, <1>7, CheckParentKeepsInv, FindLinkKeepsInv
  DEF Continues, Refuse

LEMMA AbortKeepsInv == ASSUME IInv, NEW r \in Requests, Abort(r) PROVE IInv'
<1>1. /\ sprint' \in [Sprints -> SprintRow] /\ issue' \in [Issues -> IssueRow]
      /\ links' \in SUBSET Links /\ ProperLinks'
  BY DEF Abort, Rollback, IInv, TypeOK, ProperLinks
<1>2. \A x \in Requests : request[x].step = "unlink" => LinkOf(request[x]) \in links'
  BY DEF Abort, Rollback, IInv, Sound, Reads
<1> QED BY <1>1, <1>2, FinishKeepsInv DEF Abort, Rollback

(* Every action preserves the invariant. *)
LEMMA StepKeepsInv == IInv /\ [Next]_vars => IInv'
<1> SUFFICES ASSUME IInv, [Next]_vars PROVE IInv'
  OBVIOUS
<1>1. ASSUME NEW s \in Sprints, NEW g \in Goals, CreateSprint(s, g) \/ UpdateSprint(s, g)
      PROVE  IInv'
  <2>1. sprint' \in [Sprints -> SprintRow]
    BY <1>1 DEF CreateSprint, UpdateSprint, IInv, TypeOK, SprintRow, SprintStatuses
  <2> QED BY <1>1, <2>1, SprintKeepsInv DEF CreateSprint, UpdateSprint
<1>2. ASSUME NEW s \in Sprints, StartSprint(s) \/ CompleteSprint(s) PROVE IInv'
  <2>1. sprint' \in [Sprints -> SprintRow]
    BY <1>2 DEF StartSprint, CompleteSprint, IInv, TypeOK, SprintRow, SprintStatuses
  <2> QED BY <1>2, <2>1, SprintKeepsInv DEF StartSprint, CompleteSprint
<1>3. ASSUME NEW i \in Issues, ArchiveIssue(i) PROVE IInv'
  <2>1. /\ [issue[i] EXCEPT !.stage = "archived"] \in IssueRow
        /\ issue' = [issue EXCEPT ![i] = [issue[i] EXCEPT !.stage = "archived"]]
    BY <1>3 DEF ArchiveIssue, IInv, TypeOK, IssueRow, Stages
  <2> QED BY <1>3, <2>1, RowWithNobodyKeepsInv DEF ArchiveIssue
<1>4. ASSUME NEW i \in Issues, NEW t \in Types, UpdateIssue(i, t) PROVE IInv'
  <2>1. /\ [issue[i] EXCEPT !.type = t] \in IssueRow
        /\ issue' = [issue EXCEPT ![i] = [issue[i] EXCEPT !.type = t]]
    BY <1>4 DEF UpdateIssue, IInv, TypeOK, IssueRow
  <2> QED BY <1>4, <2>1, RowWithNobodyKeepsInv DEF UpdateIssue
<1>5. ASSUME NEW p \in Projects, ArchiveProject(p) PROVE IInv'
  <2>1. /\ open' = open \ {p} /\ UNCHANGED <<sprint, issue, links, request>>
        /\ \A x \in Requests : request[x].locks \subseteq open'
    BY <1>5 DEF ArchiveProject, Unlocked, IInv, Sound, Holds
  <2> QED BY <2>1, NobodyMoves DEF IInv, TypeOK
<1>6. CASE UNCHANGED vars
  <2>1. /\ UNCHANGED <<open, sprint, issue, links, request>>
        /\ \A x \in Requests : request[x].locks \subseteq open'
    BY <1>6 DEF vars, IInv, Sound, Holds
  <2> QED BY <2>1, NobodyMoves DEF IInv, TypeOK
<1> QED
  BY <1>1, <1>2, <1>3, <1>4, <1>5, <1>6, StartsKeepInv, ContinuesKeepsInv, AbortKeepsInv DEF Next

LEMMA InvHolds == Spec => []IInv
<1>1. Init => IInv
  <2> SUFFICES ASSUME Init PROVE IInv
    OBVIOUS
  <2>1. TypeOK
    <3>1. NoRow \in IssueRow /\ [status |-> "absent", goal |-> None] \in SprintRow
      BY DEF NoRow, IssueRow, Stages, SprintRow, SprintStatuses
    <3> QED BY <3>1, IdleIsSound DEF Init, TypeOK
  <2>2. \A r \in Requests : Sound(request[r])
    BY IdleIsSound DEF Init
  <2>3. Exclusive /\ ProperLinks
    BY DEF Init, Exclusive, ProperLinks, Idle
  <2> QED BY <2>1, <2>2, <2>3 DEF IInv
<1> QED BY <1>1, StepKeepsInv, PTL DEF Spec

(* Every value a step writes has its type.                                 *)
THEOREM TypeCorrect == Spec => []TypeOK
<1>1. IInv => TypeOK
  BY DEF IInv
<1> QED BY <1>1, InvHolds, PTL

(* What a request read before it waited for its second project, or for the *)
(* row of a link, still stands when it writes.                             *)
THEOREM ReadsAlwaysStand == Spec => []ReadsStand
<1>1. IInv => ReadsStand
  <2> SUFFICES ASSUME IInv, NEW r \in Requests
               PROVE  LET q == request[r]
                      IN  /\ q.step \in {"parent", "reparent"} =>
                               /\ issue[q.issue].parent = q.from
                               /\ issue[q.issue].type = "epic" => q.other = None
                               /\ issue[q.issue].type = "subtask" => q.other # None
                          /\ q.step = "reparent" => {q.issue, q.other} \ {None} \subseteq Live
                          /\ q.step = "unlink" => LinkOf(q) \in links
    BY DEF ReadsStand
  <2> QED BY DEF IInv, Sound, Named, Holds, Reads, Live
<1> QED BY <1>1, InvHolds, PTL

----------------------------------------------------------------------------
(* What a step may do to the rows of the issues, given the invariant.      *)
Creates(i) ==
    /\ issue[i].stage = "absent" /\ Home[i] \in open
    /\ \E t \in Types, o \in Issues \cup {None} :
        /\ issue' = [issue EXCEPT ![i] = [stage |-> "open", type |-> t,
                                          parent |-> o, sprint |-> None]]
        /\ t = "subtask" => o # None
        /\ t = "epic" => o = None
        /\ o # i
        /\ o # None => o \in Live
Moves(i) ==
    /\ i \in Live
    /\ \E o \in Issues \cup {None} :
        /\ issue' = [issue EXCEPT ![i].parent = o]
        /\ issue[i].type = "subtask" => o # None
        /\ issue[i].type = "epic" => o = None
        /\ o # None => o \in Live
        /\ o # None /\ Home[o] = Home[i] =>
             \E T \in SUBSET Issues : o \in T /\ i \notin T /\ ClosedIn(T, Home[i])
Plans(i) ==
    /\ i \in Live
    /\ \E s \in Sprints \cup {None} :
        /\ issue' = [issue EXCEPT ![i].sprint = s]
        /\ s # None => sprint[s].status # "completed"
Retypes(i) == i \in Live /\ \E t \in Types : UpdateIssue(i, t)
Archives(i) == i \in Live /\ issue' = [issue EXCEPT ![i].stage = "archived"]

(* Every step by the handler that writes in it; the others only lock,      *)
(* check or end.                                                           *)
Writes(r) == Create(r) \/ SetParent(r) \/ Add(r) \/ Remove(r) \/ Link(r) \/ Unlink(r)

Alone ==
    \/ \E s \in Sprints, g \in Goals : CreateSprint(s, g) \/ UpdateSprint(s, g)
    \/ \E s \in Sprints : StartSprint(s) \/ CompleteSprint(s)
    \/ \E i \in Issues : ArchiveIssue(i) \/ \E t \in Types : UpdateIssue(i, t)
    \/ \E p \in Projects : ArchiveProject(p)

LEMMA StepKinds ==
    ASSUME Next
    PROVE  (\E r \in Requests : Writes(r)) \/ Alone \/ UNCHANGED <<open, sprint, issue, links>>
<1>1. ASSUME NEW r \in Requests, Starts(r)
      PROVE  UNCHANGED <<open, sprint, issue, links>>
  BY <1>1 DEF Starts, BeginCreate, BeginSetParent, BeginAdd, BeginRemove, BeginLink,
              BeginUnlink, Begin
<1>2. ASSUME NEW r \in Requests, Continues(r)
      PROVE  Writes(r) \/ UNCHANGED <<open, sprint, issue, links>>
  BY <1>2 DEF Continues, Writes, CheckParent, FindLink, Refuse, Rollback
<1>3. ASSUME NEW r \in Requests, Abort(r)
      PROVE  UNCHANGED <<open, sprint, issue, links>>
  BY <1>3 DEF Abort, Rollback
<1> QED BY <1>1, <1>2, <1>3 DEF Next, Alone

LEMMA IssueSteps ==
    ASSUME IInv, Next
    PROVE  \/ UNCHANGED issue
           \/ open' = open /\ \E i \in Issues :
                Creates(i) \/ Moves(i) \/ Plans(i) \/ Retypes(i) \/ Archives(i)
<1> DEFINE Goal == \/ UNCHANGED issue
                   \/ open' = open /\ \E i \in Issues :
                        Creates(i) \/ Moves(i) \/ Plans(i) \/ Retypes(i) \/ Archives(i)
<1>1. ASSUME NEW r \in Requests, Create(r) PROVE Goal
  <2> DEFINE q == request[r]
  <2>1. /\ q.step = "create" /\ Sound(q) /\ Accepted(q)
        /\ open' = open
        /\ issue' = [issue EXCEPT ![q.issue] = [stage |-> "open", type |-> q.kind,
                                                parent |-> q.other, sprint |-> None]]
    BY <1>1, ProceedFacts DEF Create
  <2>2. /\ q.issue \in Issues /\ issue[q.issue].stage = "absent" /\ Home[q.issue] \in open
        /\ q.kind \in Types /\ q.other \in Issues \cup {None} /\ q.other # q.issue
        /\ q.kind = "subtask" => q.other # None
        /\ q.kind = "epic" => q.other = None
    BY <2>1 DEF Sound, Named, Holds, Reads
  <2>3. q.other = None \/ q.other \in Live
    BY <2>1, AcceptedFacts
  <2>4. Creates(q.issue)
    BY <2>1, <2>2, <2>3 DEF Creates
  <2> QED BY <2>1, <2>2, <2>4
<1>2. ASSUME NEW r \in Requests, SetParent(r) PROVE Goal
  <2> DEFINE q == request[r]
  <2>1. /\ q.step = "reparent" /\ Sound(q)
        /\ open' = open
        /\ issue' = [issue EXCEPT ![q.issue].parent = q.other]
    BY <1>2 DEF SetParent, IInv
  <2>2. /\ q.issue \in Issues /\ q.other \in Issues \cup {None}
        /\ q.issue \in Live /\ (q.other # None => q.other \in Live)
        /\ issue[q.issue].type = "epic" => q.other = None
        /\ issue[q.issue].type = "subtask" => q.other # None
    BY <2>1 DEF Sound, Named, Holds, Reads, Live
  <2>3. q.other # None /\ Home[q.other] = Home[q.issue] =>
          \E T \in SUBSET Issues : q.other \in T /\ q.issue \notin T /\ ClosedIn(T, Home[q.issue])
    BY <2>1 DEF Sound, Walked
  <2>4. Moves(q.issue)
    BY <2>1, <2>2, <2>3 DEF Moves
  <2> QED BY <2>1, <2>2, <2>4
<1>3. ASSUME NEW r \in Requests, Add(r) \/ Remove(r) PROVE Goal
  <2> DEFINE q == request[r]
  <2>1. CASE Add(r)
    <3>1. /\ q.step = "add" /\ Sound(q) /\ Accepted(q)
          /\ open' = open
          /\ issue' = [issue EXCEPT ![q.issue].sprint = q.other]
      BY <2>1, ProceedFacts DEF Add
    <3>2. /\ q.issue \in Live /\ q.issue \in Issues /\ q.other \in Sprints
          /\ sprint[q.other].status # "completed"
      BY <3>1, AcceptedFacts DEF Sound, Named
    <3>3. Plans(q.issue)
      BY <3>1, <3>2 DEF Plans
    <3> QED BY <3>1, <3>2, <3>3
  <2>2. CASE Remove(r)
    <3>1. /\ q.step = "remove" /\ Sound(q) /\ Accepted(q)
          /\ open' = open
          /\ issue' = [issue EXCEPT ![q.issue].sprint = None]
      BY <2>2, ProceedFacts DEF Remove
    <3>2. q.issue \in Live /\ q.issue \in Issues
      BY <3>1, AcceptedFacts DEF Sound, Named
    <3>3. Plans(q.issue)
      BY <3>1, <3>2 DEF Plans
    <3> QED BY <3>1, <3>2, <3>3
  <2> QED BY <1>3, <2>1, <2>2
<1>4. ASSUME NEW i \in Issues, ArchiveIssue(i) \/ \E t \in Types : UpdateIssue(i, t) PROVE Goal
  BY <1>4 DEF ArchiveIssue, UpdateIssue, Archives, Retypes
<1>5. \/ UNCHANGED issue
      \/ \E r \in Requests : Create(r) \/ SetParent(r) \/ Add(r) \/ Remove(r)
      \/ \E i \in Issues : ArchiveIssue(i) \/ \E t \in Types : UpdateIssue(i, t)
  BY StepKinds DEF Writes, Link, Unlink, Alone, CreateSprint, UpdateSprint, StartSprint,
         CompleteSprint, ArchiveProject
<1> QED BY <1>1, <1>2, <1>3, <1>4, <1>5

(* Types keep to what parents there are, through changes of both sides.    *)
LEMMA TypesStep ==
    ASSUME IInv, TypesFitParents, Next
    PROVE  TypesFitParents'
<1> USE DEF TypesFitParents
<1>0. issue \in [Issues -> IssueRow]
  BY DEF IInv, TypeOK
<1>1. ASSUME NEW i \in Issues, Creates(i) PROVE TypesFitParents'
  BY <1>0, <1>1 DEF Creates
<1>2. ASSUME NEW i \in Issues, Moves(i) PROVE TypesFitParents'
  BY <1>0, <1>2 DEF Moves, IssueRow
<1>3. ASSUME NEW i \in Issues, Plans(i) \/ Archives(i) PROVE TypesFitParents'
  BY <1>0, <1>3 DEF Plans, Archives, IssueRow
<1>4. ASSUME NEW i \in Issues, Retypes(i) PROVE TypesFitParents'
  BY <1>0, <1>4 DEF Retypes, UpdateIssue, IssueRow
<1> QED BY <1>1, <1>2, <1>3, <1>4, IssueSteps

LEMMA RelatesStep ==
    ASSUME IInv, RelatesOnce, Next
    PROVE  RelatesOnce'
<1>1. ASSUME NEW r \in Requests, Link(r) PROVE RelatesOnce'
  <2> DEFINE q == request[r]
  <2>1. q.step = "link" /\ Sound(q) /\ Accepted(q) /\ links' = links \cup {LinkOf(q)}
    BY <1>1, ProceedFacts DEF Link
  <2>2. ~LinkKnown(q) /\ q.other # q.issue
    BY <2>1, AcceptedFacts DEF Sound, Named
  <2>3. SUFFICES ASSUME NEW i \in Issues, NEW o \in Issues,
                        <<i, o, "relates">> \in links', <<o, i, "relates">> \in links'
                 PROVE  FALSE
    BY DEF RelatesOnce
  <2>4. <<i, o, "relates">> = LinkOf(q) \/ <<o, i, "relates">> = LinkOf(q)
    BY <2>1, <2>3 DEF RelatesOnce
  <2>5. q.kind = "relates" /\ {i, o} = {q.issue, q.other} /\ i # o
    BY <2>2, <2>4 DEF LinkOf
  <2>6. /\ <<q.issue, q.other, q.kind>> \notin links
        /\ <<q.other, q.issue, q.kind>> \notin links
    BY <2>1, <2>2, <2>5 DEF LinkKnown, LinkOf, Sound, Named
  <2> QED BY <2>1, <2>3, <2>5, <2>6 DEF LinkOf
<1>2. ASSUME NEW r \in Requests, Unlink(r) PROVE RelatesOnce'
  BY <1>2 DEF Unlink, RelatesOnce
<1>3. UNCHANGED links \/ \E r \in Requests : Link(r) \/ Unlink(r)
  BY StepKinds
  DEF Writes, Create, SetParent, Add, Remove, Alone, CreateSprint, UpdateSprint, StartSprint,
      CompleteSprint, ArchiveIssue, UpdateIssue, ArchiveProject
<1> QED BY <1>1, <1>2, <1>3 DEF RelatesOnce

(* The handlers never run into the database's constraints on types and     *)
(* parents or on relates links, though each checks one side only.          *)
THEOREM ConstraintsAlwaysHold == Spec => []ConstraintsHold
<1>1. Init => ConstraintsHold
  BY DEF Init, NoRow, ConstraintsHold, TypesFitParents, RelatesOnce
<1>2. IInv /\ ConstraintsHold /\ [Next]_vars => ConstraintsHold'
  <2> SUFFICES ASSUME IInv, ConstraintsHold, [Next]_vars PROVE ConstraintsHold'
    OBVIOUS
  <2>1. CASE Next
    BY <2>1, TypesStep, RelatesStep DEF ConstraintsHold
  <2>2. CASE UNCHANGED vars
    BY <2>2 DEF vars, ConstraintsHold, TypesFitParents, RelatesOnce
  <2> QED BY <2>1, <2>2
<1> QED BY <1>1, <1>2, InvHolds, PTL DEF Spec

(* Whatever was halfway when an issue or a project was archived, and       *)
(* whatever comes after, its rows are not changed again.                   *)
THEOREM ArchivedIsFinal == Spec => ArchiveIsFinal
<1>1. IInv /\ [Next]_vars =>
        [ /\ open' \subseteq open
          /\ \A i \in Issues :
               Home[i] \notin open \/ issue[i].stage = "archived" => issue'[i] = issue[i]
          /\ \A s \in Sprints : Home[s] \notin open => sprint'[s] = sprint[s] ]_vars
  <2> SUFFICES ASSUME IInv, Next
               PROVE  /\ open' \subseteq open
                      /\ \A i \in Issues :
                           Home[i] \notin open \/ issue[i].stage = "archived" =>
                             issue'[i] = issue[i]
                      /\ \A s \in Sprints : Home[s] \notin open => sprint'[s] = sprint[s]
    OBVIOUS
  <2>1. open' \subseteq open /\ \A s \in Sprints : Home[s] \notin open => sprint'[s] = sprint[s]
    BY StepKinds
    DEF IInv, TypeOK, Writes, Create, SetParent, Add, Remove, Link, Unlink, Alone, CreateSprint,
        UpdateSprint, StartSprint, CompleteSprint, ArchiveIssue, UpdateIssue, ArchiveProject
  <2>2. \A i \in Issues :
          Home[i] \notin open \/ issue[i].stage = "archived" => issue'[i] = issue[i]
    <3>1. \A i \in Issues :
            (Creates(i) \/ Moves(i) \/ Plans(i) \/ Retypes(i) \/ Archives(i)) =>
              /\ Home[i] \in open /\ issue[i].stage # "archived"
              /\ \A j \in Issues : j # i => issue'[j] = issue[j]
      BY DEF IInv, TypeOK, Creates, Moves, Plans, Retypes, UpdateIssue, Archives, Live
    <3> QED BY <3>1, IssueSteps
  <2> QED BY <2>1, <2>2
<1> QED BY <1>1, InvHolds, PTL DEF Spec, ArchiveIsFinal

(* A completed sprint stays as it is and is given no issue, though issues  *)
(* may be on their way to it when it is completed.                         *)
THEOREM CompletedStaysClosed == Spec => CompletedGainsNothing
<1>1. IInv /\ [Next]_vars =>
        [ \A s \in Sprints : sprint[s].status = "completed" =>
            /\ sprint'[s] = sprint[s]
            /\ \A i \in Issues : issue'[i].sprint = s => issue[i].sprint = s ]_vars
  <2> SUFFICES ASSUME IInv, Next, NEW s \in Sprints, sprint[s].status = "completed"
               PROVE  /\ sprint'[s] = sprint[s]
                      /\ \A i \in Issues : issue'[i].sprint = s => issue[i].sprint = s
    OBVIOUS
  <2>1. sprint'[s] = sprint[s]
    BY StepKinds
    DEF IInv, TypeOK, Writes, Create, SetParent, Add, Remove, Link, Unlink, Alone, CreateSprint,
        UpdateSprint, StartSprint, CompleteSprint, ArchiveIssue, UpdateIssue, ArchiveProject
  <2>2. ASSUME NEW i \in Issues,
               Creates(i) \/ Moves(i) \/ Plans(i) \/ Retypes(i) \/ Archives(i),
               NEW j \in Issues, issue'[j].sprint = s
        PROVE  issue[j].sprint = s
    BY <2>2, PlanningAssumption
    DEF IInv, TypeOK, IssueRow, Creates, Moves, Plans, Retypes, UpdateIssue, Archives
  <2> QED BY <2>1, <2>2, IssueSteps
<1> QED BY <1>1, InvHolds, PTL DEF Spec, CompletedGainsNothing

----------------------------------------------------------------------------
(* Parents are issues that exist, so that a new issue has no children.     *)
ParentsExist ==
    \A i \in Issues :
        issue[i].parent \in Issues => issue[issue[i].parent].stage # "absent"

LEMMA ParentsStep ==
    ASSUME IInv, ParentsExist, Next
    PROVE  ParentsExist'
<1>0. issue \in [Issues -> IssueRow]
  BY DEF IInv, TypeOK
<1>1. ASSUME NEW i \in Issues, Creates(i) PROVE ParentsExist'
  <2>1. PICK t \in Types, o \in Issues \cup {None} :
          /\ issue' = [issue EXCEPT ![i] = [stage |-> "open", type |-> t,
                                           parent |-> o, sprint |-> None]]
          /\ o # None => o \in Live
    BY <1>1 DEF Creates
  <2>2. \A j \in Issues : issue[j].stage # "absent" => issue'[j].stage # "absent"
    BY <1>0, <2>1
  <2>3. issue'[i].parent = o /\ \A j \in Issues \ {i} : issue'[j].parent = issue[j].parent
    BY <1>0, <2>1
  <2>4. o \in Issues => issue[o].stage # "absent"
    BY <2>1, PlanningAssumption DEF Live
  <2> QED BY <2>2, <2>3, <2>4 DEF ParentsExist
<1>2. ASSUME NEW i \in Issues, Moves(i) PROVE ParentsExist'
  <2>1. PICK o \in Issues \cup {None} :
          issue' = [issue EXCEPT ![i].parent = o] /\ (o # None => o \in Live)
    BY <1>2 DEF Moves
  <2>2. \A j \in Issues : issue'[j].stage = issue[j].stage
    BY <1>0, <2>1 DEF IssueRow
  <2>3. issue'[i].parent = o /\ \A j \in Issues \ {i} : issue'[j].parent = issue[j].parent
    BY <1>0, <2>1 DEF IssueRow
  <2>4. o \in Issues => issue[o].stage # "absent"
    BY <2>1, PlanningAssumption DEF Live
  <2> QED BY <2>2, <2>3, <2>4 DEF ParentsExist
<1>3. ASSUME NEW i \in Issues, Plans(i) \/ Archives(i) \/ Retypes(i) PROVE ParentsExist'
  <2>1. \A j \in Issues : /\ issue'[j].parent = issue[j].parent
                          /\ issue[j].stage # "absent" => issue'[j].stage # "absent"
    BY <1>0, <1>3 DEF Plans, Archives, Retypes, UpdateIssue, IssueRow
  <2> QED BY <2>1 DEF ParentsExist
<1>4. CASE UNCHANGED issue
  BY <1>4 DEF ParentsExist
<1> QED BY <1>1, <1>2, <1>3, <1>4, IssueSteps

LEMMA CycleStep ==
    ASSUME IInv, ParentsExist, NoCycleInProject, Next
    PROVE  NoCycleInProject'
<1>0. issue \in [Issues -> IssueRow] /\ open' \subseteq open
  BY StepKinds
  DEF IInv, TypeOK, Writes, Create, SetParent, Add, Remove, Link, Unlink, Alone, CreateSprint,
      UpdateSprint, StartSprint, CompleteSprint, ArchiveIssue, UpdateIssue, ArchiveProject
<1> SUFFICES ASSUME NEW p \in Projects, NEW S \in SUBSET {i \in Issues : Home[i] = p}, Cycle(S)'
             PROVE  FALSE
  BY DEF NoCycleInProject
<1>1. S # {} /\ \A i \in S : i \in Live' /\ issue'[i].parent \in S
  BY DEF Cycle
<1>2. ASSUME \A i \in S : issue[i].parent = issue'[i].parent /\ i \in Live PROVE FALSE
  BY <1>1, <1>2 DEF Cycle, NoCycleInProject
<1>3. ASSUME NEW i \in Issues, Plans(i) \/ Archives(i) \/ Retypes(i) PROVE FALSE
  <2>1. \A j \in Issues : /\ issue'[j].parent = issue[j].parent
                          /\ j \in Live' => j \in Live
    BY <1>0, <1>3 DEF Plans, Archives, Retypes, UpdateIssue, IssueRow, Live
  <2> QED BY <1>1, <1>2, <2>1
<1>4. ASSUME NEW i \in Issues, Creates(i) PROVE FALSE
  <2>1. \A j \in Issues : j # i => issue'[j] = issue[j]
    BY <1>0, <1>4 DEF Creates
  <2>2. \A j \in Issues : j # i => (j \in Live' => j \in Live)
    BY <1>0, <2>1 DEF Live
  <2>3. issue[i].stage = "absent" /\ issue'[i].parent # i
    BY <1>0, <1>4 DEF Creates
  <2> DEFINE R == S \ {i}
  <2>4. \A j \in R : j \in Live /\ issue[j].parent \in S /\ issue[j].parent # i
    BY <1>1, <2>1, <2>2, <2>3 DEF ParentsExist
  <2>5. R # {}
    BY <1>1, <2>3
  <2>6. Cycle(R)
    BY <2>4, <2>5 DEF Cycle
  <2> QED BY <2>6 DEF NoCycleInProject
<1>5. ASSUME NEW i \in Issues, Moves(i), open' = open PROVE FALSE
  <2>1. PICK o \in Issues \cup {None} :
          /\ issue' = [issue EXCEPT ![i].parent = o]
          /\ o # None => o \in Live
          /\ o # None /\ Home[o] = Home[i] =>
               \E T \in SUBSET Issues : o \in T /\ i \notin T /\ ClosedIn(T, Home[i])
    BY <1>5 DEF Moves
  <2>2. /\ \A j \in Issues : j # i => issue'[j] = issue[j]
        /\ issue'[i].parent = o
        /\ Live' = Live
    BY <1>0, <1>5, <2>1 DEF IssueRow, Live
  <2>3. CASE i \notin S
    BY <1>1, <1>2, <2>2, <2>3
  <2>4. CASE i \in S
    <3>1. o \in S /\ Home[o] = p /\ Home[i] = p /\ o # None
      BY <1>1, <2>2, <2>4, PlanningAssumption
    <3>2. PICK T \in SUBSET Issues : o \in T /\ i \notin T /\ ClosedIn(T, p)
      BY <2>1, <3>1
    <3> DEFINE R == S \cap T
    <3>3. \A j \in R : j \in Live /\ issue[j].parent \in S /\ issue[j].parent \in Live
      BY <1>1, <2>2, <3>2
    <3>4. \A j \in R : issue[j].parent \in T
      BY <3>2, <3>3 DEF ClosedIn
    <3>5. Cycle(R)
      BY <3>1, <3>2, <3>3, <3>4 DEF Cycle
    <3> QED BY <3>5 DEF NoCycleInProject
  <2> QED BY <2>3, <2>4
<1>6. CASE UNCHANGED issue
  <2>1. \A j \in Issues : j \in Live' => j \in Live
    BY <1>0, <1>6 DEF Live
  <2> QED BY <1>1, <1>2, <1>6, <2>1
<1> QED BY <1>3, <1>4, <1>5, <1>6, IssueSteps

(* Parents within a project never form a cycle, for any number of issues   *)
(* and of requests that move them.                                         *)
THEOREM ProjectsStayAcyclic == Spec => []NoCycleInProject
<1>1. Init => ParentsExist /\ NoCycleInProject
  <2>1. Init => ParentsExist
    BY PlanningAssumption DEF Init, NoRow, ParentsExist
  <2>2. Init => Live = {}
    BY DEF Init, NoRow, Live
  <2>3. Live = {} => NoCycleInProject
    BY DEF NoCycleInProject, Cycle
  <2> QED BY <2>1, <2>2, <2>3
<1>2. IInv /\ ParentsExist /\ NoCycleInProject /\ [Next]_vars => (ParentsExist /\ NoCycleInProject)'
  <2> SUFFICES ASSUME IInv, ParentsExist, NoCycleInProject, [Next]_vars
               PROVE  (ParentsExist /\ NoCycleInProject)'
    OBVIOUS
  <2>1. CASE Next
    BY <2>1, ParentsStep, CycleStep
  <2>2. CASE UNCHANGED vars
    BY <2>2 DEF vars, ParentsExist, NoCycleInProject, Cycle, Live
  <2> QED BY <2>1, <2>2
<1> QED BY <1>1, <1>2, InvHolds, PTL DEF Spec

----------------------------------------------------------------------------
(* Each handler acts as if it had run alone and at once.  Besides the      *)
(* invariant this takes that the sprint a request names exists.            *)
SprintsExist ==
    \A r \in Requests : request[r].step \in {"add", "remove"} =>
        sprint[request[r].other].status # "absent"

LEMMA SprintsStay ==
    ASSUME IInv, SprintsExist, [Next]_vars
    PROVE  SprintsExist'
<1>1. request \in [Requests -> Request] /\ sprint \in [Sprints -> SprintRow]
  BY DEF IInv, TypeOK
<1>2. \A s \in Sprints : sprint[s].status # "absent" => sprint'[s].status # "absent"
  <2>1. CASE Next
    <3>1. ASSUME NEW s \in Sprints, NEW g \in Goals, CreateSprint(s, g) \/ UpdateSprint(s, g)
          PROVE  \A t \in Sprints : sprint[t].status # "absent" => sprint'[t].status # "absent"
      BY <1>1, <3>1 DEF CreateSprint, UpdateSprint, SprintRow
    <3>2. ASSUME NEW s \in Sprints, StartSprint(s) \/ CompleteSprint(s)
          PROVE  \A t \in Sprints : sprint[t].status # "absent" => sprint'[t].status # "absent"
      BY <1>1, <3>2 DEF StartSprint, CompleteSprint, SprintRow
    <3> QED BY <2>1, <3>1, <3>2, StepKinds
            DEF Writes, Create, SetParent, Add, Remove, Link, Unlink, Alone, ArchiveIssue,
                UpdateIssue, ArchiveProject
  <2> QED BY <2>1 DEF vars
<1>3. ASSUME NEW r \in Requests
      PROVE  \/ request'[r] = request[r]
             \/ request'[r].step \notin {"add", "remove"}
             \/ request'[r].other \in Sprints /\ sprint[request'[r].other].status # "absent"
  <2> DEFINE Goal == \/ request'[r] = request[r]
                     \/ request'[r].step \notin {"add", "remove"}
                     \/ /\ request'[r].other \in Sprints
                        /\ sprint[request'[r].other].status # "absent"
  <2>1. ASSUME NEW x \in Requests, NEW step, NEW i, NEW o, NEW kind, NEW from, NEW p,
               Begin(x, step, i, o, kind, from, p),
               step \in {"add", "remove"} => o \in Sprints /\ sprint[o].status # "absent"
        PROVE  Goal
    BY <1>1, <2>1 DEF Begin
  <2>2. ASSUME NEW x \in Requests, Starts(x) PROVE Goal
    <3>1. ASSUME BeginCreate(x) PROVE Goal
      BY <2>1, <3>1 DEF BeginCreate
    <3>2. ASSUME BeginSetParent(x) PROVE Goal
      BY <2>1, <3>2 DEF BeginSetParent
    <3>3. ASSUME BeginAdd(x) \/ BeginRemove(x) PROVE Goal
      BY <2>1, <3>3 DEF BeginAdd, BeginRemove
    <3>4. ASSUME BeginLink(x) \/ BeginUnlink(x) PROVE Goal
      BY <2>1, <3>4 DEF BeginLink, BeginUnlink
    <3> QED BY <2>2, <3>1, <3>2, <3>3, <3>4 DEF Starts
  <2>3. ASSUME NEW x \in Requests, Finish(x) PROVE Goal
    BY <1>1, <2>3 DEF Finish, Idle
  <2>4. ASSUME NEW x \in Requests, CheckParent(x) \/ FindLink(x) PROVE Goal
    BY <1>1, <2>4 DEF CheckParent, FindLink, Request
  <2>5. ASSUME NEW x \in Requests, Continues(x) \/ Abort(x) PROVE Goal
    BY <2>3, <2>4, <2>5 DEF Continues, Create, SetParent, Add, Remove, Link, Unlink, Refuse,
                            Abort, Rollback
  <2>6. ASSUME Alone PROVE Goal
    BY <2>6 DEF Alone, CreateSprint, UpdateSprint, StartSprint, CompleteSprint, ArchiveIssue,
                UpdateIssue, ArchiveProject
  <2>7. ASSUME UNCHANGED vars PROVE Goal
    BY <2>7 DEF vars
  <2> HIDE DEF Goal
  <2>8. Goal
    <3>1. Next => (\E x \in Requests : Starts(x) \/ Continues(x) \/ Abort(x)) \/ Alone
      BY DEF Next, Alone
    <3>2. CASE Next
      BY <2>2, <2>5, <2>6, <3>1, <3>2
    <3> QED BY <2>7, <3>2
  <2> QED BY <2>8 DEF Goal
<1>4. \A r \in Requests : request[r].step \in {"add", "remove"} => request[r].other \in Sprints
  BY DEF IInv, Sound, Named
<1> QED BY <1>2, <1>3, <1>4 DEF SprintsExist

LEMMA SameIssuesLive == Live = Board!Live
  BY DEF Live, Board!Live

LEMMA WritesAreAtomic ==
    ASSUME IInv, SprintsExist, NEW r \in Requests, Writes(r)
    PROVE  Board!Next
<1> DEFINE q == request[r]
<1>0. None \notin Issues \cup Sprints
  BY PlanningAssumption
<1>1. ASSUME Create(r) PROVE Board!Next
  <2>1. /\ q.step = "create" /\ Sound(q) /\ Accepted(q)
        /\ issue' = [issue EXCEPT ![q.issue] = [stage |-> "open", type |-> q.kind,
                                                parent |-> q.other, sprint |-> None]]
        /\ UNCHANGED <<open, sprint, links>>
    BY <1>1, ProceedFacts DEF Create
  <2>2. /\ q.issue \in Issues /\ issue[q.issue].stage = "absent" /\ Home[q.issue] \in open
        /\ q.kind \in Types /\ q.other \in Issues \cup {None} /\ q.other # q.issue
        /\ q.kind = "subtask" => q.other # None
        /\ q.kind = "epic" => q.other = None
    BY <2>1 DEF Sound, Named, Holds, Reads
  <2>3. q.other = None \/ q.other \in Board!Live
    BY <2>1, AcceptedFacts, SameIssuesLive
  <2>4. Board!CreateIssue(q.issue, q.kind, q.other)
    BY <2>1, <2>2, <2>3 DEF Board!CreateIssue, Board!Fits
  <2> QED BY <2>2, <2>4 DEF Board!Next
<1>2. ASSUME SetParent(r) PROVE Board!Next
  <2>1. /\ q.step = "reparent" /\ Sound(q)
        /\ issue' = [issue EXCEPT ![q.issue].parent = q.other]
        /\ UNCHANGED <<open, sprint, links>>
    BY <1>2 DEF SetParent, IInv
  <2>2. /\ q.issue \in Issues /\ q.other \in Issues \cup {None}
        /\ q.issue \in Live /\ (q.other # None => q.other \in Live)
        /\ q.other # q.issue /\ q.other # issue[q.issue].parent
        /\ issue[q.issue].type = "epic" => q.other = None
        /\ issue[q.issue].type = "subtask" => q.other # None
    BY <2>1 DEF Sound, Named, Holds, Reads, Live
  <2>3. ASSUME q.other # None, Home[q.other] = Home[q.issue]
        PROVE  ~Board!IsAbove(q.issue, q.other)
    <3>1. PICK T \in SUBSET Issues :
            q.other \in T /\ q.issue \notin T /\ ClosedIn(T, Home[q.issue])
      BY <2>1, <2>3 DEF Sound, Walked
    <3>2. Board!ClosedAtHome(T)
      BY <3>1, SameIssuesLive DEF ClosedIn, Board!ClosedAtHome
    <3> QED BY <3>1, <3>2 DEF Board!IsAbove
  <2>4. Board!SetParent(q.issue, q.other)
    BY <2>1, <2>2, <2>3, SameIssuesLive DEF Board!SetParent, Board!Fits
  <2> QED BY <2>2, <2>4 DEF Board!Next
<1>3. ASSUME Add(r) PROVE Board!Next
  <2>1. /\ q.step = "add" /\ Sound(q) /\ Accepted(q)
        /\ issue' = [issue EXCEPT ![q.issue].sprint = q.other]
        /\ UNCHANGED <<open, sprint, links>>
    BY <1>3, ProceedFacts DEF Add
  <2>2. /\ q.issue \in Issues /\ q.other \in Sprints
        /\ q.issue \in Board!Live /\ Home[q.issue] = Home[q.other]
    BY <2>1, AcceptedFacts, SameIssuesLive DEF Sound, Named
  <2>3. Board!MayPlan(q.other)
    <3>1. sprint[q.other].status \notin {"absent", "completed"}
      BY <2>1, AcceptedFacts DEF SprintsExist
    <3> QED BY <2>2, <3>1 DEF IInv, TypeOK, SprintRow, SprintStatuses, Board!MayPlan
  <2>4. Board!AddToSprint(q.issue, q.other)
    BY <2>1, <2>2, <2>3 DEF Board!AddToSprint
  <2> QED BY <2>2, <2>4 DEF Board!Next
<1>4. ASSUME Remove(r) PROVE Board!Next
  <2>1. /\ q.step = "remove" /\ Sound(q) /\ Accepted(q)
        /\ issue' = [issue EXCEPT ![q.issue].sprint = None]
        /\ UNCHANGED <<open, sprint, links>>
    BY <1>4, ProceedFacts DEF Remove
  <2>2. /\ q.issue \in Issues /\ q.other \in Sprints
        /\ q.issue \in Board!Live /\ issue[q.issue].sprint = q.other
    BY <2>1, SameIssuesLive DEF Sound, Named, Accepted
  <2>3. Board!MayPlan(q.other)
    <3>1. sprint[q.other].status \notin {"absent", "completed"}
      BY <2>1, AcceptedFacts DEF SprintsExist
    <3> QED BY <2>2, <3>1 DEF IInv, TypeOK, SprintRow, SprintStatuses, Board!MayPlan
  <2>4. Board!RemoveFromSprint(q.issue)
    BY <2>1, <2>2, <2>3 DEF Board!RemoveFromSprint
  <2> QED BY <2>2, <2>4 DEF Board!Next
<1>5. ASSUME Link(r) PROVE Board!Next
  <2>1. /\ q.step = "link" /\ Sound(q) /\ Accepted(q)
        /\ links' = links \cup {LinkOf(q)}
        /\ UNCHANGED <<open, sprint, issue>>
    BY <1>5, ProceedFacts DEF Link
  <2>2. /\ q.issue \in Issues /\ q.other \in Issues /\ q.kind \in LinkTypes
        /\ q.other # q.issue /\ LinkOf(q) = <<q.issue, q.other, q.kind>>
    BY <2>1 DEF Sound, Named, LinkOf
  <2>3. {q.issue, q.other} \subseteq Board!Live /\ ~LinkKnown(q)
    BY <2>1, AcceptedFacts, SameIssuesLive
  <2>4. Board!LinkIssues(q.issue, q.other, q.kind)
    BY <2>1, <2>2, <2>3 DEF LinkKnown, Board!LinkIssues
  <2> QED BY <2>2, <2>4 DEF Board!Next
<1>6. ASSUME Unlink(r) PROVE Board!Next
  <2>1. /\ q.step = "unlink" /\ Sound(q)
        /\ links' = links \ {LinkOf(q)}
        /\ UNCHANGED <<open, sprint, issue>>
    BY <1>6, ProceedFacts DEF Unlink
  <2>2. LinkOf(q) \in links /\ q.issue \in Live
    BY <2>1 DEF Sound, Named, Holds, Reads, Live
  <2>3. q.issue \in {LinkOf(q)[1], LinkOf(q)[2]}
    BY DEF LinkOf
  <2>4. Board!UnlinkIssues(LinkOf(q))
    BY <2>1, <2>2, <2>3, SameIssuesLive DEF Board!UnlinkIssues
  <2> QED BY <2>2, <2>4 DEF Board!Next
<1> QED BY <1>1, <1>2, <1>3, <1>4, <1>5, <1>6 DEF Writes

LEMMA AloneIsAtomic ==
    ASSUME Alone
    PROVE  Board!Next
<1>1. ASSUME NEW s \in Sprints, NEW g \in Goals, CreateSprint(s, g) \/ UpdateSprint(s, g)
      PROVE  Board!PlanSprint(s, g) \/ Board!EditSprint(s, g)
  BY <1>1 DEF CreateSprint, UpdateSprint, Board!PlanSprint, Board!EditSprint, Board!MayPlan
<1>2. ASSUME NEW s \in Sprints, StartSprint(s) \/ CompleteSprint(s)
      PROVE  Board!StartSprint(s) \/ Board!CompleteSprint(s)
  BY <1>2 DEF StartSprint, CompleteSprint, Board!StartSprint, Board!CompleteSprint
<1>3. ASSUME NEW i \in Issues, ArchiveIssue(i)
      PROVE  Board!ArchiveIssue(i)
  BY <1>3, SameIssuesLive DEF ArchiveIssue, Board!ArchiveIssue
<1>4. ASSUME NEW i \in Issues, NEW t \in Types, UpdateIssue(i, t)
      PROVE  Board!SetType(i, t)
  BY <1>4, SameIssuesLive DEF UpdateIssue, Board!SetType, Board!Fits
<1>5. ASSUME NEW p \in Projects, ArchiveProject(p)
      PROVE  Board!ArchiveProject(p)
  BY <1>5 DEF ArchiveProject, Board!ArchiveProject
<1> QED BY <1>1, <1>2, <1>3, <1>4, <1>5 DEF Alone, Board!Next

(* However requests overlap, each of them writes what its handler, alone   *)
(* and at once, would have written: Planning implements PlanningBoard.     *)
THEOREM HandlersActAtOnce == Spec => HandlersAreAtomic
<1>1. Init => SprintsExist /\ Board!Init
  BY DEF Init, SprintsExist, Idle, NoRow, Board!Init
<1>2. IInv /\ SprintsExist /\ [Next]_vars => SprintsExist' /\ [Board!Next]_Board!vars
  <2> SUFFICES ASSUME IInv, SprintsExist, [Next]_vars
               PROVE  SprintsExist' /\ [Board!Next]_Board!vars
    OBVIOUS
  <2>1. CASE Next
    BY <2>1, StepKinds, WritesAreAtomic, AloneIsAtomic, SprintsStay DEF Board!vars
  <2>2. CASE UNCHANGED vars
    BY <2>2, SprintsStay DEF vars, Board!vars
  <2> QED BY <2>1, <2>2
<1> QED BY <1>1, <1>2, InvHolds, PTL DEF Spec, HandlersAreAtomic, Board!Spec
============================================================================
