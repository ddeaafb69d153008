------------------------- MODULE EmailOutboxProofs -------------------------
(***************************************************************************)
(* The safety invariants of EmailOutbox for any number of emails, workers, *)
(* attempts, faults and delays.                                            *)
(***************************************************************************)
EXTENDS EmailOutbox, TLAPS

(* The claims held in memory, related to the rows they came from: claim    *)
(* numbers never exceed the row's count, a worker with an open claim       *)
(* transaction holds nothing, and a claim's outcome tells what happened.   *)
ClaimsCounted ==
    /\ \A w \in Workers : locked[w] # {} => batch[w] = {}
    /\ \A w \in Workers : \A c \in batch[w] :
         /\ c.attempt \in 1..outbox[c.email].attempts
         /\ c.result = "sent" => c.attempt \in accepted[c.email] \/ c.email \in dropped
         /\ c.result = "unrendered" => c.email \notin Renderable

(* Only NoopClient drops emails. *)
NothingDropped == "noop" \notin Clients => dropped = {}

IInv == /\ TypeOK
        /\ ClaimsCounted
        /\ ClaimsDistinct
        /\ DeliveriesCounted
        /\ NothingDropped
        /\ SentIsExplained
        /\ FailedIsExhausted

----------------------------------------------------------------------------
(* The limit MarkRetry uses is positive, and every retry delay is a number.*)
LEMMA LimitPositive == AttemptLimit \in Nat \ {0}
  BY EmailOutboxAssumption DEF EmailOutboxAssumption, AttemptLimit

LEMMA DelayIsNat == \A n \in Nat : RetryDelay(n) \in Nat
  BY EmailOutboxAssumption DEF EmailOutboxAssumption, RetryDelay

(* What the row updates do to a row: they keep its type, never lower the   *)
(* attempt count, and settle it only as the claim's outcome allows.        *)
LEMMA ClaimedRowFacts ==
  ASSUME NEW row \in Row
  PROVE  /\ ClaimedRow(row) \in Row
         /\ ClaimedRow(row).attempts = row.attempts + 1
         /\ ClaimedRow(row).status = "processing"
<1>1. \A n \in Nat : [row EXCEPT !.status = "processing",
                                !.attempts = n, !.fresh = StaleAfter] \in Row
  BY EmailOutboxAssumption DEF EmailOutboxAssumption, Row
<1>2. row.attempts + 1 \in Nat
  BY DEF Row
<1>3. ClaimedRow(row) \in Row
  BY <1>1, <1>2 DEF ClaimedRow
<1>4. ClaimedRow(row).attempts = row.attempts + 1
  BY DEF ClaimedRow, Row
<1>5. ClaimedRow(row).status = "processing"
  BY DEF ClaimedRow, Row
<1> QED BY <1>3, <1>4, <1>5

LEMMA AgedFacts ==
  ASSUME NEW row \in Row
  PROVE  /\ Aged(row) \in Row
         /\ Aged(row).attempts = row.attempts
         /\ Aged(row).status = row.status
<1>1. \A m, n \in Nat : [row EXCEPT !.due = m, !.fresh = n] \in Row
  BY DEF Row
<1>2. /\ (IF row.due > 0 THEN row.due - 1 ELSE 0) \in Nat
      /\ (IF row.fresh > 0 THEN row.fresh - 1 ELSE 0) \in Nat
  BY DEF Row
<1>3. Aged(row) \in Row
  BY <1>1, <1>2 DEF Aged
<1>4. Aged(row).attempts = row.attempts
  BY DEF Aged, Row
<1>5. Aged(row).status = row.status
  BY DEF Aged, Row
<1> QED BY <1>3, <1>4, <1>5

LEMMA MarkedFacts ==
  ASSUME NEW row \in Row, NEW c \in Claim, c.result # "unsent"
  PROVE  /\ Marked(row, c) \in Row
         /\ Marked(row, c).attempts = row.attempts
         /\ Marked(row, c).status = "sent" => c.result = "sent"
         /\ Marked(row, c).status = "failed" =>
              c.result = "unrendered" \/ c.attempt >= AttemptLimit
<1>1. c.attempt \in Nat /\ c.result \in {"unsent", "unrendered", "sent", "error"}
  BY DEF Claim
<1>2. RetryDelay(c.attempt) \in Nat
  BY <1>1, DelayIsNat
<1>3. CASE c.result = "sent"
  BY <1>3 DEF Marked, MarkedSent, Row
<1>4. CASE c.result = "unrendered"
  BY <1>4 DEF Marked, MarkedFailed, Row
<1>5. CASE c.result = "error" /\ c.attempt >= AttemptLimit
  BY <1>5 DEF Marked, MarkedRetry, MarkedFailed, Row
<1>6. CASE c.result = "error" /\ ~(c.attempt >= AttemptLimit)
  <2>1. Marked(row, c) = [row EXCEPT !.status = "pending", !.fresh = 0,
                                     !.due = RetryDelay(c.attempt)]
    BY <1>6 DEF Marked, MarkedRetry
  <2>2. \A n \in Nat : [row EXCEPT !.status = "pending", !.fresh = 0, !.due = n] \in Row
    BY DEF Row
  <2> QED BY <1>2, <2>1, <2>2 DEF Row
<1> QED BY <1>1, <1>3, <1>4, <1>5, <1>6

----------------------------------------------------------------------------
(* Committing a claim, acknowledged or not, preserves what the invariants  *)
(* say of the rows.                                                        *)
LEMMA ClaimRowsFacts ==
  ASSUME TypeOK, NEW w \in Workers, ClaimRows(w)
  PROVE  /\ outbox' \in [Emails -> Row]
         /\ \A e \in Emails :
              /\ outbox'[e].attempts =
                   IF e \in locked[w] THEN outbox[e].attempts + 1
                                      ELSE outbox[e].attempts
              /\ outbox'[e].status =
                   IF e \in locked[w] THEN "processing" ELSE outbox[e].status
  BY ClaimedRowFacts DEF TypeOK, ClaimRows

LEMMA FaultType ==
  ASSUME TypeOK, NEW kind, Fault(kind)
  PROVE  faults' \in 0..MaxFaults
<1>1. faults \in 0..MaxFaults /\ MaxFaults \in Nat
  BY EmailOutboxAssumption DEF TypeOK, EmailOutboxAssumption
<1>2. faults < MaxFaults /\ faults' = faults + 1
  BY DEF Fault
<1> QED BY <1>1, <1>2

LEMMA InitIInv == Init => IInv
<1> SUFFICES ASSUME Init PROVE IInv
  OBVIOUS
<1>1. TypeOK
  BY EmailOutboxAssumption DEF Init, TypeOK, NoRow, Row, EmailOutboxAssumption
<1>2. ClaimsCounted /\ ClaimsDistinct
  BY DEF Init, ClaimsCounted, ClaimsDistinct
<1>3. DeliveriesCounted
  BY DEF Init, DeliveriesCounted
<1>4. NothingDropped /\ SentIsExplained /\ FailedIsExhausted
  BY DEF Init, NothingDropped, SentIsExplained, FailedIsExhausted, NoRow
<1> QED BY <1>1, <1>2, <1>3, <1>4 DEF IInv

LEMMA EnqueueIInv ==
  ASSUME IInv, NEW e \in Emails, Enqueue(e)
  PROVE  IInv'
<1> USE DEF Enqueue
<1>1. outbox' \in [Emails -> Row]
  BY DEF IInv, TypeOK, Row
<1>2. \A f \in Emails : /\ outbox'[f].attempts = outbox[f].attempts
                        /\ outbox'[f].status = outbox[f].status \/ outbox'[f].status = "pending"
  BY DEF IInv, TypeOK, Row
<1>3. TypeOK'
  BY <1>1 DEF IInv, TypeOK
<1>4. ClaimsCounted' /\ ClaimsDistinct' /\ DeliveriesCounted'
  BY <1>2 DEF IInv, TypeOK, Claim, ClaimsCounted, ClaimsDistinct, DeliveriesCounted
<1>5. NothingDropped' /\ SentIsExplained' /\ FailedIsExhausted'
  BY <1>2 DEF IInv, NothingDropped, SentIsExplained, FailedIsExhausted
<1> QED BY <1>3, <1>4, <1>5 DEF IInv

(* Locking candidates and aborting a claim only move rows in and out of    *)
(* locked; a claim transaction is opened by a worker that holds nothing.   *)
LEMMA LockIInv ==
  ASSUME IInv, NEW w \in Workers, LockCandidates(w) \/ AbortClaim(w)
  PROVE  IInv'
<1>1. UNCHANGED <<outbox, batch, client, accepted, dropped>>
  BY DEF LockCandidates, AbortClaim
<1>0. faults' \in 0..MaxFaults
  BY FaultType DEF LockCandidates, AbortClaim, IInv, TypeOK
<1>2. locked' \in [Workers -> SUBSET Emails]
  BY DEF LockCandidates, AbortClaim, Candidates, IInv, TypeOK
<1>3. \A v \in Workers : locked'[v] # {} => batch'[v] = {}
  BY <1>1 DEF LockCandidates, AbortClaim, Polling, IInv, TypeOK, ClaimsCounted
<1>4. TypeOK'
  BY <1>0, <1>1, <1>2 DEF IInv, TypeOK
<1>5. ClaimsCounted'
  BY <1>1, <1>3 DEF IInv, ClaimsCounted
<1>6. ClaimsDistinct' /\ DeliveriesCounted' /\ NothingDropped'
  BY <1>1 DEF IInv, ClaimsDistinct, DeliveriesCounted, NothingDropped
<1>7. SentIsExplained' /\ FailedIsExhausted'
  BY <1>1 DEF IInv, SentIsExplained, FailedIsExhausted
<1> QED BY <1>4, <1>5, <1>6, <1>7 DEF IInv

(* What both commits have in common: the rows move on, nothing delivered   *)
(* or held before changes.                                                 *)
LEMMA ClaimRowsIInv ==
  ASSUME IInv, NEW w \in Workers, ClaimRows(w), UNCHANGED <<accepted, dropped>>
  PROVE  /\ \A e \in Emails : accepted'[e] \subseteq 1..outbox'[e].attempts
         /\ NothingDropped'
         /\ SentIsExplained'
         /\ FailedIsExhausted'
<1>1. \A e \in Emails : outbox[e].attempts \in Nat
  BY DEF IInv, TypeOK, Row
<1>2. \A e \in Emails : accepted'[e] \subseteq 1..outbox'[e].attempts
  BY <1>1, ClaimRowsFacts DEF IInv, TypeOK, DeliveriesCounted
<1>3. NothingDropped' /\ SentIsExplained'
  BY ClaimRowsFacts DEF IInv, NothingDropped, SentIsExplained
<1>4. FailedIsExhausted'
  BY ClaimRowsFacts DEF IInv, FailedIsExhausted
<1> QED BY <1>2, <1>3, <1>4

LEMMA CommitClaimIInv ==
  ASSUME IInv, NEW w \in Workers, CommitClaim(w)
  PROVE  IInv'
<1> DEFINE New == {[email |-> e, attempt |-> ClaimedRow(outbox[e]).attempts,
                    result |-> "unsent"] : e \in locked[w]}
<1>1. ClaimRows(w) /\ UNCHANGED <<client, accepted, dropped, faults>>
  BY DEF CommitClaim
<1>2. locked' = [locked EXCEPT ![w] = {}] /\ batch' = [batch EXCEPT ![w] = New]
  BY DEF CommitClaim
<1>3. batch[w] = {} /\ locked[w] \subseteq Emails
  BY DEF CommitClaim, IInv, TypeOK, ClaimsCounted
<1>4. \A e \in Emails : outbox[e] \in Row /\ outbox[e].attempts \in Nat
  BY DEF IInv, TypeOK, Row
<1>5. \A c \in New : /\ c \in Claim
                     /\ c.email \in locked[w]
                     /\ c.attempt = outbox[c.email].attempts + 1
                     /\ c.attempt = outbox'[c.email].attempts
                     /\ c.result = "unsent"
  BY <1>1, <1>3, <1>4, ClaimedRowFacts, ClaimRowsFacts DEF Claim, IInv
<1>6. \A v \in Workers : batch'[v] = IF v = w THEN New ELSE batch[v]
  BY <1>2 DEF IInv, TypeOK
<1>7. \A v \in Workers : \A c \in batch[v] : c \in Claim /\ c.email \in Emails /\ c.attempt \in Nat
  BY DEF IInv, TypeOK, Claim
<1> HIDE DEF New
<1>8. TypeOK'
  <2>1. batch' \in [Workers -> SUBSET Claim]
    BY <1>2, <1>5 DEF IInv, TypeOK
  <2>2. locked' \in [Workers -> SUBSET Emails]
    BY <1>2 DEF IInv, TypeOK
  <2> QED BY <1>1, <2>1, <2>2, ClaimRowsFacts DEF IInv, TypeOK
<1>9. ClaimsCounted'
  <2>1. \A v \in Workers : locked'[v] # {} => batch'[v] = {}
    BY <1>2, <1>6 DEF IInv, TypeOK, ClaimsCounted
  <2>2. ASSUME NEW v \in Workers, NEW c \in batch'[v]
        PROVE  /\ c.attempt \in 1..outbox'[c.email].attempts
               /\ c.result = "sent" => c.attempt \in accepted'[c.email] \/ c.email \in dropped'
               /\ c.result = "unrendered" => c.email \notin Renderable
    <3>1. CASE v = w
      BY <1>3, <1>4, <1>5, <1>6, <2>2, <3>1
    <3>2. CASE v # w
      <4>1. c \in batch[v]
        BY <1>6, <2>2, <3>2
      <4>2. outbox[c.email].attempts <= outbox'[c.email].attempts
        BY <1>1, <1>4, <1>7, <4>1, ClaimRowsFacts DEF IInv
      <4>3. outbox'[c.email].attempts \in Nat
        BY <1>1, <1>4, <1>7, <4>1, ClaimRowsFacts DEF IInv
      <4> QED BY <1>1, <1>4, <1>7, <4>1, <4>2, <4>3 DEF IInv, ClaimsCounted
    <3> QED BY <3>1, <3>2
  <2> QED BY <2>1, <2>2 DEF ClaimsCounted
<1>10. ClaimsDistinct'
  <2> SUFFICES ASSUME NEW u \in Workers, NEW v \in Workers,
                      NEW c \in batch'[u], NEW d \in batch'[v],
                      c.email = d.email, c.attempt = d.attempt
               PROVE  u = v /\ c = d
    BY DEF ClaimsDistinct
  <2>1. \A x \in Workers : \A a \in batch[x] : a.attempt <= outbox[a.email].attempts
    BY <1>4, <1>7 DEF IInv, ClaimsCounted
  <2>2. CASE u # w /\ v # w
    BY <1>6, <2>2 DEF IInv, ClaimsDistinct
  <2>3. CASE u = w /\ v = w
    BY <1>5, <1>6, <2>3 DEF Claim
  <2>4. CASE u = w /\ v # w
    BY <1>3, <1>4, <1>5, <1>6, <1>7, <2>1, <2>4
  <2>5. CASE u # w /\ v = w
    BY <1>3, <1>4, <1>5, <1>6, <1>7, <2>1, <2>5
  <2> QED BY <2>2, <2>3, <2>4, <2>5
<1>11. DeliveriesCounted'
  <2>1. ASSUME NEW v \in Workers, NEW c \in batch'[v], c.result = "unsent"
        PROVE  c.attempt \notin accepted'[c.email]
    <3>1. CASE v = w
      BY <1>1, <1>3, <1>4, <1>5, <1>6, <2>1, <3>1 DEF IInv, DeliveriesCounted
    <3>2. CASE v # w
      BY <1>1, <1>6, <2>1, <3>2 DEF IInv, DeliveriesCounted
    <3> QED BY <3>1, <3>2
  <2> QED BY <1>1, <2>1, ClaimRowsIInv DEF DeliveriesCounted
<1> QED BY <1>1, <1>8, <1>9, <1>10, <1>11, ClaimRowsIInv DEF IInv

LEMMA CommitClaimUnseenIInv ==
  ASSUME IInv, NEW w \in Workers, CommitClaimUnseen(w)
  PROVE  IInv'
<1>1. ClaimRows(w) /\ UNCHANGED <<batch, client, accepted, dropped>>
  BY DEF CommitClaimUnseen
<1>2. locked' = [locked EXCEPT ![w] = {}] /\ faults' \in 0..MaxFaults
  BY FaultType DEF CommitClaimUnseen, IInv
<1>3. TypeOK'
  BY <1>1, <1>2, ClaimRowsFacts DEF IInv, TypeOK
<1>4. ClaimsCounted'
  <2>1. \A v \in Workers : \A c \in batch[v] : c.email \in Emails /\ c.attempt \in Nat
    BY DEF IInv, TypeOK, Claim
  <2>2. \A e \in Emails : /\ outbox[e].attempts \in Nat
                          /\ outbox'[e].attempts \in Nat
                          /\ outbox[e].attempts <= outbox'[e].attempts
    BY <1>1, ClaimRowsFacts DEF IInv, TypeOK, Row
  <2>3. \A v \in Workers : locked'[v] # {} => batch'[v] = {}
    BY <1>1, <1>2 DEF IInv, TypeOK, ClaimsCounted
  <2> QED BY <1>1, <2>1, <2>2, <2>3 DEF IInv, ClaimsCounted
<1>5. ClaimsDistinct' /\ DeliveriesCounted'
  BY <1>1, ClaimRowsIInv DEF IInv, ClaimsDistinct, DeliveriesCounted
<1> QED BY <1>1, <1>3, <1>4, <1>5, ClaimRowsIInv DEF IInv

----------------------------------------------------------------------------
(* The common part of the outcomes of Send: one unsent claim gets a result, *)
(* and either the server accepts its message once more, or the client      *)
(* drops it.                                                               *)
LEMMA ResultIInv ==
  ASSUME IInv, NEW w \in Workers, NEW c \in batch[w], c.result = "unsent",
         NEW r \in {"unrendered", "sent", "error"}, WithResult(w, c, r),
         UNCHANGED <<outbox, locked, client, faults>>,
         r = "unrendered" => c.email \notin Renderable,
         \/ UNCHANGED <<accepted, dropped>> /\ r # "sent"
         \/ /\ accepted' = [accepted EXCEPT ![c.email] = @ \cup {c.attempt}]
            /\ UNCHANGED dropped
         \/ /\ "noop" \in Clients
            /\ dropped' = dropped \cup {c.email}
            /\ UNCHANGED accepted
  PROVE  IInv'
<1> DEFINE d == [c EXCEPT !.result = r]
<1>1. c \in Claim /\ c.email \in Emails /\ c.attempt \in Nat
  BY DEF IInv, TypeOK, Claim
<1>2. d \in Claim /\ d.email = c.email /\ d.attempt = c.attempt /\ d.result = r
  BY <1>1 DEF Claim
<1>3. batch' = [batch EXCEPT ![w] = (batch[w] \ {c}) \cup {d}]
  BY DEF WithResult
<1> HIDE DEF d
<1>4. \A v \in Workers : batch'[v] = IF v = w THEN (batch[w] \ {c}) \cup {d} ELSE batch[v]
  BY <1>3 DEF IInv, TypeOK
<1>5. \A e \in Emails :
        /\ accepted[e] \subseteq accepted'[e]
        /\ accepted'[e] \subseteq accepted[e] \cup {c.attempt}
        /\ e # c.email => accepted'[e] = accepted[e]
        /\ e = c.email /\ r = "sent" => c.attempt \in accepted'[e] \/ e \in dropped'
        /\ e \in dropped => e \in dropped'
  BY DEF IInv, TypeOK
<1>6. \A v \in Workers : \A b \in batch[v] : b \in Claim /\ b.email \in Emails
  BY DEF IInv, TypeOK, Claim
<1>7. TypeOK'
  <2>1. batch' \in [Workers -> SUBSET Claim]
    BY <1>2, <1>3 DEF IInv, TypeOK
  <2>2. accepted' \in [Emails -> SUBSET Nat]
    BY <1>1 DEF IInv, TypeOK
  <2>3. dropped' \subseteq Emails
    BY <1>1 DEF IInv, TypeOK
  <2> QED BY <2>1, <2>2, <2>3 DEF IInv, TypeOK
<1>8. ClaimsCounted'
  <2>1. \A v \in Workers : locked'[v] # {} => batch'[v] = {}
    BY <1>4 DEF IInv, TypeOK, ClaimsCounted
  <2>2. ASSUME NEW v \in Workers, NEW b \in batch'[v]
        PROVE  /\ b.attempt \in 1..outbox'[b.email].attempts
               /\ b.result = "sent" => b.attempt \in accepted'[b.email] \/ b.email \in dropped'
               /\ b.result = "unrendered" => b.email \notin Renderable
    <3>1. CASE b \in batch[v]
      BY <1>5, <1>6, <3>1 DEF IInv, ClaimsCounted
    <3>2. CASE b = d
      BY <1>1, <1>2, <1>5, <3>2 DEF IInv, ClaimsCounted
    <3> QED BY <1>4, <2>2, <3>1, <3>2
  <2> QED BY <2>1, <2>2 DEF ClaimsCounted
<1>9. ClaimsDistinct'
  <2> SUFFICES ASSUME NEW u \in Workers, NEW v \in Workers,
                      NEW a \in batch'[u], NEW b \in batch'[v],
                      a.email = b.email, a.attempt = b.attempt
               PROVE  u = v /\ a = b
    BY DEF ClaimsDistinct
  <2>1. \A x \in Workers : \A y \in batch[x] :
          y.email = c.email /\ y.attempt = c.attempt => x = w /\ y = c
    BY DEF IInv, ClaimsDistinct
  <2>2. \A x \in Workers : \A y \in batch'[x] :
          \/ y \in batch[x] /\ ~(x = w /\ y = c)
          \/ x = w /\ y = d
    BY <1>4
  <2>3. CASE a \in batch[u] /\ ~(u = w /\ a = c) /\ b \in batch[v]
    BY <2>3 DEF IInv, ClaimsDistinct
  <2>4. CASE a \in batch[u] /\ ~(u = w /\ a = c) /\ v = w /\ b = d
    BY <1>2, <2>1, <2>4
  <2>5. CASE u = w /\ a = d /\ b \in batch[v] /\ ~(v = w /\ b = c)
    BY <1>2, <2>1, <2>5
  <2>6. CASE u = w /\ a = d /\ v = w /\ b = d
    BY <2>6
  <2> QED BY <2>2, <2>3, <2>4, <2>5, <2>6
<1>10. DeliveriesCounted'
  <2>1. c.attempt \in 1..outbox[c.email].attempts
    BY DEF IInv, ClaimsCounted
  <2>2. \A e \in Emails : accepted'[e] \subseteq 1..outbox'[e].attempts
    BY <1>5, <2>1 DEF IInv, DeliveriesCounted
  <2>3. ASSUME NEW v \in Workers, NEW b \in batch'[v], b.result = "unsent"
        PROVE  b.attempt \notin accepted'[b.email]
    <3>1. b # d
      BY <1>2, <2>3
    <3>2. b \in batch[v] /\ ~(v = w /\ b = c)
      BY <1>4, <2>3, <3>1
    <3>3. b.attempt \notin accepted[b.email]
      BY <2>3, <3>2 DEF IInv, DeliveriesCounted
    <3>4. ~(b.email = c.email /\ b.attempt = c.attempt)
      BY <3>2 DEF IInv, ClaimsDistinct
    <3> QED BY <1>5, <1>6, <3>2, <3>3, <3>4
  <2> QED BY <2>2, <2>3 DEF DeliveriesCounted
<1>11. NothingDropped' /\ SentIsExplained' /\ FailedIsExhausted'
  BY <1>5 DEF IInv, NothingDropped, SentIsExplained, FailedIsExhausted
<1> QED BY <1>7, <1>8, <1>9, <1>10, <1>11 DEF IInv

LEMMA SendIInv ==
  ASSUME IInv, NEW w \in Workers, Send(w)
  PROVE  IInv'
<1>1. PICK c \in batch[w] :
        /\ ~Recording(w)
        /\ \/ /\ c.email \notin Renderable
              /\ WithResult(w, c, "unrendered")
              /\ UNCHANGED <<accepted, dropped>>
           \/ SendNothing(w, c)
           \/ SendMail(w, c)
        /\ UNCHANGED <<outbox, locked, client, faults>>
  BY DEF Send
<1>2. c.result = "unsent"
  BY <1>1 DEF Recording
<1>3. CASE /\ c.email \notin Renderable
           /\ WithResult(w, c, "unrendered")
           /\ UNCHANGED <<accepted, dropped>>
  BY <1>1, <1>2, <1>3, ResultIInv
<1>4. CASE SendNothing(w, c)
  <2>1. "noop" \in Clients
    BY <1>4 DEF SendNothing, IInv, TypeOK
  <2> QED BY <1>1, <1>2, <1>4, <2>1, ResultIInv DEF SendNothing
<1>5. CASE SendMail(w, c)
  <2>1. PICK outcome \in SendOutcomes :
          /\ WithResult(w, c, IF outcome = "delivered" THEN "sent" ELSE "error")
          /\ accepted' = IF outcome = "refused" THEN accepted
                         ELSE [accepted EXCEPT ![c.email] = @ \cup {c.attempt}]
    BY <1>5 DEF SendMail
  <2>2. UNCHANGED dropped
    BY <1>5 DEF SendMail
  <2>3. CASE outcome = "delivered"
    BY <1>1, <1>2, <2>1, <2>2, <2>3, ResultIInv
  <2>4. CASE outcome # "delivered"
    BY <1>1, <1>2, <2>1, <2>2, <2>4, ResultIInv
  <2> QED BY <2>3, <2>4
<1> QED BY <1>1, <1>3, <1>4, <1>5

----------------------------------------------------------------------------
LEMMA MarkIInv ==
  ASSUME IInv, NEW w \in Workers, Mark(w)
  PROVE  IInv'
<1>1. PICK c \in batch[w] :
        /\ c.result # "unsent"
        /\ outbox' = [outbox EXCEPT ![c.email] = Marked(@, c)]
        /\ batch' = [batch EXCEPT ![w] = @ \ {c}]
        /\ UNCHANGED <<locked, client, accepted, dropped, faults>>
  BY DEF Mark
<1>2. c \in Claim /\ c.email \in Emails /\ outbox[c.email] \in Row
  BY DEF IInv, TypeOK, Claim
<1>3. /\ Marked(outbox[c.email], c) \in Row
      /\ Marked(outbox[c.email], c).attempts = outbox[c.email].attempts
      /\ Marked(outbox[c.email], c).status = "sent" => c.result = "sent"
      /\ Marked(outbox[c.email], c).status = "failed" =>
           c.result = "unrendered" \/ c.attempt >= AttemptLimit
  BY <1>1, <1>2, MarkedFacts
<1>4. \A e \in Emails : outbox'[e] = IF e = c.email THEN Marked(outbox[e], c) ELSE outbox[e]
  BY <1>1 DEF IInv, TypeOK
<1>5. \A v \in Workers : batch'[v] \subseteq batch[v]
  BY <1>1 DEF IInv, TypeOK
<1>6. \A e \in Emails : outbox'[e].attempts = outbox[e].attempts
  BY <1>3, <1>4
<1>7. \A v \in Workers : \A b \in batch[v] : b.email \in Emails
  BY DEF IInv, TypeOK, Claim
<1>8. TypeOK'
  BY <1>1, <1>3 DEF IInv, TypeOK
<1>9. ClaimsCounted' /\ ClaimsDistinct' /\ DeliveriesCounted'
  BY <1>1, <1>5, <1>6, <1>7
     DEF IInv, ClaimsCounted, ClaimsDistinct, DeliveriesCounted
<1>10. NothingDropped' /\ SentIsExplained'
  BY <1>1, <1>3, <1>4 DEF IInv, NothingDropped, SentIsExplained, ClaimsCounted
<1>11. FailedIsExhausted'
  <2>1. c.attempt <= outbox[c.email].attempts /\ c.attempt \in Nat
        /\ outbox[c.email].attempts \in Nat
    BY <1>2 DEF IInv, ClaimsCounted, Claim, Row
  <2>2. ASSUME NEW e \in Emails, outbox'[e].status = "failed"
        PROVE  e \notin Renderable \/ outbox'[e].attempts >= AttemptLimit
    <3>1. CASE e = c.email
      BY <1>3, <1>4, <1>6, <2>1, <2>2, <3>1, LimitPositive DEF IInv, ClaimsCounted
    <3>2. CASE e # c.email
      BY <1>4, <1>6, <2>2, <3>2 DEF IInv, FailedIsExhausted
    <3> QED BY <3>1, <3>2
  <2> QED BY <2>2 DEF FailedIsExhausted
<1> QED BY <1>8, <1>9, <1>10, <1>11 DEF IInv

(* A lost update and a restart forget claims and change no row.            *)
LEMMA ForgetIInv ==
  ASSUME IInv, NEW w \in Workers, MarkLost(w) \/ Restart(w)
  PROVE  IInv'
<1>1. UNCHANGED <<outbox, accepted, dropped>> /\ faults' \in 0..MaxFaults
  BY FaultType DEF MarkLost, Restart, IInv
<1>7. client' \in [Workers -> Clients]
  BY DEF MarkLost, Restart, IInv, TypeOK
<1>2. /\ locked' \in [Workers -> SUBSET Emails]
      /\ \A v \in Workers : locked'[v] \subseteq locked[v]
  BY DEF MarkLost, Restart, IInv, TypeOK
<1>3. /\ batch' \in [Workers -> SUBSET Claim]
      /\ \A v \in Workers : batch'[v] \subseteq batch[v]
  BY DEF MarkLost, Restart, IInv, TypeOK
<1>4. TypeOK'
  BY <1>1, <1>2, <1>3, <1>7 DEF IInv, TypeOK
<1>5. ClaimsCounted' /\ ClaimsDistinct' /\ DeliveriesCounted'
  BY <1>1, <1>2, <1>3 DEF IInv, ClaimsCounted, ClaimsDistinct, DeliveriesCounted
<1>6. NothingDropped' /\ SentIsExplained' /\ FailedIsExhausted'
  BY <1>1 DEF IInv, NothingDropped, SentIsExplained, FailedIsExhausted
<1> QED BY <1>4, <1>5, <1>6 DEF IInv

LEMMA TickIInv ==
  ASSUME IInv, Tick
  PROVE  IInv'
<1>1. \A e \in Emails : /\ outbox'[e].attempts = outbox[e].attempts
                        /\ outbox'[e].status = outbox[e].status
  BY AgedFacts DEF Tick, IInv, TypeOK
<1>2. TypeOK'
  BY AgedFacts DEF Tick, IInv, TypeOK
<1>3. ClaimsCounted' /\ ClaimsDistinct' /\ DeliveriesCounted'
  BY <1>1 DEF Tick, IInv, TypeOK, Claim, ClaimsCounted, ClaimsDistinct, DeliveriesCounted
<1>4. NothingDropped' /\ SentIsExplained' /\ FailedIsExhausted'
  BY <1>1 DEF Tick, IInv, NothingDropped, SentIsExplained, FailedIsExhausted
<1> QED BY <1>2, <1>3, <1>4 DEF IInv

LEMMA StepIInv == IInv /\ [Next]_vars => IInv'
<1> SUFFICES ASSUME IInv, [Next]_vars PROVE IInv'
  OBVIOUS
<1>1. CASE \E e \in Emails : Enqueue(e)
  BY <1>1, EnqueueIInv
<1>2. CASE \E w \in Workers : LockCandidates(w) \/ AbortClaim(w)
  BY <1>2, LockIInv
<1>3. CASE \E w \in Workers : CommitClaim(w)
  BY <1>3, CommitClaimIInv
<1>4. CASE \E w \in Workers : CommitClaimUnseen(w)
  BY <1>4, CommitClaimUnseenIInv
<1>5. CASE \E w \in Workers : Send(w)
  BY <1>5, SendIInv
<1>6. CASE \E w \in Workers : Mark(w)
  BY <1>6, MarkIInv
<1>7. CASE \E w \in Workers : MarkLost(w) \/ Restart(w)
  BY <1>7, ForgetIInv
<1>8. CASE Tick
  BY <1>8, TickIInv
<1>9. CASE UNCHANGED vars
  BY <1>9 DEF vars, IInv, TypeOK, ClaimsCounted, ClaimsDistinct,
              DeliveriesCounted, NothingDropped, SentIsExplained, FailedIsExhausted
<1> QED BY <1>1, <1>2, <1>3, <1>4, <1>5, <1>6, <1>7, <1>8, <1>9 DEF Next

LEMMA Invariance == Spec => []IInv
  BY InitIInv, StepIInv, PTL DEF Spec

----------------------------------------------------------------------------
(* The variables keep their types: timers never go below zero and the      *)
(* fault bound is respected.                                               *)
THEOREM TypeCorrect == Spec => []TypeOK
<1>1. IInv => TypeOK
  BY DEF IInv
<1> QED BY <1>1, Invariance, PTL

(* However workers take over each other's stale claims, no two claims of   *)
(* an email carry the same attempt number.                                 *)
THEOREM ClaimsAreDistinct == Spec => []ClaimsDistinct
<1>1. IInv => ClaimsDistinct
  BY DEF IInv
<1> QED BY <1>1, Invariance, PTL

(* A message is delivered at most once per attempt the row counts.         *)
THEOREM DeliveriesAreCounted == Spec => []DeliveriesCounted
<1>1. IInv => DeliveriesCounted
  BY DEF IInv
<1> QED BY <1>1, Invariance, PTL

(* Nothing is recorded as sent unless the server accepted it or a worker   *)
(* with delivery disabled took it, with any number of workers, faults and  *)
(* takeovers, and whatever configuration each worker has.                  *)
THEOREM SentIsAccountedFor == Spec => []SentIsExplained
<1>1. IInv => SentIsExplained
  BY DEF IInv
<1> QED BY <1>1, Invariance, PTL

(* Where every worker sends through the SMTP server, nothing is recorded   *)
(* as sent that the server did not accept.                                 *)
THEOREM SentIsTrue == ASSUME "noop" \notin Clients PROVE Spec => []SentWasAccepted
<1>1. IInv => SentWasAccepted
  BY DEF IInv, NothingDropped, SentIsExplained, SentWasAccepted
<1> QED BY <1>1, Invariance, PTL

(* Nothing fails terminally before the configured number of attempts       *)
(* unless its template is invalid.                                         *)
THEOREM FailureIsEarned == Spec => []FailedIsExhausted
<1>1. IInv => FailedIsExhausted
  BY DEF IInv
<1> QED BY <1>1, Invariance, PTL

----------------------------------------------------------------------------
(* One worker, as the deployment runs.  A claim in memory is then the last *)
(* word on its row, and an attempt beyond the limit needs a fault: only a  *)
(* row whose claim was forgotten is claimed again at the limit.            *)
OneWorker == \A v, w \in Workers : v = w

Held(e) == \E w \in Workers : \E c \in batch[w] : c.email = e

Allowance == AttemptLimit + faults

ClaimsAreCurrent ==
    \A w \in Workers :
      /\ \A c \in batch[w] : /\ outbox[c.email].status = "processing"
                             /\ c.attempt = outbox[c.email].attempts
      /\ \A e \in locked[w] : outbox[e].status \in {"pending", "processing"}

(* A row that may be claimed without a further fault has room for the claim. *)
Unclaimed(e) ==
    \/ outbox[e].status \in {"absent", "pending"}
    \/ outbox[e].status = "processing" /\ ~Held(e)

RoomIsLeft == \A e \in Emails : Unclaimed(e) => outbox[e].attempts < Allowance

OneWorkerInv == ClaimsAreCurrent /\ ExcessIsPaidByFaults /\ RoomIsLeft

LEMMA AllowanceIsNat ==
  ASSUME TypeOK
  PROVE  faults \in Nat /\ Allowance \in Nat /\ AttemptLimit <= Allowance
         /\ \A e \in Emails : outbox[e].attempts \in Nat
<1>1. faults \in Nat
  BY EmailOutboxAssumption DEF TypeOK, EmailOutboxAssumption
<1> QED BY <1>1, LimitPositive DEF Allowance, TypeOK, Row

LEMMA InitOneWorkerInv == Init => OneWorkerInv
<1> SUFFICES ASSUME Init PROVE OneWorkerInv
  OBVIOUS
<1>1. ClaimsAreCurrent
  BY DEF Init, ClaimsAreCurrent
<1>2. \A e \in Emails : outbox[e].attempts = 0
  BY DEF Init, NoRow
<1>3. Allowance \in Nat /\ Allowance > 0
  BY LimitPositive DEF Init, Allowance
<1> QED BY <1>1, <1>2, <1>3 DEF OneWorkerInv, ExcessIsPaidByFaults, RoomIsLeft, Allowance

(* The rows age, or one is enqueued: no claim and no count changes.        *)
LEMMA RowsWaitOneWorkerInv ==
  ASSUME IInv, OneWorkerInv, UNCHANGED <<locked, batch, faults>>,
         \A e \in Emails :
            /\ outbox'[e].attempts = outbox[e].attempts
            /\ \/ outbox'[e].status = outbox[e].status
               \/ outbox[e].status = "absent" /\ outbox'[e].status = "pending"
  PROVE  OneWorkerInv'
<1>1. \A w \in Workers : /\ \A c \in batch[w] : c.email \in Emails
                         /\ locked[w] \subseteq Emails
  BY DEF IInv, TypeOK, Claim
<1>2. ClaimsAreCurrent'
  BY <1>1 DEF OneWorkerInv, ClaimsAreCurrent
<1>3. \A e \in Emails : Held(e)' <=> Held(e)
  BY DEF Held
<1>4. Allowance' = Allowance
  BY DEF Allowance
<1>5. ExcessIsPaidByFaults'
  BY DEF OneWorkerInv, ExcessIsPaidByFaults
<1>6. RoomIsLeft'
  BY <1>3, <1>4 DEF OneWorkerInv, RoomIsLeft, Unclaimed
<1> QED BY <1>2, <1>5, <1>6 DEF OneWorkerInv

(* Candidates are rows nobody holds a claim of: the worker is polling.     *)
LEMMA LockOneWorkerInv ==
  ASSUME IInv, OneWorkerInv, NEW w \in Workers, LockCandidates(w)
  PROVE  OneWorkerInv'
<1>1. UNCHANGED <<outbox, batch, faults>>
  BY DEF LockCandidates
<1>2. PICK S \in SUBSET Candidates(w) : locked' = [locked EXCEPT ![w] = S]
  BY DEF LockCandidates
<1>3. \A e \in S : outbox[e].status \in {"pending", "processing"}
  BY DEF Candidates, Claimable
<1>4. \A v \in Workers : locked'[v] = IF v = w THEN S ELSE locked[v]
  BY <1>2 DEF IInv, TypeOK
<1>5. ClaimsAreCurrent'
  BY <1>1, <1>3, <1>4 DEF OneWorkerInv, ClaimsAreCurrent
<1>6. ExcessIsPaidByFaults' /\ RoomIsLeft'
  BY <1>1 DEF OneWorkerInv, ExcessIsPaidByFaults, RoomIsLeft, Unclaimed, Held, Allowance
<1> QED BY <1>5, <1>6 DEF OneWorkerInv

(* A fault that forgets claims pays for the rows they leave behind.        *)
LEMMA ForgetOneWorkerInv ==
  ASSUME IInv, OneWorkerInv, UNCHANGED outbox, faults' = faults + 1,
         \A v \in Workers : batch'[v] \subseteq batch[v] /\ locked'[v] \subseteq locked[v]
  PROVE  OneWorkerInv'
<1>1. ClaimsAreCurrent'
  BY DEF OneWorkerInv, ClaimsAreCurrent
<1>2. \A e \in Emails : outbox[e].attempts \in Nat /\ outbox[e].attempts <= Allowance
  BY AllowanceIsNat DEF IInv, OneWorkerInv, ExcessIsPaidByFaults, Allowance
<1>3. Allowance \in Nat /\ Allowance' = Allowance + 1
  BY AllowanceIsNat, LimitPositive DEF IInv, Allowance
<1>4. \A e \in Emails : outbox'[e].attempts < Allowance'
  BY <1>2, <1>3
<1>5. ExcessIsPaidByFaults' /\ RoomIsLeft'
  BY <1>2, <1>3, <1>4 DEF ExcessIsPaidByFaults, RoomIsLeft, Allowance
<1> QED BY <1>1, <1>5 DEF OneWorkerInv

(* The rows a claim transaction locks have room for the attempt it counts: *)
(* the worker that holds the locks holds no claims, and there is no other. *)
LEMMA LockedHaveRoom ==
  ASSUME OneWorker, IInv, OneWorkerInv, NEW w \in Workers, locked[w] # {}
  PROVE  /\ \A v \in Workers : batch[v] = {}
         /\ \A e \in locked[w] : e \in Emails /\ outbox[e].attempts < Allowance
<1>1. \A v \in Workers : batch[v] = {}
  BY DEF OneWorker, IInv, ClaimsCounted
<1>2. \A e \in locked[w] : e \in Emails /\ Unclaimed(e)
  BY <1>1 DEF IInv, TypeOK, OneWorkerInv, ClaimsAreCurrent, Unclaimed, Held
<1> QED BY <1>1, <1>2 DEF OneWorkerInv, RoomIsLeft

LEMMA CommitOneWorkerInv ==
  ASSUME OneWorker, IInv, OneWorkerInv, NEW w \in Workers, CommitClaim(w)
  PROVE  OneWorkerInv'
<1>1. ClaimRows(w) /\ UNCHANGED faults /\ locked[w] # {}
  BY DEF CommitClaim
<1>2. \A e \in Emails :
        /\ outbox'[e].attempts = IF e \in locked[w] THEN outbox[e].attempts + 1
                                                    ELSE outbox[e].attempts
        /\ outbox'[e].status = IF e \in locked[w] THEN "processing" ELSE outbox[e].status
  BY <1>1, ClaimRowsFacts DEF IInv
<1>3. locked[w] \subseteq Emails /\ \A e \in Emails : outbox[e] \in Row
  BY DEF IInv, TypeOK
<1>4. /\ locked'[w] = {}
      /\ batch'[w] = {[email |-> e, attempt |-> ClaimedRow(outbox[e]).attempts,
                       result |-> "unsent"] : e \in locked[w]}
  BY DEF CommitClaim, IInv, TypeOK
<1>5. \A e \in locked[w] : ClaimedRow(outbox[e]).attempts = outbox[e].attempts + 1
  BY <1>3, ClaimedRowFacts
<1>6. ClaimsAreCurrent'
  <2>1. \A c \in batch'[w] : /\ outbox'[c.email].status = "processing"
                             /\ c.attempt = outbox'[c.email].attempts
    BY <1>2, <1>3, <1>4, <1>5
  <2> QED BY <1>4, <2>1 DEF ClaimsAreCurrent, OneWorker
<1>7. /\ Allowance' = Allowance /\ Allowance \in Nat
      /\ \A e \in Emails : outbox[e].attempts \in Nat
  BY <1>1, AllowanceIsNat DEF Allowance, IInv
<1>8. \A e \in locked[w] : outbox[e].attempts < Allowance
  BY <1>1, LockedHaveRoom
<1>9. ExcessIsPaidByFaults'
  BY <1>1, <1>2, <1>7, <1>8 DEF OneWorkerInv, ExcessIsPaidByFaults, Allowance
<1>10. RoomIsLeft'
  <2>1. ASSUME NEW e \in locked[w] PROVE Held(e)'
    <3> DEFINE claim == [email |-> e, attempt |-> ClaimedRow(outbox[e]).attempts,
                         result |-> "unsent"]
    <3>1. claim \in batch'[w] /\ claim.email = e
      BY <1>4
    <3> HIDE DEF claim
    <3> QED BY <3>1 DEF Held
  <2>2. \A e \in Emails \ locked[w] : Held(e) => Held(e)'
    BY <1>1, LockedHaveRoom DEF Held
  <2> QED BY <1>2, <1>7, <2>1, <2>2 DEF OneWorkerInv, RoomIsLeft, Unclaimed
<1> QED BY <1>6, <1>9, <1>10 DEF OneWorkerInv

LEMMA CommitUnseenOneWorkerInv ==
  ASSUME OneWorker, IInv, OneWorkerInv, NEW w \in Workers, CommitClaimUnseen(w)
  PROVE  OneWorkerInv'
<1>1. ClaimRows(w) /\ UNCHANGED batch /\ faults' = faults + 1 /\ locked[w] # {}
  BY DEF CommitClaimUnseen, Fault
<1>2. \A e \in Emails :
        outbox'[e].attempts = IF e \in locked[w] THEN outbox[e].attempts + 1
                                                 ELSE outbox[e].attempts
  BY <1>1, ClaimRowsFacts DEF IInv
<1>3. locked'[w] = {} /\ \A v \in Workers : batch[v] = {}
  BY <1>1, LockedHaveRoom DEF CommitClaimUnseen, IInv, TypeOK
<1>4. ClaimsAreCurrent'
  BY <1>1, <1>3 DEF ClaimsAreCurrent, OneWorker
<1>5. Allowance \in Nat /\ Allowance' = Allowance + 1
  BY <1>1, AllowanceIsNat, LimitPositive DEF IInv, Allowance
<1>6. \A e \in Emails : outbox[e].attempts \in Nat /\ outbox[e].attempts <= Allowance
  BY AllowanceIsNat DEF IInv, OneWorkerInv, ExcessIsPaidByFaults, Allowance
<1>7. \A e \in locked[w] : outbox[e].attempts < Allowance
  BY <1>1, LockedHaveRoom
<1>8. \A e \in Emails : outbox'[e].attempts < Allowance' /\ outbox'[e].attempts <= Allowance'
  BY <1>2, <1>5, <1>6, <1>7
<1> QED BY <1>4, <1>8 DEF OneWorkerInv, ExcessIsPaidByFaults, RoomIsLeft, Allowance

LEMMA SendOneWorkerInv ==
  ASSUME IInv, OneWorkerInv, NEW w \in Workers, Send(w)
  PROVE  OneWorkerInv'
<1>1. UNCHANGED <<outbox, locked, faults>>
  BY DEF Send
<1>2. PICK c \in batch[w], r \in {"unrendered", "sent", "error"} : WithResult(w, c, r)
  BY DEF Send, SendNothing, SendMail
<1>3. c \in Claim
  BY DEF IInv, TypeOK
<1>4. PICK d : /\ d.email = c.email /\ d.attempt = c.attempt
               /\ \A v \in Workers :
                    batch'[v] = IF v = w THEN (batch[w] \ {c}) \cup {d} ELSE batch[v]
  <2> DEFINE d == [c EXCEPT !.result = r]
  <2>1. d.email = c.email /\ d.attempt = c.attempt
    BY <1>3 DEF Claim
  <2>2. batch' = [batch EXCEPT ![w] = (batch[w] \ {c}) \cup {d}]
    BY <1>2 DEF WithResult
  <2> HIDE DEF d
  <2> QED BY <2>1, <2>2 DEF IInv, TypeOK
<1>5. ClaimsAreCurrent'
  BY <1>1, <1>4 DEF OneWorkerInv, ClaimsAreCurrent
<1>6. \A e : Held(e) => Held(e)'
  BY <1>4 DEF Held
<1>7. ExcessIsPaidByFaults' /\ RoomIsLeft'
  BY <1>1, <1>6 DEF OneWorkerInv, ExcessIsPaidByFaults, RoomIsLeft, Unclaimed, Allowance
<1> QED BY <1>5, <1>7 DEF OneWorkerInv

(* A retry is granted below the limit, and a claim is current: the row it  *)
(* makes pending again has room.                                           *)
LEMMA MarkOneWorkerInv ==
  ASSUME OneWorker, IInv, OneWorkerInv, NEW w \in Workers, Mark(w)
  PROVE  OneWorkerInv'
<1>1. PICK c \in batch[w] :
        /\ c.result # "unsent"
        /\ outbox' = [outbox EXCEPT ![c.email] = Marked(@, c)]
        /\ batch' = [batch EXCEPT ![w] = @ \ {c}]
        /\ UNCHANGED <<locked, client, accepted, dropped, faults>>
  BY DEF Mark
<1>2. c \in Claim /\ c.email \in Emails /\ outbox[c.email] \in Row
  BY DEF IInv, TypeOK, Claim
<1>3. \A e \in Emails : outbox'[e] = IF e = c.email THEN Marked(outbox[e], c) ELSE outbox[e]
  BY <1>1 DEF IInv, TypeOK
<1>4. \A e \in Emails : outbox'[e].attempts = outbox[e].attempts
  BY <1>1, <1>2, <1>3, MarkedFacts
<1>5. locked[w] = {} /\ batch'[w] = batch[w] \ {c}
  BY <1>1 DEF IInv, TypeOK, ClaimsCounted
<1>6. \A b \in batch'[w] : b \in batch[w] /\ b.email # c.email /\ b.email \in Emails
  BY <1>5 DEF IInv, TypeOK, Claim, ClaimsDistinct, OneWorkerInv, ClaimsAreCurrent
<1>7. ClaimsAreCurrent'
  BY <1>1, <1>3, <1>5, <1>6 DEF OneWorkerInv, ClaimsAreCurrent, OneWorker
<1>8. ExcessIsPaidByFaults'
  BY <1>1, <1>4 DEF OneWorkerInv, ExcessIsPaidByFaults
<1>9. RoomIsLeft'
  <2> SUFFICES ASSUME NEW e \in Emails, Unclaimed(e)'
               PROVE  outbox'[e].attempts < Allowance'
    BY DEF RoomIsLeft
  <2>1. Allowance' = Allowance
    BY <1>1 DEF Allowance
  <2>2. CASE e # c.email
    <3>1. Held(e) => Held(e)'
      BY <1>5, <2>2 DEF Held, OneWorker
    <3> QED BY <1>3, <2>1, <2>2, <3>1 DEF OneWorkerInv, RoomIsLeft, Unclaimed
  <2>3. CASE e = c.email
    <3>1. Marked(outbox[e], c).status \in {"absent", "pending", "processing"}
      BY <1>3, <2>3 DEF Unclaimed
    <3>2. c.attempt < AttemptLimit
      BY <1>1, <1>2, <2>3, <3>1, LimitPositive
         DEF Marked, MarkedSent, MarkedFailed, MarkedRetry, Claim, Row
    <3>3. c.attempt = outbox[e].attempts
      BY <2>3 DEF OneWorkerInv, ClaimsAreCurrent
    <3> QED BY <1>4, <2>1, <3>2, <3>3, AllowanceIsNat, LimitPositive DEF IInv
  <2> QED BY <2>2, <2>3
<1> QED BY <1>7, <1>8, <1>9 DEF OneWorkerInv

LEMMA StepOneWorkerInv ==
  ASSUME OneWorker
  PROVE  IInv /\ OneWorkerInv /\ [Next]_vars => OneWorkerInv'
<1> SUFFICES ASSUME IInv, OneWorkerInv, [Next]_vars PROVE OneWorkerInv'
  OBVIOUS
<1>1. CASE \E e \in Emails : Enqueue(e)
  <2>1. \A f \in Emails :
          /\ outbox'[f].attempts = outbox[f].attempts
          /\ \/ outbox'[f].status = outbox[f].status
             \/ outbox[f].status = "absent" /\ outbox'[f].status = "pending"
    BY <1>1 DEF Enqueue, IInv, TypeOK, Row
  <2> QED BY <1>1, <2>1, RowsWaitOneWorkerInv DEF Enqueue
<1>2. CASE \E w \in Workers : LockCandidates(w)
  BY <1>2, LockOneWorkerInv
<1>3. CASE \E w \in Workers : CommitClaim(w)
  BY <1>3, CommitOneWorkerInv
<1>4. CASE \E w \in Workers : CommitClaimUnseen(w)
  BY <1>4, CommitUnseenOneWorkerInv
<1>5. CASE \E w \in Workers : Send(w)
  BY <1>5, SendOneWorkerInv
<1>6. CASE \E w \in Workers : Mark(w)
  BY <1>6, MarkOneWorkerInv
<1>7. CASE \E w \in Workers : MarkLost(w) \/ Restart(w) \/ AbortClaim(w)
  <2>1. /\ UNCHANGED outbox
        /\ faults' = faults + 1
        /\ \A v \in Workers : batch'[v] \subseteq batch[v] /\ locked'[v] \subseteq locked[v]
    BY <1>7 DEF MarkLost, Restart, AbortClaim, Fault, IInv, TypeOK
  <2> QED BY <2>1, ForgetOneWorkerInv
<1>8. CASE Tick
  <2>1. \A e \in Emails : /\ outbox'[e].attempts = outbox[e].attempts
                          /\ outbox'[e].status = outbox[e].status
    BY <1>8, AgedFacts DEF Tick, IInv, TypeOK
  <2> QED BY <1>8, <2>1, RowsWaitOneWorkerInv DEF Tick
<1>9. CASE UNCHANGED vars
  BY <1>9 DEF vars, OneWorkerInv, ClaimsAreCurrent, ExcessIsPaidByFaults, RoomIsLeft,
              Unclaimed, Held, Allowance
<1> QED BY <1>1, <1>2, <1>3, <1>4, <1>5, <1>6, <1>7, <1>8, <1>9 DEF Next

LEMMA OneWorkerInvariance == ASSUME OneWorker PROVE Spec => [](IInv /\ OneWorkerInv)
<1>1. Init => IInv /\ OneWorkerInv
  BY InitIInv, InitOneWorkerInv
<1>2. IInv /\ OneWorkerInv /\ [Next]_vars => (IInv /\ OneWorkerInv)'
  BY StepIInv, StepOneWorkerInv
<1> QED BY <1>1, <1>2, PTL DEF Spec

----------------------------------------------------------------------------
(* The refinement mapping, row by row.                                     *)
LEMMA MappingFacts ==
  ASSUME TypeOK
  PROVE  \A e \in Emails :
           /\ outbox[e].status = "absent" <=> PromisedState(e) = "none"
           /\ outbox[e].status \in {"pending", "processing"} <=> PromisedState(e) = "queued"
           /\ Settled(e) => PromisedState(e) = outbox[e].status
           /\ ~Settled(e) => PromisedState(e) \notin {"sent", "failed"}
BY DEF TypeOK, Row, PromisedState, Settled

(* A step that moves no row between the three stages of a row's life, and  *)
(* delivers or drops nothing, is a stutter of the abstract specification.  *)
LEMMA SameStatesStutter ==
  ASSUME \A e \in Emails : PromisedState(e)' = PromisedState(e),
         UNCHANGED <<accepted, dropped>>
  PROVE  UNCHANGED Promise!vars
BY DEF Promise!vars

(* A row that keeps its status, or moves between pending and processing,   *)
(* keeps its promised state.                                               *)
LEMMA QueuedStaysQueued ==
  ASSUME NEW e \in Emails,
         \/ outbox'[e].status = outbox[e].status
         \/ /\ outbox[e].status \in {"pending", "processing"}
            /\ outbox'[e].status \in {"pending", "processing"}
  PROVE  PromisedState(e)' = PromisedState(e)
BY DEF PromisedState, Settled

(* One row moves, the others keep their promised states.                   *)
LEMMA OneRowMoves ==
  ASSUME NEW e \in Emails,
         \A f \in Emails \ {e} : PromisedState(f)' = PromisedState(f)
  PROVE  [f \in Emails |-> PromisedState(f)]' =
           [[f \in Emails |-> PromisedState(f)] EXCEPT ![e] = PromisedState(e)']
<1>1. [f \in Emails |-> PromisedState(f)]' = [f \in Emails |-> PromisedState(f)']
  OBVIOUS
<1> QED BY <1>1

LEMMA EnqueueRefines ==
  ASSUME IInv, NEW e \in Emails, Enqueue(e)
  PROVE  Promise!Queue(e)
<1>1. \A f \in Emails : outbox'[f].status = IF f = e THEN "pending" ELSE outbox[f].status
  BY DEF Enqueue, IInv, TypeOK, Row
<1>2. \A f \in Emails \ {e} : PromisedState(f)' = PromisedState(f)
  BY <1>1, QueuedStaysQueued
<1>3. PromisedState(e) = "none" /\ PromisedState(e)' = "queued"
  BY <1>1 DEF Enqueue, PromisedState, Settled
<1>4. UNCHANGED <<accepted, dropped>>
  BY DEF Enqueue
<1> QED BY <1>2, <1>3, <1>4, OneRowMoves DEF Promise!Queue

(* A claim counts an attempt of a queued row: it stays queued.             *)
LEMMA ClaimRefines ==
  ASSUME IInv, OneWorkerInv, NEW w \in Workers, ClaimRows(w),
         UNCHANGED <<accepted, dropped>>
  PROVE  UNCHANGED Promise!vars
<1>1. \A e \in Emails :
        outbox'[e].status = IF e \in locked[w] THEN "processing" ELSE outbox[e].status
  BY ClaimRowsFacts DEF IInv
<1>2. \A e \in locked[w] : outbox[e].status \in {"pending", "processing"}
  BY DEF OneWorkerInv, ClaimsAreCurrent
<1>3. \A e \in Emails : PromisedState(e)' = PromisedState(e)
  BY <1>1, <1>2, QueuedStaysQueued
<1> QED BY <1>3, SameStatesStutter

(* The attempt of a claim not yet sent has delivered nothing, and is one   *)
(* of those the faults allow: a message that leaves is a new delivery of a *)
(* queued email, one that NoopClient drops is discarded while queued.      *)
LEMMA SendRefines ==
  ASSUME IInv, OneWorkerInv, NEW w \in Workers, Send(w)
  PROVE  [Promise!Next]_Promise!vars
<1>1. PICK c \in batch[w] :
        /\ c.result = "unsent"
        /\ \/ UNCHANGED <<accepted, dropped>>
           \/ /\ c.email \in Renderable
              /\ accepted' = [accepted EXCEPT ![c.email] = @ \cup {c.attempt}]
              /\ UNCHANGED dropped
           \/ /\ c.email \in Renderable
              /\ client[w] = "noop"
              /\ dropped' = dropped \cup {c.email}
              /\ UNCHANGED accepted
  BY DEF Send, SendNothing, SendMail, Recording
<1>2. UNCHANGED outbox
  BY DEF Send
<1>3. \A e \in Emails : PromisedState(e)' = PromisedState(e)
  BY <1>2, QueuedStaysQueued
<1>4. c.email \in Emails /\ c.attempt \in Nat
  BY DEF IInv, TypeOK, Claim
<1>5. PromisedState(c.email) = "queued"
  BY <1>4, MappingFacts DEF IInv, OneWorkerInv, ClaimsAreCurrent
<1>6. CASE UNCHANGED <<accepted, dropped>>
  BY <1>3, <1>6, SameStatesStutter
<1>7. CASE /\ c.email \in Renderable
           /\ accepted' = [accepted EXCEPT ![c.email] = @ \cup {c.attempt}]
           /\ UNCHANGED dropped
  <2>1. c.attempt \in 1..(AttemptLimit + MaxFaults)
    <3>1. c.attempt >= 1 /\ c.attempt <= AttemptLimit + faults
      BY <1>4, AllowanceIsNat
         DEF IInv, ClaimsCounted, OneWorkerInv, ClaimsAreCurrent, ExcessIsPaidByFaults
    <3>2. faults \in Nat /\ faults <= MaxFaults /\ MaxFaults \in Nat
      BY EmailOutboxAssumption DEF IInv, TypeOK, EmailOutboxAssumption
    <3> QED BY <1>4, <3>1, <3>2, LimitPositive
  <2>2. c.attempt \notin accepted[c.email]
    BY <1>1 DEF IInv, DeliveriesCounted
  <2>3. Promise!Deliver(c.email)
    BY <1>3, <1>4, <1>5, <1>7, <2>1, <2>2 DEF Promise!Deliver
  <2> QED BY <1>4, <2>3 DEF Promise!Next
<1>8. CASE /\ c.email \in Renderable
           /\ client[w] = "noop"
           /\ dropped' = dropped \cup {c.email}
           /\ UNCHANGED accepted
  <2>1. "noop" \in Clients
    BY <1>8 DEF IInv, TypeOK
  <2>2. Promise!Discard(c.email)
    BY <1>3, <1>4, <1>5, <1>8, <2>1 DEF Promise!Discard
  <2> QED BY <1>4, <2>2 DEF Promise!Next
<1> QED BY <1>1, <1>6, <1>7, <1>8

(* A claim is current, so the row it is recorded on is queued; 'sent' is   *)
(* recorded after a delivery or a drop.                                    *)
LEMMA MarkRefines ==
  ASSUME IInv, OneWorkerInv, NEW w \in Workers, Mark(w)
  PROVE  [Promise!Next]_Promise!vars
<1>1. PICK c \in batch[w] :
        /\ c.result # "unsent"
        /\ outbox' = [outbox EXCEPT ![c.email] = Marked(@, c)]
        /\ UNCHANGED <<accepted, dropped>>
  BY DEF Mark
<1> DEFINE e == c.email
           row == Marked(outbox[e], c)
<1>2. c \in Claim /\ e \in Emails /\ outbox[e] \in Row
  BY DEF IInv, TypeOK, Claim
<1>3. row \in Row /\ (row.status = "sent" => c.result = "sent")
  BY <1>1, <1>2, MarkedFacts
<1>4. row.status \in {"sent", "failed", "pending"}
  BY <1>2, <1>3 DEF Marked, MarkedSent, MarkedFailed, MarkedRetry, Row
<1>5. \A f \in Emails : outbox'[f].status = IF f = e THEN row.status ELSE outbox[f].status
  BY <1>1 DEF IInv, TypeOK
<1>6. outbox[e].status = "processing"
  BY DEF OneWorkerInv, ClaimsAreCurrent
<1> HIDE DEF row
<1>7. CASE row.status = "pending"
  <2>1. \A f \in Emails : PromisedState(f)' = PromisedState(f)
    BY <1>5, <1>6, <1>7, QueuedStaysQueued
  <2> QED BY <1>1, <2>1, SameStatesStutter
<1>8. CASE row.status \in {"sent", "failed"}
  <2>1. PromisedState(e) = "queued" /\ PromisedState(e)' = row.status
    BY <1>2, <1>5, <1>6, <1>8 DEF PromisedState, Settled
  <2>2. \A f \in Emails \ {e} : PromisedState(f)' = PromisedState(f)
    BY <1>5, QueuedStaysQueued
  <2>3. row.status = "sent" => accepted[e] # {} \/ e \in dropped
    BY <1>3 DEF IInv, ClaimsCounted
  <2>4. Promise!Settle(e)
    BY <1>1, <1>2, <1>8, <2>1, <2>2, <2>3, OneRowMoves DEF Promise!Settle
  <2> QED BY <1>2, <2>4 DEF Promise!Next
<1> QED BY <1>4, <1>7, <1>8

LEMMA StepRefines ==
  ASSUME IInv, OneWorkerInv, [Next]_vars
  PROVE  [Promise!Next]_Promise!vars
<1>1. CASE \E e \in Emails : Enqueue(e)
  BY <1>1, EnqueueRefines DEF Promise!Next
<1>2. CASE \E w \in Workers : CommitClaim(w) \/ CommitClaimUnseen(w)
  BY <1>2, ClaimRefines DEF CommitClaim, CommitClaimUnseen
<1>3. CASE \E w \in Workers : Send(w)
  BY <1>3, SendRefines
<1>4. CASE \E w \in Workers : Mark(w)
  BY <1>4, MarkRefines
<1>5. CASE \/ \E w \in Workers : \/ LockCandidates(w) \/ AbortClaim(w)
                                 \/ MarkLost(w) \/ Restart(w)
           \/ Tick
           \/ UNCHANGED vars
  <2>1. \A e \in Emails : outbox'[e].status = outbox[e].status
    BY <1>5, AgedFacts
       DEF LockCandidates, AbortClaim, MarkLost, Restart, Tick, vars, IInv, TypeOK
  <2>2. UNCHANGED <<accepted, dropped>>
    BY <1>5 DEF LockCandidates, AbortClaim, MarkLost, Restart, Tick, vars
  <2> QED BY <2>1, <2>2, QueuedStaysQueued, SameStatesStutter
<1> QED BY <1>1, <1>2, <1>3, <1>4, <1>5 DEF Next

(* The abstract specification never moves a settled email.                 *)
LEMMA PromiseSettlesOnce ==
  ASSUME TypeOK, TypeOK', [Promise!Next]_Promise!vars
  PROVE  \A e \in Emails : Settled(e) => outbox'[e].status = outbox[e].status
<1> SUFFICES ASSUME NEW e \in Emails, Settled(e)
             PROVE  outbox'[e].status = outbox[e].status
  OBVIOUS
<1> DEFINE state == [f \in Emails |-> PromisedState(f)]
<1>1. state[e] \in {"sent", "failed"} /\ state[e] = outbox[e].status
  BY MappingFacts DEF Settled
<1>2. state'[e] = state[e]
  <2>1. CASE UNCHANGED Promise!vars
    BY <2>1 DEF Promise!vars
  <2>2. CASE Promise!Next
    <3>1. PICK f \in Emails : \/ Promise!Queue(f) \/ Promise!Deliver(f)
                             \/ Promise!Discard(f) \/ Promise!Settle(f)
      BY <2>2 DEF Promise!Next
    <3>2. \/ state' = state
          \/ /\ state[f] \in {"none", "queued"}
             /\ \E s : state' = [state EXCEPT ![f] = s]
      BY <3>1 DEF Promise!Queue, Promise!Deliver, Promise!Discard, Promise!Settle
    <3>3. DOMAIN state = Emails
      OBVIOUS
    <3> HIDE DEF state
    <3> QED BY <1>1, <3>2, <3>3
  <2> QED BY <2>1, <2>2
<1>3. PromisedState(e)' = outbox[e].status /\ PromisedState(e)' \in {"sent", "failed"}
  BY <1>1, <1>2
<1>4. outbox'[e].status = PromisedState(e)'
  BY <1>3, Zenon DEF PromisedState, Settled
<1> QED BY <1>3, <1>4

----------------------------------------------------------------------------
(* With one worker, whatever fails, an attempt beyond the configured limit *)
(* is preceded by a fault of its own.                                      *)
THEOREM ExcessIsAlwaysPaid == ASSUME OneWorker PROVE Spec => []ExcessIsPaidByFaults
<1>1. IInv /\ OneWorkerInv => ExcessIsPaidByFaults
  BY DEF OneWorkerInv
<1> QED BY <1>1, OneWorkerInvariance, PTL

(* With one worker the outbox implements at-least-once delivery: claims,   *)
(* locks, retries, faults and time only ever queue an email once, deliver  *)
(* it while it is queued, and settle it once, as sent after a delivery or, *)
(* only where a worker's delivery is disabled, after it was discarded.     *)
(* (The safety part of ImplementsDelivery.)                                *)
THEOREM DeliveryIsImplemented == ASSUME OneWorker PROVE Spec => Promise!SafeSpec
<1>1. Init => Promise!Init
  <2>1. Init => \A e \in Emails : outbox[e].status = "absent"
    BY DEF Init, NoRow
  <2>2. Init => \A e \in Emails : PromisedState(e) = "none"
    BY <2>1, InitIInv, MappingFacts DEF IInv
  <2> QED BY <2>2 DEF Init, Promise!Init
<1>2. IInv /\ OneWorkerInv /\ [Next]_vars => [Promise!Next]_Promise!vars
  BY StepRefines
<1> QED BY <1>1, <1>2, OneWorkerInvariance, PTL DEF Spec, Promise!SafeSpec

(* With one worker, 'sent' and 'failed' are final: the row of a claim in   *)
(* memory is still the worker's, and no settled row is a candidate.        *)
THEOREM SettledStaysSettled == ASSUME OneWorker PROVE Spec => SettledIsFinal
<1>1. IInv /\ IInv' /\ OneWorkerInv /\ [Next]_vars
        => [\A e \in Emails : Settled(e) => outbox'[e].status = outbox[e].status]_outbox
  BY StepRefines, PromiseSettlesOnce DEF IInv
<1> QED BY <1>1, OneWorkerInvariance, PTL DEF Spec, SettledIsFinal
============================================================================
