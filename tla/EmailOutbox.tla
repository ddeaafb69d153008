---------------------------- MODULE EmailOutbox ----------------------------
(***************************************************************************)
(* The durable email outbox and the email workers that drain it            *)
(* (backend/internal/emailoutbox and backend/cmd/email-worker).            *)
(*                                                                         *)
(* Any number of worker processes poll the table.  A claim is one          *)
(* transaction, here two steps so that FOR UPDATE SKIP LOCKED matters: it  *)
(* locks a batch of due rows, then commits them as 'processing'.  Sending  *)
(* and recording the outcome are later, unlocked steps keyed by the row id *)
(* alone.  Time is counted down: a row knows how many ticks separate it    *)
(* from next_attempt_at and from the moment its claim becomes stale.       *)
(***************************************************************************)
EXTENDS Naturals, FiniteSets

CONSTANTS
    Emails,        \* outbox rows that may be enqueued
    Renderable,    \* those whose template data Render accepts
    Workers,       \* email-worker processes
    Clients,       \* the mail clients their configurations may select
    MaxAttempts,   \* EMAIL_MAX_ATTEMPTS
    BatchSize,     \* batchSize
    StaleAfter,    \* staleProcessingAfter, in ticks
    Delays,        \* RetryDelay after attempts 1, 2, 3 and 4 or more, in ticks
    SendOutcomes,  \* what the SMTP server may do with a message
    FaultKinds,    \* which of the faults below may happen
    MaxFaults      \* bound on their number

AllClients == {"smtp", "noop"}
AllOutcomes == {"delivered", "refused", "unacknowledged"}
AllFaultKinds == {"claim unseen", "claim aborted", "mark lost", "restart"}

ASSUME EmailOutboxAssumption ==
    /\ Renderable \subseteq Emails
    /\ Clients \subseteq AllClients
    /\ MaxAttempts \in Nat
    /\ BatchSize \in Nat \ {0}
    /\ StaleAfter \in Nat \ {0}
    /\ Delays \in [1..4 -> Nat \ {0}]
    /\ SendOutcomes \subseteq AllOutcomes
    /\ FaultKinds \subseteq AllFaultKinds
    /\ MaxFaults \in Nat

VARIABLES
    outbox,    \* the email_outbox table, one row per email
    locked,    \* rows locked by the claim transaction each worker has open
    batch,     \* the claims each worker holds in memory, with their outcome
    client,    \* the mail client each worker was started with
    accepted,  \* history: the attempts of an email the SMTP server accepted
    dropped,   \* history: the emails given to a client that sends nothing
    faults     \* faults injected so far

vars == <<outbox, locked, batch, client, accepted, dropped, faults>>

----------------------------------------------------------------------------
(* MarkRetry treats a limit of zero as one. *)
AttemptLimit == IF MaxAttempts = 0 THEN 1 ELSE MaxAttempts

RetryDelay(attempt) ==
    Delays[IF attempt <= 1 THEN 1 ELSE IF attempt >= 4 THEN 4 ELSE attempt]

(* A row: attempts is attempt_count, due the ticks left until              *)
(* next_attempt_at, fresh the ticks until processing_started_at is stale.  *)
Row == [status   : {"absent", "pending", "processing", "sent", "failed"},
        attempts : Nat, due : Nat, fresh : Nat]

NoRow == [status |-> "absent", attempts |-> 0, due |-> 0, fresh |-> 0]

(* A claim is the Email snapshot ClaimBatch returned; its result says how  *)
(* far ProcessRecord got with it.                                          *)
Claim == [email : Emails, attempt : Nat,
          result : {"unsent", "unrendered", "sent", "error"}]

(* Seeded bugs: a row left 'processing' is never due again; a failed row   *)
(* is picked up like a pending one.                                        *)
ClaimableNeverStale(e) == outbox[e].status = "pending" /\ outbox[e].due = 0

ClaimableUnlessSent(e) ==
    \/ outbox[e].status \in {"pending", "failed"} /\ outbox[e].due = 0
    \/ outbox[e].status = "processing" /\ outbox[e].fresh = 0

Claimable(e) ==
    \/ outbox[e].status = "pending" /\ outbox[e].due = 0
    \/ outbox[e].status = "processing" /\ outbox[e].fresh = 0

LockedByOther(w, e) == \E v \in Workers \ {w} : e \in locked[v]

Candidates(w) == {e \in Emails : Claimable(e) /\ ~LockedByOther(w, e)}

(* The worker loop polls only between batches. *)
Polling(w) == locked[w] = {} /\ batch[w] = {}

(* ProcessRecord handles one claim at a time. *)
Recording(w) == \E c \in batch[w] : c.result # "unsent"

Fault(kind) ==
    /\ kind \in FaultKinds
    /\ faults < MaxFaults
    /\ faults' = faults + 1

Init ==
    /\ outbox = [e \in Emails |-> NoRow]
    /\ locked = [w \in Workers |-> {}]
    /\ batch = [w \in Workers |-> {}]
    /\ client \in [Workers -> Clients]
    /\ accepted = [e \in Emails |-> {}]
    /\ dropped = {}
    /\ faults = 0

----------------------------------------------------------------------------
(* A request's transaction commits a pending row, due at once.  A repeated *)
(* deduplication key returns the existing row and changes nothing.         *)
Enqueue(e) ==
    /\ outbox[e].status = "absent"
    /\ outbox' = [outbox EXCEPT ![e].status = "pending"]
    /\ UNCHANGED <<locked, batch, client, accepted, dropped, faults>>

(* ClaimBatch, the locking read: up to BatchSize candidates that no other  *)
(* claim transaction holds.                                                *)
LockCandidates(w) ==
    /\ Polling(w)
    /\ \E S \in SUBSET Candidates(w) :
         /\ S # {}
         /\ Cardinality(S) <= BatchSize
         /\ Cardinality(S) < BatchSize => S = Candidates(w)
         /\ locked' = [locked EXCEPT ![w] = S]
    /\ UNCHANGED <<outbox, batch, client, accepted, dropped, faults>>

(* Seeded bug: the claim does not count as an attempt. *)
UncountedRow(row) == [row EXCEPT !.status = "processing", !.fresh = StaleAfter]

ClaimedRow(row) == [row EXCEPT !.status = "processing",
                               !.attempts = @ + 1,
                               !.fresh = StaleAfter]

ClaimRows(w) ==
    outbox' = [e \in Emails |-> IF e \in locked[w] THEN ClaimedRow(outbox[e])
                                                   ELSE outbox[e]]

(* ClaimBatch, the update and commit; the worker keeps the returned rows. *)
CommitClaim(w) ==
    /\ locked[w] # {}
    /\ ClaimRows(w)
    /\ locked' = [locked EXCEPT ![w] = {}]
    /\ batch' = [batch EXCEPT ![w] =
         {[email |-> e, attempt |-> ClaimedRow(outbox[e]).attempts,
           result |-> "unsent"] : e \in locked[w]}]
    /\ UNCHANGED <<client, accepted, dropped, faults>>

(* The commit is applied but its acknowledgement, or the scan of a row, is *)
(* lost: ClaimBatch returns an error and nobody holds the claims.          *)
CommitClaimUnseen(w) ==
    /\ Fault("claim unseen")
    /\ locked[w] # {}
    /\ ClaimRows(w)
    /\ locked' = [locked EXCEPT ![w] = {}]
    /\ UNCHANGED <<batch, client, accepted, dropped>>

(* The claim transaction rolls back. *)
AbortClaim(w) ==
    /\ Fault("claim aborted")
    /\ locked[w] # {}
    /\ locked' = [locked EXCEPT ![w] = {}]
    /\ UNCHANGED <<outbox, batch, client, accepted, dropped>>

----------------------------------------------------------------------------
WithResult(w, c, result) ==
    batch' = [batch EXCEPT ![w] = (@ \ {c}) \cup {[c EXCEPT !.result = result]}]

(* ProcessRecord, first half: render the template and hand the message to  *)
(* the worker's client.  With email delivery disabled that is NoopClient,  *)
(* which reports success and sends nothing.  The SMTP server may accept a  *)
(* message whose acknowledgement (the reply to DATA or QUIT) is lost: Send *)
(* then returns an error.                                                  *)
SendNothing(w, c) ==
    /\ client[w] = "noop"
    /\ WithResult(w, c, "sent")
    /\ dropped' = dropped \cup {c.email}
    /\ UNCHANGED accepted

SendMail(w, c) ==
    /\ client[w] = "smtp"
    /\ \E outcome \in SendOutcomes :
         /\ WithResult(w, c, IF outcome = "delivered" THEN "sent" ELSE "error")
         /\ accepted' = IF outcome = "refused" THEN accepted
                        ELSE [accepted EXCEPT ![c.email] = @ \cup {c.attempt}]
    /\ UNCHANGED dropped

Send(w) ==
    \E c \in batch[w] :
      /\ ~Recording(w)
      /\ \/ /\ c.email \notin Renderable
            /\ WithResult(w, c, "unrendered")
            /\ UNCHANGED <<accepted, dropped>>
         \/ /\ c.email \in Renderable
            /\ SendNothing(w, c) \/ SendMail(w, c)
      /\ UNCHANGED <<outbox, locked, client, faults>>

MarkedSent(row) == [row EXCEPT !.status = "sent", !.fresh = 0]

MarkedFailed(row) == [row EXCEPT !.status = "failed", !.fresh = 0]

(* Seeded bugs: the limit is off by one; there is no limit. *)
MarkedRetryEarly(row, attempt) ==
    IF attempt + 1 >= AttemptLimit THEN MarkedFailed(row)
    ELSE [row EXCEPT !.status = "pending", !.fresh = 0, !.due = RetryDelay(attempt)]

MarkedRetryForever(row, attempt) ==
    [row EXCEPT !.status = "pending", !.fresh = 0, !.due = RetryDelay(attempt)]

(* MarkRetry decides by the attempt number of the snapshot it was given.   *)
MarkedRetry(row, attempt) ==
    IF attempt >= AttemptLimit THEN MarkedFailed(row)
    ELSE [row EXCEPT !.status = "pending", !.fresh = 0, !.due = RetryDelay(attempt)]

(* Seeded bug: an outcome that is not an invalid template counts as sent. *)
MarkedSwapped(row, c) ==
    IF c.result = "unrendered" THEN MarkedFailed(row) ELSE MarkedSent(row)

Marked(row, c) ==
    CASE c.result = "sent"       -> MarkedSent(row)
      [] c.result = "unrendered" -> MarkedFailed(row)
      [] OTHER                   -> MarkedRetry(row, c.attempt)

(* ProcessRecord, second half: MarkSent, MarkRetry or MarkFailed by row id *)
(* alone.  The update waits while another worker's claim locks the row.    *)
Mark(w) ==
    \E c \in batch[w] :
      /\ c.result # "unsent"
      /\ ~LockedByOther(w, c.email)
      /\ outbox' = [outbox EXCEPT ![c.email] = Marked(@, c)]
      /\ batch' = [batch EXCEPT ![w] = @ \ {c}]
      /\ UNCHANGED <<locked, client, accepted, dropped, faults>>

(* The update fails; processBatch logs it and goes on with the next claim. *)
MarkLost(w) ==
    /\ Fault("mark lost")
    /\ \E c \in batch[w] :
         /\ c.result # "unsent"
         /\ batch' = [batch EXCEPT ![w] = @ \ {c}]
    /\ UNCHANGED <<outbox, locked, client, accepted, dropped>>

(* The worker dies, or is stopped by SIGTERM, and starts again, perhaps    *)
(* with another configuration: an open claim transaction rolls back and    *)
(* the claims in memory are forgotten.                                     *)
Restart(w) ==
    /\ Fault("restart")
    /\ locked' = [locked EXCEPT ![w] = {}]
    /\ batch' = [batch EXCEPT ![w] = {}]
    /\ \E c \in Clients : client' = [client EXCEPT ![w] = c]
    /\ UNCHANGED <<outbox, accepted, dropped>>

----------------------------------------------------------------------------
Aged(row) == [row EXCEPT !.due = IF @ > 0 THEN @ - 1 ELSE 0,
                         !.fresh = IF @ > 0 THEN @ - 1 ELSE 0]

(* Time passes.  A claim transaction is one statement and a commit: it is  *)
(* taken to last less than a tick.  Sends may last any number of ticks.    *)
Tick ==
    /\ \A w \in Workers : locked[w] = {}
    /\ outbox' = [e \in Emails |-> Aged(outbox[e])]
    /\ UNCHANGED <<locked, batch, client, accepted, dropped, faults>>

Next ==
    \/ \E e \in Emails : Enqueue(e)
    \/ \E w \in Workers :
         \/ LockCandidates(w) \/ CommitClaim(w) \/ Send(w) \/ Mark(w)
         \/ CommitClaimUnseen(w) \/ AbortClaim(w) \/ MarkLost(w) \/ Restart(w)
    \/ Tick

Spec == Init /\ [][Next]_vars

(* The poll timer always fires again, a claim transaction ends, Send       *)
(* returns, the update of a marked row completes, and time passes.         *)
Fairness ==
    /\ WF_vars(Tick)
    /\ \A w \in Workers :
         /\ WF_vars(LockCandidates(w))
         /\ WF_vars(CommitClaim(w))
         /\ WF_vars(Send(w))
         /\ WF_vars(Mark(w))

FairSpec == Spec /\ Fairness

----------------------------------------------------------------------------
TypeOK ==
    /\ outbox \in [Emails -> Row]
    /\ locked \in [Workers -> SUBSET Emails]
    /\ batch \in [Workers -> SUBSET Claim]
    /\ client \in [Workers -> Clients]
    /\ accepted \in [Emails -> SUBSET Nat]
    /\ dropped \subseteq Emails
    /\ faults \in 0..MaxFaults

(* No two claims of an email, in one worker or in two, carry the same      *)
(* attempt number, however stale claims are taken over: this is what SKIP  *)
(* LOCKED and the increment in ClaimBatch are for.                         *)
ClaimsDistinct ==
    \A v, w \in Workers : \A c \in batch[v], d \in batch[w] :
        c.email = d.email /\ c.attempt = d.attempt => v = w /\ c = d

(* A message leaves at most once per counted attempt: the attempt of a     *)
(* claim not yet sent has delivered nothing, and no delivery happened      *)
(* outside the attempts the row counts.                                    *)
DeliveriesCounted ==
    /\ \A e \in Emails : accepted[e] \subseteq 1..outbox[e].attempts
    /\ \A w \in Workers : \A c \in batch[w] :
         c.result = "unsent" => c.attempt \notin accepted[c.email]

(* A row says 'sent' only if the SMTP server accepted the message in one   *)
(* of its attempts, or a worker whose delivery is disabled took the email  *)
(* and sent nothing: never after an error, a lost acknowledgement or an    *)
(* invalid template alone.                                                 *)
SentIsExplained ==
    \A e \in Emails : outbox[e].status = "sent" =>
        accepted[e] # {} \/ e \in dropped

(* A row says 'sent' only if the SMTP server accepted the message.         *)
SentWasAccepted ==
    \A e \in Emails : outbox[e].status = "sent" => accepted[e] # {}

(* A row fails terminally only for an invalid template or after the        *)
(* configured number of attempts, although MarkRetry trusts a snapshot.    *)
FailedIsExhausted ==
    \A e \in Emails : outbox[e].status = "failed" =>
        e \notin Renderable \/ outbox[e].attempts >= AttemptLimit

Settled(e) == outbox[e].status \in {"sent", "failed"}

(* With one worker, 'sent' and 'failed' are final: no late update moves a  *)
(* settled row, across restarts and stale claims.                          *)
SettledIsFinal ==
    [][\A e \in Emails : Settled(e) => outbox'[e].status = outbox[e].status]_outbox

(* Attempts beyond the limit are paid for by faults, one each: a stale     *)
(* claim is taken over without looking at the limit.                       *)
ExcessIsPaidByFaults ==
    \A e \in Emails : outbox[e].attempts <= AttemptLimit + faults

(* Every enqueued email ends sent or failed and stays there, whatever the  *)
(* server does, with finitely many crashes.                                *)
EventuallySettled ==
    \A e \in Emails : outbox[e].status = "pending" ~> [](Settled(e))

(* What a row promises the rest of the program. *)
PromisedState(e) ==
    CASE outbox[e].status = "absent" -> "none"
      [] Settled(e)                  -> outbox[e].status
      [] OTHER                       -> "queued"

Promise == INSTANCE OutboxDelivery WITH
    Attempts <- 1..(AttemptLimit + MaxFaults),
    Discarding <- "noop" \in Clients,
    state <- [e \in Emails |-> PromisedState(e)],
    delivered <- accepted,
    discarded <- dropped

(* With one worker, its claims, locks, retries, crashes and restarts never *)
(* show: each step is a step of OutboxDelivery or a stutter, and every     *)
(* queued email is settled.                                                *)
ImplementsDelivery == Promise!Spec

(* docs/v5-plan.md: a worker is restarted without loss or double delivery. *)
NoDoubleDelivery == \A e \in Emails : Cardinality(accepted[e]) <= 1
============================================================================
