-------------------------- MODULE OutboxDelivery --------------------------
(***************************************************************************)
(* What the email outbox promises the rest of the program, without         *)
(* workers, claims, locks or time: an email is queued once, may be         *)
(* delivered any number of times while it is queued and at no other time,  *)
(* and is settled once and for all, as sent only after a delivery, or      *)
(* after it was discarded because delivery is switched off.                *)
(***************************************************************************)
EXTENDS Naturals

CONSTANTS Emails, Renderable, Attempts, Discarding

VARIABLES
    state,      \* "none", "queued", "sent" or "failed"
    delivered,  \* the attempts of an email that reached its recipient
    discarded   \* the emails that were dropped as if they had been delivered

vars == <<state, delivered, discarded>>

Init ==
    /\ state = [e \in Emails |-> "none"]
    /\ delivered = [e \in Emails |-> {}]
    /\ discarded = {}

Queue(e) ==
    /\ state[e] = "none"
    /\ state' = [state EXCEPT ![e] = "queued"]
    /\ UNCHANGED <<delivered, discarded>>

(* Each delivery belongs to an attempt of its own. *)
Deliver(e) ==
    /\ state[e] = "queued"
    /\ e \in Renderable
    /\ \E n \in Attempts \ delivered[e] :
         delivered' = [delivered EXCEPT ![e] = @ \cup {n}]
    /\ UNCHANGED <<state, discarded>>

(* Only where delivery may be switched off. *)
Discard(e) ==
    /\ Discarding
    /\ state[e] = "queued"
    /\ e \in Renderable
    /\ discarded' = discarded \cup {e}
    /\ UNCHANGED <<state, delivered>>

Settle(e) ==
    /\ state[e] = "queued"
    /\ \/ /\ delivered[e] # {} \/ e \in discarded
          /\ state' = [state EXCEPT ![e] = "sent"]
       \/ state' = [state EXCEPT ![e] = "failed"]
    /\ UNCHANGED <<delivered, discarded>>

Next == \E e \in Emails : Queue(e) \/ Deliver(e) \/ Discard(e) \/ Settle(e)

SafeSpec == Init /\ [][Next]_vars

Spec == SafeSpec /\ \A e \in Emails : WF_vars(Settle(e))
============================================================================
