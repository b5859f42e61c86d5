-------------------------- MODULE StripeSubscription --------------------------
(***************************************************************************)
(* The site's subscription of one Stripe customer: what happens at Stripe, *)
(* which is modelled from the events the webhook expects, and the webhook  *)
(* that keeps the customer's row in step.  Stripe delivers an event until  *)
(* it is acknowledged: one whose answer is lost comes again.  Events are   *)
(* taken to arrive in order, see the README.                               *)
(***************************************************************************)
EXTENDS Sequences, Naturals

CONSTANTS SubMaxEvents    \* that Stripe sends altogether

ASSUME SubAssumption == SubMaxEvents \in Nat

VARIABLES
  subStripe,   \* the status of the subscription, "none" before checkout
  subHeld,     \* a chargeback was filed since Stripe last renewed or changed it
  subQueue,    \* events not acknowledged yet
  subSent,     \* how many events were sent
  subRow       \* the status in the customer's row, "none" if there is none

subVars == <<subStripe, subHeld, subQueue, subSent, subRow>>

SubStatuses == {"active", "past_due", "unpaid", "canceled"}

\* completed: checkout.session.completed; renewed and failed: invoices of the
\* billing cycle; updated: customer.subscription.updated with the status before and
\* after; deleted; dispute: charge.dispute.created.
SubEvents ==
  [type : {"completed", "renewed", "failed", "deleted", "dispute"}]
    \cup [type : {"updated"}, from : SubStatuses, to : SubStatuses]

SubInit ==
  /\ subStripe = "none" /\ subHeld = FALSE
  /\ subQueue = <<>> /\ subSent = 0
  /\ subRow = "none"

SubTypeOK ==
  /\ subStripe \in SubStatuses \cup {"none"} /\ subHeld \in BOOLEAN
  /\ subQueue \in Seq(SubEvents) /\ subSent \in 0 .. SubMaxEvents
  /\ subRow \in {"none", "active", "past_due", "suspended", "cancelled"}

-------------------------------------------------------------------------------
(* Faulty variants, see AcpMerchant. *)

SubApply_ForgetsUnpaid(e) ==
  CASE e.type \in {"completed", "renewed"} -> "active"
    [] e.type = "failed" -> "past_due"
    [] e.type = "updated" ->
         IF e.to = "unpaid" \/ (e.to = "active" /\ e.from = "active") THEN subRow ELSE e.to
    [] e.type = "deleted" -> "cancelled"
    [] e.type = "dispute" -> "suspended"

-------------------------------------------------------------------------------
(* Stripe. *)

SubSend(events) ==
  /\ subSent + Len(events) <= SubMaxEvents
  /\ subSent' = subSent + Len(events)
  /\ subQueue' = subQueue \o events
  /\ UNCHANGED subRow

SubUpdated(from, to) == [type |-> "updated", from |-> from, to |-> to]

SubCheckout ==
  /\ subStripe = "none"
  /\ subStripe' = "active" /\ UNCHANGED subHeld
  /\ SubSend(<<[type |-> "completed"]>>)

\* A renewal that is paid, at once or after it had failed.
SubRenew ==
  /\ subStripe \in {"active", "past_due", "unpaid"}
  /\ subStripe' = "active" /\ subHeld' = FALSE
  /\ SubSend(<<[type |-> "renewed"]>> \o
       IF subStripe = "active" THEN <<>> ELSE <<SubUpdated(subStripe, "active")>>)

\* A renewal that fails is tried again; after the last try it is unpaid.
SubFail ==
  /\ subStripe \in {"active", "past_due"}
  /\ subHeld' = FALSE
  /\ \E to \in {"past_due", "unpaid"} :
       /\ subStripe = "active" => to = "past_due"
       /\ subStripe' = to
       /\ SubSend(<<[type |-> "failed"]>> \o
            IF to = subStripe THEN <<>> ELSE <<SubUpdated(subStripe, to)>>)

\* Something else about it changes, such as the end of a period it is to end with;
\* the webhook writes the status of one that is not active again.
SubEdit ==
  /\ subStripe \in {"active", "past_due", "unpaid"}
  /\ subHeld' = (subHeld /\ subStripe = "active") /\ UNCHANGED subStripe
  /\ SubSend(<<SubUpdated(subStripe, subStripe)>>)

SubCancel ==
  /\ subStripe \in {"active", "past_due", "unpaid"}
  /\ subStripe' = "canceled" /\ subHeld' = FALSE
  /\ SubSend(<<[type |-> "deleted"]>>)

SubDispute ==
  /\ subStripe # "none"
  /\ subHeld' = TRUE /\ UNCHANGED subStripe
  /\ SubSend(<<[type |-> "dispute"]>>)

-------------------------------------------------------------------------------
(* The webhook. *)

\* The status an event sets in the row.
SubApply(e) ==
  CASE e.type \in {"completed", "renewed"} -> "active"
    [] e.type = "failed" -> "past_due"
    [] e.type = "updated" ->
         IF e.to = "active" THEN (IF e.from # "active" THEN "active" ELSE subRow)
         ELSE IF e.to = "past_due" THEN "past_due"
         ELSE IF e.to = "unpaid" THEN "suspended" ELSE subRow
    [] e.type = "deleted" -> "cancelled"
    [] e.type = "dispute" -> "suspended"

\* The insert fails when there is a row, an update does nothing when there is none.
SubInserts(e) == e.type = "completed"
SubThrows(e) == SubInserts(e) /\ subRow # "none"

\* Handled and acknowledged, or handled and not known to be.
SubHandle ==
  /\ subQueue # <<>>
  /\ LET e == Head(subQueue) IN
       /\ ~SubThrows(e)
       /\ subRow' = IF SubInserts(e) \/ subRow # "none" THEN SubApply(e) ELSE subRow
  /\ subQueue' \in {Tail(subQueue), subQueue}
  /\ UNCHANGED <<subStripe, subHeld, subSent>>

\* An event that is refused each time it comes is given up in the end.
SubGiveUp ==
  /\ subQueue # <<>> /\ SubThrows(Head(subQueue))
  /\ subQueue' = Tail(subQueue)
  /\ UNCHANGED <<subStripe, subHeld, subSent, subRow>>

SubNext ==
  \/ SubCheckout \/ SubRenew \/ SubFail \/ SubEdit \/ SubCancel \/ SubDispute
  \/ SubHandle \/ SubGiveUp

SubSpec == SubInit /\ [][SubNext]_subVars

-------------------------------------------------------------------------------
(* Properties. *)

SubRowOf(status) ==
  CASE status = "none" -> "none" [] status = "active" -> "active"
    [] status = "past_due" -> "past_due" [] status = "unpaid" -> "suspended"
    [] status = "canceled" -> "cancelled"

\* When every event was delivered, however often, the customer's row has the status
\* of the subscription, and is suspended from a chargeback on to its next change or
\* renewal; an edit of a subscription in arrears counts as one.
StatusSettles ==
  (subQueue = <<>>) => (subRow = IF subHeld THEN "suspended" ELSE SubRowOf(subStripe))
===============================================================================
