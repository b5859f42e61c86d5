------------------------------ MODULE AcpMerchant ------------------------------
(***************************************************************************)
(* The merchant side of the Agentic Commerce Protocol: the checkout        *)
(* sessions of MockAcpMerchant and the state machine its handlers enforce. *)
(*                                                                         *)
(* Every handler runs to completion without awaiting, so one action is one *)
(* request.  Any client may send any request, in any order and as often as *)
(* it likes: a request that is repeated, or delayed behind others, is one  *)
(* more step.  A request that a handler refuses changes nothing and is a   *)
(* stuttering step; the refusals are the guards below.                     *)
(***************************************************************************)
EXTENDS Commerce

VARIABLES
  acpStatus,    \* session.status, "none" while the identifier is not in use
  acpItems,     \* session.line_items
  acpShipTo,    \* session.shipping_address
  acpCharges    \* history: how often the session's payment was taken

acpVars == <<acpStatus, acpItems, acpShipTo, acpCharges>>

AcpStatuses ==
  {"none", "not_ready_for_payment", "ready_for_payment", "completed", "canceled"}

-------------------------------------------------------------------------------
(* Faulty variants: what a definition below would be if the code had a     *)
(* plausible bug.  No definition uses them; each property is known to fail *)
(* when one of them takes the place of the definition it is a variant of.  *)

AcpUpdatable_CompletedToo ==
  {"not_ready_for_payment", "ready_for_payment", "completed"}
AcpPayable_CompletedToo == {"ready_for_payment", "completed"}
AcpCancelable_CompletedToo ==
  {"not_ready_for_payment", "ready_for_payment", "completed", "canceled"}
AcpStatusOnDecline_NewStatus == "declined"

-------------------------------------------------------------------------------
(* The state machine: in which statuses a handler accepts its request. *)

\* POST /checkout_sessions/:id refuses completed and canceled sessions.
AcpUpdatable == {"not_ready_for_payment", "ready_for_payment"}

\* POST /checkout_sessions/:id/complete takes only a session that is ready.
AcpPayable == {"ready_for_payment"}

\* POST /checkout_sessions/:id/cancel refuses only completed sessions.
AcpCancelable == {"not_ready_for_payment", "ready_for_payment", "canceled"}

\* A new session is ready at once when the request carries an address.
AcpStatusOnCreate(a) ==
  IF a = None THEN "not_ready_for_payment" ELSE "ready_for_payment"

\* A declined token sends the session back to be readied again.
AcpStatusOnDecline == "not_ready_for_payment"

-------------------------------------------------------------------------------
(* The handlers *)

AcpInit ==
  /\ acpStatus = [s \in Sessions |-> "none"]
  /\ acpItems = [s \in Sessions |-> EmptyCart]
  /\ acpShipTo = [s \in Sessions |-> None]
  /\ acpCharges = [s \in Sessions |-> 0]

\* POST /checkout_sessions, refused without line items.
AcpCreate(s, items, a) ==
  /\ items # EmptyCart
  /\ acpStatus[s] = "none"
  /\ acpStatus' = [acpStatus EXCEPT ![s] = AcpStatusOnCreate(a)]
  /\ acpItems' = [acpItems EXCEPT ![s] = items]
  /\ acpShipTo' = [acpShipTo EXCEPT ![s] = a]
  /\ UNCHANGED acpCharges

\* POST /checkout_sessions/:id with a shipping_address.
AcpUpdate(s, a) ==
  /\ acpStatus[s] \in AcpUpdatable
  /\ acpStatus' = [acpStatus EXCEPT ![s] = "ready_for_payment"]
  /\ acpShipTo' = [acpShipTo EXCEPT ![s] = a]
  /\ UNCHANGED <<acpItems, acpCharges>>

\* POST /checkout_sessions/:id/complete with a token the payment handler takes.
AcpComplete(s) ==
  /\ acpStatus[s] \in AcpPayable
  /\ acpStatus' = [acpStatus EXCEPT ![s] = "completed"]
  /\ acpCharges' = [acpCharges EXCEPT ![s] = @ + 1]
  /\ UNCHANGED <<acpItems, acpShipTo>>

\* The same request with a token that is declined; the address stays.
AcpDecline(s) ==
  /\ acpStatus[s] \in AcpPayable
  /\ acpStatus' = [acpStatus EXCEPT ![s] = AcpStatusOnDecline]
  /\ UNCHANGED <<acpItems, acpShipTo, acpCharges>>

\* POST /checkout_sessions/:id/cancel.
AcpCancel(s) ==
  /\ acpStatus[s] \in AcpCancelable
  /\ acpStatus' = [acpStatus EXCEPT ![s] = "canceled"]
  /\ UNCHANGED <<acpItems, acpShipTo, acpCharges>>

AcpNext ==
  \E s \in Sessions :
    \/ \E items \in Carts, a \in MaybeAddress : AcpCreate(s, items, a)
    \/ \E a \in Addresses : AcpUpdate(s, a)
    \/ AcpComplete(s)
    \/ AcpDecline(s)
    \/ AcpCancel(s)

AcpSpec == AcpInit /\ [][AcpNext]_acpVars

-------------------------------------------------------------------------------
(* Properties *)

\* Type invariant of the merchant's session table.
AcpTypeOK ==
  /\ acpStatus \in [Sessions -> AcpStatuses]
  /\ acpItems \in [Sessions -> Carts]
  /\ acpShipTo \in [Sessions -> MaybeAddress]
  /\ acpCharges \in [Sessions -> Nat]

\* The buyer is charged for a session exactly when it ended "completed", and
\* then once: no order of retries, declines, re-readying and cancellations
\* charges a second time or charges a session that was canceled.
AcpChargedIffCompleted ==
  \A s \in Sessions :
    acpCharges[s] = IF acpStatus[s] = "completed" THEN 1 ELSE 0

\* A session that can be, or was, paid for has items and somewhere to send
\* them: no path through create, update and decline readies one without.
AcpPayableIsComplete ==
  \A s \in Sessions :
    acpStatus[s] \in {"ready_for_payment", "completed"} =>
      acpShipTo[s] # None /\ acpItems[s] # EmptyCart

\* What was paid for stays as it was paid for: after the charge no request
\* changes a session's status, its items or its address.
AcpPaidIsFrozen ==
  [][\A s \in Sessions : acpCharges[s] > 0 =>
       /\ acpStatus'[s] = acpStatus[s]
       /\ acpItems'[s] = acpItems[s]
       /\ acpShipTo'[s] = acpShipTo[s]]_acpVars

-------------------------------------------------------------------------------
(* The session machine implements the checkout contract. *)

AcpPhase ==
  [s \in Sessions |->
     CASE acpStatus[s] = "none" -> "none"
       [] acpStatus[s] = "completed" -> "paid"
       [] acpStatus[s] = "canceled" -> "closed"
       [] OTHER -> "open"]

AcpContract ==
  INSTANCE CheckoutContract WITH phase <- AcpPhase, charged <- acpCharges

\* Every behaviour of the merchant is one the contract allows.
AcpImplementsContract == AcpContract!Spec
===============================================================================
