----------------------------- MODULE MerchantProofs -----------------------------
(***************************************************************************)
(* Theorems about the merchants of both protocols, for any sets of         *)
(* products, addresses and sessions, any number of UCP hosts and any bound *)
(* on quantities.                                                          *)
(***************************************************************************)
EXTENDS AcpMerchant, UcpMerchant, TLAPS

-------------------------------------------------------------------------------
(* The ACP merchant. *)

\* Every session a merchant has opened holds items.  AcpPayableIsComplete is not
\* inductive without it: an update readies a session that was not ready, about
\* which AcpPayableIsComplete says nothing.
AcpOpenedHasItems ==
  \A s \in Sessions : acpStatus[s] # "none" => acpItems[s] # EmptyCart

\* The inductive invariant.
AcpInv ==
  /\ AcpTypeOK
  /\ AcpChargedIffCompleted
  /\ AcpPayableIsComplete
  /\ AcpOpenedHasItems

\* The empty cart is a cart.
LEMMA EmptyCartIsCart == EmptyCart \in Carts
BY CommerceAssumption DEF CommerceAssumption, EmptyCart, Carts

\* A merchant without sessions satisfies the invariant.
LEMMA AcpInvInit == AcpInit => AcpInv
BY EmptyCartIsCart
DEF AcpInit, AcpInv, AcpTypeOK, AcpChargedIffCompleted, AcpPayableIsComplete,
    AcpOpenedHasItems, AcpStatuses, MaybeAddress

\* Each handler keeps the invariant.  The proof looks at the one session the
\* handler writes; every other session is as it was.
LEMMA AcpInvNext == AcpInv /\ [AcpNext]_acpVars => AcpInv'
<1> SUFFICES ASSUME AcpInv, [AcpNext]_acpVars PROVE AcpInv'
  OBVIOUS
<1> USE CommerceAssumption
    DEF CommerceAssumption, AcpInv, AcpTypeOK, AcpChargedIffCompleted,
        AcpPayableIsComplete, AcpOpenedHasItems, AcpStatuses, MaybeAddress
<1>1. ASSUME NEW s \in Sessions, NEW items \in Carts, NEW a \in MaybeAddress,
             AcpCreate(s, items, a)
      PROVE  AcpInv'
  BY <1>1 DEF AcpCreate, AcpStatusOnCreate
<1>2. ASSUME NEW s \in Sessions, NEW a \in Addresses, AcpUpdate(s, a)
      PROVE  AcpInv'
  BY <1>2 DEF AcpUpdate, AcpUpdatable
<1>3. ASSUME NEW s \in Sessions, AcpComplete(s)
      PROVE  AcpInv'
  BY <1>3 DEF AcpComplete, AcpPayable
<1>4. ASSUME NEW s \in Sessions, AcpDecline(s)
      PROVE  AcpInv'
  BY <1>4 DEF AcpDecline, AcpPayable, AcpStatusOnDecline
<1>5. ASSUME NEW s \in Sessions, AcpCancel(s)
      PROVE  AcpInv'
  BY <1>5 DEF AcpCancel, AcpCancelable
<1>6. CASE UNCHANGED acpVars
  BY <1>6 DEF acpVars
<1> QED
  BY <1>1, <1>2, <1>3, <1>4, <1>5, <1>6 DEF AcpNext

\* The invariant holds whatever requests arrive.
LEMMA AcpInvAlways == AcpSpec => []AcpInv
BY AcpInvInit, AcpInvNext, PTL DEF AcpSpec

\* The session table stays well typed, a session is charged exactly when it is
\* completed, and what can be paid for is complete: in every reachable state of
\* the merchant, whatever its clients send.
THEOREM AcpInvariant ==
  AcpSpec => [](AcpTypeOK /\ AcpChargedIffCompleted /\ AcpPayableIsComplete)
<1>1. AcpInv => AcpTypeOK /\ AcpChargedIffCompleted /\ AcpPayableIsComplete
  BY DEF AcpInv
<1> QED
  BY <1>1, AcpInvAlways, PTL

\* A session that was charged keeps its status, items and address: no handler
\* accepts a request for a completed session.
THEOREM AcpPaidStaysFrozen == AcpSpec => AcpPaidIsFrozen
<1> DEFINE Frozen ==
      \A s \in Sessions : acpCharges[s] > 0 =>
        /\ acpStatus'[s] = acpStatus[s]
        /\ acpItems'[s] = acpItems[s]
        /\ acpShipTo'[s] = acpShipTo[s]
<1>1. AcpInv /\ [AcpNext]_acpVars => [Frozen]_acpVars
  <2> SUFFICES ASSUME AcpInv, AcpNext, NEW s \in Sessions, acpCharges[s] > 0
               PROVE  /\ acpStatus'[s] = acpStatus[s]
                      /\ acpItems'[s] = acpItems[s]
                      /\ acpShipTo'[s] = acpShipTo[s]
    OBVIOUS
  <2>1. acpStatus[s] = "completed"
    BY DEF AcpInv, AcpChargedIffCompleted
  <2> USE <2>1 DEF AcpInv, AcpTypeOK
  <2>2. ASSUME NEW r \in Sessions, NEW items \in Carts, NEW a \in MaybeAddress,
               AcpCreate(r, items, a)
        PROVE  /\ acpStatus'[s] = acpStatus[s]
               /\ acpItems'[s] = acpItems[s]
               /\ acpShipTo'[s] = acpShipTo[s]
    BY <2>2 DEF AcpCreate
  <2>3. ASSUME NEW r \in Sessions, NEW a \in Addresses, AcpUpdate(r, a)
        PROVE  /\ acpStatus'[s] = acpStatus[s]
               /\ acpItems'[s] = acpItems[s]
               /\ acpShipTo'[s] = acpShipTo[s]
    BY <2>3 DEF AcpUpdate, AcpUpdatable
  <2>4. ASSUME NEW r \in Sessions, AcpComplete(r) \/ AcpDecline(r) \/ AcpCancel(r)
        PROVE  /\ acpStatus'[s] = acpStatus[s]
               /\ acpItems'[s] = acpItems[s]
               /\ acpShipTo'[s] = acpShipTo[s]
    BY <2>4 DEF AcpComplete, AcpDecline, AcpCancel, AcpPayable, AcpCancelable
  <2> QED
    BY <2>2, <2>3, <2>4 DEF AcpNext
<1> QED
  BY <1>1, AcpInvAlways, PTL DEF AcpSpec, AcpPaidIsFrozen

-------------------------------------------------------------------------------
(* The refinement: the initial states map to the contract's, and every     *)
(* handler maps to one step of the contract or to none.                    *)

\* No session of the merchant is no session of the contract.
LEMMA AcpInitRefines == AcpInit => AcpContract!Init
BY DEF AcpInit, AcpContract!Init, AcpPhase

\* Creating opens, completing pays, cancelling closes, and updating or
\* declining leaves the session open.
LEMMA AcpNextRefines ==
  AcpInv /\ [AcpNext]_acpVars => [AcpContract!Next]_(AcpContract!contractVars)
<1> SUFFICES ASSUME AcpInv, [AcpNext]_acpVars
             PROVE  [AcpContract!Next]_(AcpContract!contractVars)
  OBVIOUS
<1> USE DEF AcpInv, AcpTypeOK, AcpStatuses, AcpPhase
<1>1. ASSUME NEW s \in Sessions, NEW items \in Carts, NEW a \in MaybeAddress,
             AcpCreate(s, items, a)
      PROVE  AcpContract!Open(s)
  BY <1>1 DEF AcpCreate, AcpStatusOnCreate, AcpContract!Open
<1>2. ASSUME NEW s \in Sessions, NEW a \in Addresses, AcpUpdate(s, a)
      PROVE  UNCHANGED AcpContract!contractVars
  BY <1>2 DEF AcpUpdate, AcpUpdatable, AcpContract!contractVars
<1>3. ASSUME NEW s \in Sessions, AcpComplete(s)
      PROVE  AcpContract!Pay(s)
  BY <1>3 DEF AcpComplete, AcpPayable, AcpContract!Pay
<1>4. ASSUME NEW s \in Sessions, AcpDecline(s)
      PROVE  UNCHANGED AcpContract!contractVars
  BY <1>4 DEF AcpDecline, AcpPayable, AcpStatusOnDecline, AcpContract!contractVars
<1>5. ASSUME NEW s \in Sessions, AcpCancel(s)
      PROVE  AcpContract!Close(s) \/ UNCHANGED AcpContract!contractVars
  BY <1>5 DEF AcpCancel, AcpCancelable, AcpContract!Close, AcpContract!contractVars
<1>6. ASSUME UNCHANGED acpVars
      PROVE  UNCHANGED AcpContract!contractVars
  BY <1>6 DEF acpVars, AcpContract!contractVars
<1> QED
  BY <1>1, <1>2, <1>3, <1>4, <1>5, <1>6 DEF AcpNext, AcpContract!Next

\* Every behaviour of the ACP session machine is a behaviour the checkout
\* contract allows: a session charges at most once, and never after it closed.
THEOREM AcpRefinesContract == AcpSpec => AcpImplementsContract
BY AcpInitRefines, AcpNextRefines, AcpInvAlways, PTL
DEF AcpSpec, AcpImplementsContract, AcpContract!Spec

-------------------------------------------------------------------------------
(* The UCP merchants. *)

\* Until its first order a session a host opened is open there, with its items.
\* It ties "n = 1" in UcpFirstOrderIsTheSession to the items of the session.
UcpUnpaidIsOpen ==
  \A h \in UcpHosts, s \in Sessions :
    ucpCharges[h][s] = 0 => ucpOpen[h][s] = ucpIssued[h][s]

\* Orders are numbered from 1 up to the number of orders under their session:
\* a session no host has seen has none.
UcpOrdersAreCounted ==
  \A h \in UcpHosts : \A o \in ucpOrders[h] :
    o.n >= 1 /\ o.n <= ucpCharges[h][o.session]

\* A host never takes two orders with one session and one number.
UcpOrdersAreDistinct ==
  \A h \in UcpHosts : \A o, r \in ucpOrders[h] :
    o.session = r.session /\ o.n = r.n => o = r

\* The inductive invariant.
UcpInv ==
  /\ UcpTypeOK
  /\ UcpOpenIsUnpaid
  /\ UcpFirstOrderIsTheSession
  /\ UcpUnpaidIsOpen
  /\ UcpOrdersAreCounted
  /\ UcpOrdersAreDistinct

\* A merchant without sessions satisfies the invariant.
LEMMA UcpInvInit == UcpInit => UcpInv
BY CommerceAssumption
DEF CommerceAssumption, UcpInit, UcpInv, UcpTypeOK, UcpOpenIsUnpaid,
    UcpFirstOrderIsTheSession, UcpUnpaidIsOpen, UcpOrdersAreCounted,
    UcpOrdersAreDistinct, EmptyCart, Carts

\* Opening a session keeps the invariant: its identifier is fresh, so no order
\* names it.
LEMMA UcpCreateKeepsInv ==
  ASSUME UcpInv, NEW h \in UcpHosts, NEW s \in Sessions, NEW items \in Carts,
         UcpCreate(h, s, items)
  PROVE  UcpInv'
<1> USE DEF UcpInv
<1>1. UcpTypeOK'
  BY DEF UcpCreate, UcpTypeOK
<1>2. UcpOpenIsUnpaid' /\ UcpUnpaidIsOpen'
  BY DEF UcpCreate, UcpFresh, UcpTypeOK, UcpOpenIsUnpaid, UcpUnpaidIsOpen
<1>3. UcpOrdersAreCounted' /\ UcpOrdersAreDistinct'
  BY DEF UcpCreate, UcpOrdersAreCounted, UcpOrdersAreDistinct
<1>4. UcpFirstOrderIsTheSession'
  <2> SUFFICES ASSUME NEW g \in UcpHosts, NEW o \in ucpOrders[g],
                      o.n = 1, ucpIssued'[g][o.session] # EmptyCart
               PROVE  o.items = ucpIssued'[g][o.session]
    BY DEF UcpCreate, UcpFirstOrderIsTheSession
  <2>1. o.session # s /\ o.session \in Sessions
    BY DEF UcpCreate, UcpFresh, UcpOrdersAreCounted, UcpTypeOK, Orders
  <2>2. ucpIssued'[g][o.session] = ucpIssued[g][o.session]
    BY <2>1 DEF UcpCreate, UcpTypeOK
  <2> QED
    BY <2>2 DEF UcpFirstOrderIsTheSession
<1> QED
  BY <1>1, <1>2, <1>3, <1>4

\* Taking an order keeps the invariant: the first order under a session the host
\* opened finds it open, and ends it in the same step.
LEMMA UcpCompleteKeepsInv ==
  ASSUME UcpInv, NEW h \in UcpHosts, NEW s \in Sessions, NEW body \in Carts,
         NEW a \in MaybeAddress, UcpComplete(h, s, body, a)
  PROVE  UcpInv'
<1> USE DEF UcpInv
<1> DEFINE items == UcpItemsToCharge(h, s, body)
           order == [session |-> s, n |-> ucpCharges[h][s] + 1,
                     items |-> items, shipTo |-> a]
<1>0. /\ ucpOrders' = [ucpOrders EXCEPT ![h] = @ \cup {order}]
      /\ ucpCharges' = [ucpCharges EXCEPT ![h][s] = @ + 1]
      /\ ucpOpen' = [ucpOpen EXCEPT ![h][s] = EmptyCart]
      /\ ucpIssued' = ucpIssued
  BY DEF UcpComplete, UcpOpenAfterOrder
<1>1. items \in Carts /\ EmptyCart \in Carts /\ order \in Orders
  BY CommerceAssumption
  DEF CommerceAssumption, UcpItemsToCharge, UcpTypeOK, EmptyCart, Carts, Orders
<1>2. UcpTypeOK'
  BY <1>0, <1>1 DEF UcpTypeOK
<1>3. UcpOpenIsUnpaid' /\ UcpUnpaidIsOpen'
  BY <1>0 DEF UcpTypeOK, UcpOpenIsUnpaid, UcpUnpaidIsOpen
<1>4. UcpOrdersAreCounted'
  <2> SUFFICES ASSUME NEW g \in UcpHosts, NEW o \in ucpOrders'[g]
               PROVE  o.n >= 1 /\ o.n <= ucpCharges'[g][o.session]
    BY DEF UcpOrdersAreCounted
  <2>1. CASE o \in ucpOrders[g]
    BY <1>0, <2>1 DEF UcpTypeOK, UcpOrdersAreCounted, Orders
  <2>2. CASE g = h /\ o = order
    BY <1>0, <2>2 DEF UcpTypeOK
  <2> QED
    BY <1>0, <2>1, <2>2 DEF UcpTypeOK
<1>5. UcpFirstOrderIsTheSession'
  <2> SUFFICES ASSUME NEW g \in UcpHosts, NEW o \in ucpOrders'[g],
                      o.n = 1, ucpIssued[g][o.session] # EmptyCart
               PROVE  o.items = ucpIssued[g][o.session]
    BY <1>0 DEF UcpFirstOrderIsTheSession
  <2>1. CASE o \in ucpOrders[g]
    BY <2>1 DEF UcpFirstOrderIsTheSession
  <2>2. CASE g = h /\ o = order
    <3>1. ucpCharges[h][s] \in Nat /\ ucpCharges[h][s] + 1 = 1
      BY <2>2 DEF UcpTypeOK
    <3>2. ucpCharges[h][s] = 0
      BY <3>1
    <3> QED
      BY <2>2, <3>2 DEF UcpUnpaidIsOpen, UcpItemsToCharge
  <2> QED
    BY <1>0, <2>1, <2>2 DEF UcpTypeOK
<1>6. UcpOrdersAreDistinct'
  <2>1. \A o \in ucpOrders[h] : o.session = s => o.n # ucpCharges[h][s] + 1
    BY DEF UcpTypeOK, UcpOrdersAreCounted, Orders
  <2> SUFFICES ASSUME NEW g \in UcpHosts, NEW o \in ucpOrders'[g],
                      NEW r \in ucpOrders'[g], o.session = r.session, o.n = r.n
               PROVE  o = r
    BY DEF UcpOrdersAreDistinct
  <2>2. CASE o \in ucpOrders[g] /\ r \in ucpOrders[g]
    BY <2>2 DEF UcpOrdersAreDistinct
  <2>3. CASE g = h /\ (o = order \/ r = order)
    BY <1>0, <2>1, <2>3 DEF UcpTypeOK
  <2> QED
    BY <1>0, <2>2, <2>3 DEF UcpTypeOK
<1> QED
  BY <1>2, <1>3, <1>4, <1>5, <1>6

\* Creating and completing sessions keeps the invariant.
LEMMA UcpInvNext == UcpInv /\ [UcpNext]_ucpVars => UcpInv'
<1> SUFFICES ASSUME UcpInv, [UcpNext]_ucpVars PROVE UcpInv'
  OBVIOUS
<1>1. CASE UcpNext
  BY <1>1, UcpCreateKeepsInv, UcpCompleteKeepsInv DEF UcpNext, MaybeAddress
<1>2. CASE UNCHANGED ucpVars
  BY <1>2
  DEF ucpVars, UcpInv, UcpTypeOK, UcpOpenIsUnpaid, UcpFirstOrderIsTheSession,
      UcpUnpaidIsOpen, UcpOrdersAreCounted, UcpOrdersAreDistinct
<1> QED
  BY <1>1, <1>2

\* A host's open sessions are the unpaid ones and hold what they were opened
\* with, and the first order under a session is for that session's items,
\* whatever requests with whatever items and identifiers come in between.
THEOREM UcpInvariant ==
  UcpSpec => [](UcpTypeOK /\ UcpOpenIsUnpaid /\ UcpFirstOrderIsTheSession)
<1>1. UcpInv => UcpTypeOK /\ UcpOpenIsUnpaid /\ UcpFirstOrderIsTheSession
  BY DEF UcpInv
<1> QED
  BY <1>1, UcpInvInit, UcpInvNext, PTL DEF UcpSpec

\* The part of it a buyer relies on: the first order under a session, which is the
\* one a first payment makes, is for what the session was opened with.
THEOREM UcpFirstOrders == UcpSpec => []UcpFirstOrderIsTheSession
BY UcpInvariant, PTL
===============================================================================
