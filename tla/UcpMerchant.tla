------------------------------ MODULE UcpMerchant ------------------------------
(***************************************************************************)
(* The merchants of the Universal Commerce Protocol: the checkout sessions *)
(* and orders of MockMerchant, one instance per host (MockMcpMerchant's    *)
(* JSON-RPC handlers keep the same state and make the same checks).        *)
(*                                                                         *)
(* A handler runs without awaiting, so one action is one request.  Unlike  *)
(* the ACP merchant this one forgets a session when it is paid, and takes  *)
(* the items of the request in place of a session it does not know.        *)
(***************************************************************************)
EXTENDS Commerce

CONSTANTS
  UcpHosts,      \* the UCP merchants
  MaxUcpOrders   \* bound: orders one host takes under one session id

ASSUME UcpAssumption == None \notin UcpHosts /\ MaxUcpOrders \in Nat

VARIABLES
  ucpOpen,      \* checkoutSessions: the items of an open session, else EmptyCart
  ucpIssued,    \* history: the items a host opened a session with, or EmptyCart
  ucpOrders,    \* orders: the orders a host has taken
  ucpCharges    \* history: how many orders a host took under a session id

ucpVars == <<ucpOpen, ucpIssued, ucpOrders, ucpCharges>>

UcpInit ==
  /\ ucpOpen = [h \in UcpHosts |-> [s \in Sessions |-> EmptyCart]]
  /\ ucpIssued = [h \in UcpHosts |-> [s \in Sessions |-> EmptyCart]]
  /\ ucpOrders = [h \in UcpHosts |-> {}]
  /\ ucpCharges = [h \in UcpHosts |-> [s \in Sessions |-> 0]]

-------------------------------------------------------------------------------
(* Faulty variants, see AcpMerchant. *)

UcpItemsToCharge_BodyFirst(h, s, body) ==
  IF body # EmptyCart THEN body ELSE ucpOpen[h][s]
UcpOpenAfterOrder_KeepSession(h, s) == ucpOpen[h][s]

-------------------------------------------------------------------------------
(* The handlers *)

\* session?.items ?? body.items: the items an order is taken for.
UcpItemsToCharge(h, s, body) ==
  IF ucpOpen[h][s] # EmptyCart THEN ucpOpen[h][s] ELSE body

\* "Clean up session": the session is gone once its order is taken.
UcpOpenAfterOrder(h, s) == EmptyCart

\* The identifier of a new session is random: one no merchant has seen.
UcpFresh(s) ==
  \A g \in UcpHosts : ucpIssued[g][s] = EmptyCart /\ ucpCharges[g][s] = 0

\* POST /checkout, refused for an empty cart.
UcpCreate(h, s, items) ==
  /\ items # EmptyCart
  /\ UcpFresh(s)
  /\ ucpOpen' = [ucpOpen EXCEPT ![h][s] = items]
  /\ ucpIssued' = [ucpIssued EXCEPT ![h][s] = items]
  /\ UNCHANGED <<ucpOrders, ucpCharges>>

\* POST /checkout/complete with a token that is not declined.  A declined one,
\* and a request without items, are refused and change nothing.
UcpComplete(h, s, body, a) ==
  LET items == UcpItemsToCharge(h, s, body)
      order == [session |-> s, n |-> ucpCharges[h][s] + 1,
                items |-> items, shipTo |-> a]
  IN  /\ items # EmptyCart
      /\ ucpCharges[h][s] < MaxUcpOrders
      /\ ucpOrders' = [ucpOrders EXCEPT ![h] = @ \cup {order}]
      /\ ucpCharges' = [ucpCharges EXCEPT ![h][s] = @ + 1]
      /\ ucpOpen' = [ucpOpen EXCEPT ![h][s] = UcpOpenAfterOrder(h, s)]
      /\ UNCHANGED ucpIssued

UcpNext ==
  \E h \in UcpHosts, s \in Sessions :
    \/ \E items \in Carts : UcpCreate(h, s, items)
    \/ \E body \in Carts, a \in Addresses : UcpComplete(h, s, body, a)

UcpSpec == UcpInit /\ [][UcpNext]_ucpVars

-------------------------------------------------------------------------------
(* Properties *)

\* Type invariant of the merchants' state.
UcpTypeOK ==
  /\ ucpOpen \in [UcpHosts -> [Sessions -> Carts]]
  /\ ucpIssued \in [UcpHosts -> [Sessions -> Carts]]
  /\ ucpOrders \in [UcpHosts -> SUBSET Orders]
  /\ ucpCharges \in [UcpHosts -> [Sessions -> Nat]]

\* A session a host still holds open has not been paid there, and holds the
\* items it was opened with: an order and the end of its session are one step,
\* in whatever order requests for other sessions come in between.
UcpOpenIsUnpaid ==
  \A h \in UcpHosts, s \in Sessions :
    ucpOpen[h][s] # EmptyCart =>
      ucpCharges[h][s] = 0 /\ ucpOpen[h][s] = ucpIssued[h][s]

\* The first order a host takes under a session it opened is for the items of
\* that session, whatever items the paying request carries.
UcpFirstOrderIsTheSession ==
  \A h \in UcpHosts : \A o \in ucpOrders[h] :
    o.n = 1 /\ ucpIssued[h][o.session] # EmptyCart =>
      o.items = ucpIssued[h][o.session]
===============================================================================
