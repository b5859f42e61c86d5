---------------------------- MODULE OrderLifecycle ----------------------------
(***************************************************************************)
(* What happens to an order of MockMerchant after it was placed.  Every    *)
(* subscription to it starts two timers, which move the order to shipped   *)
(* and to delivered and post an event to the subscriber's WebhookServer.   *)
(* The posts are not waited for: they arrive in any order or not at all,   *)
(* and the server takes those that its secret has signed.                  *)
(***************************************************************************)
EXTENDS Naturals, Sequences, FiniteSets

CONSTANT OrderSubscriptions    \* ids, in the order they are given out
ASSUME OrderAssumption == OrderSubscriptions \subseteq Nat

VARIABLES
  orderStatus,     \* of the order, "none" when the merchant has none
  orderSub,        \* each subscription: "new", "active" or "gone"
  orderSigned,     \* whether it was made with the WebhookServer's secret
  orderTimers,     \* lifecycleTimers that are pending: subscription and stage
  orderNet,        \* events posted and not arrived
  orderLog,        \* eventLog of the WebhookServer
  orderListening,  \* the WebhookServer runs
  orderUp          \* the merchant's server runs

orderVars == <<orderStatus, orderSub, orderSigned, orderTimers, orderNet,
               orderLog, orderListening, orderUp>>

OrderStages == 1 .. 2
OrderStatusOf == <<"shipped", "delivered">>
OrderStatuses == {"confirmed", "shipped", "delivered"}
OrderEvents == [sub : OrderSubscriptions, previous : OrderStatuses, new : OrderStatuses]

OrderInit ==
  /\ orderStatus = "none"
  /\ orderSub = [s \in OrderSubscriptions |-> "new"]
  /\ orderSigned = [s \in OrderSubscriptions |-> FALSE]
  /\ orderTimers = {} /\ orderNet = {} /\ orderLog = <<>>
  /\ orderListening = FALSE /\ orderUp = FALSE

OrderTypeOK ==
  /\ orderStatus \in OrderStatuses \cup {"none"}
  /\ orderSub \in [OrderSubscriptions -> {"new", "active", "gone"}]
  /\ orderSigned \in [OrderSubscriptions -> BOOLEAN]
  /\ orderTimers \subseteq OrderSubscriptions \X OrderStages
  /\ orderNet \subseteq OrderEvents /\ orderLog \in Seq(OrderEvents)
  /\ orderListening \in BOOLEAN /\ orderUp \in BOOLEAN

-------------------------------------------------------------------------------
(* Faulty variants, see AcpMerchant. *)

OrderMoves_Unchecked(s, k) ==
  /\ orderStatus # "none"
  /\ orderStatus' = OrderStatusOf[k]
  /\ orderNet' = orderNet \cup
       {[sub |-> s, previous |-> orderStatus, new |-> OrderStatusOf[k]]}
OrderFirstTimer_AnyOfItsOwn(s, k) == \A t \in orderTimers : t[2] = k => t[1] >= s
OrderAuthentic_Always(e) == TRUE
OrderUnsubscribe_StopsOthers(s) ==
  /\ orderSub[s] = "active"
  /\ orderSub' = [orderSub EXCEPT ![s] = "gone"]
  /\ orderTimers' = {}
  /\ UNCHANGED <<orderStatus, orderSigned, orderNet, orderLog, orderListening, orderUp>>

-------------------------------------------------------------------------------
OrderListen ==
  /\ orderListening' = ~orderListening
  /\ UNCHANGED <<orderStatus, orderSub, orderSigned, orderTimers, orderNet, orderLog,
                 orderUp>>

OrderStart ==
  /\ ~orderUp /\ orderUp' = TRUE
  /\ UNCHANGED <<orderStatus, orderSub, orderSigned, orderTimers, orderNet, orderLog,
                 orderListening>>

OrderPlace ==
  /\ orderUp
  /\ orderStatus = "none" /\ \A s \in OrderSubscriptions : orderSub[s] = "new"
  /\ orderStatus' = "confirmed"
  /\ UNCHANGED <<orderSub, orderSigned, orderTimers, orderNet, orderLog,
                 orderListening, orderUp>>

OrderSubscribe(s) ==
  /\ orderUp /\ orderStatus # "none"
  /\ orderSub[s] = "new" /\ \A r \in OrderSubscriptions : orderSub[r] = "new" => s <= r
  /\ orderSub' = [orderSub EXCEPT ![s] = "active"]
  /\ \E signed \in BOOLEAN : orderSigned' = [orderSigned EXCEPT ![s] = signed]
  /\ orderTimers' = orderTimers \cup ({s} \X OrderStages)
  /\ UNCHANGED <<orderStatus, orderNet, orderLog, orderListening, orderUp>>

\* Its timers keep running.
OrderUnsubscribe(s) ==
  /\ orderUp /\ orderSub[s] = "active"
  /\ orderSub' = [orderSub EXCEPT ![s] = "gone"]
  /\ UNCHANGED <<orderStatus, orderSigned, orderTimers, orderNet, orderLog,
                 orderListening, orderUp>>

\* Timers of one subscription fire in the order of their delays, timers of the
\* same delay in the order they were set.
OrderFirstTimer(s, k) ==
  \A t \in orderTimers : (t[1] = s => t[2] >= k) /\ (t[2] = k => t[1] >= s)

OrderMoves(s, k) ==
  /\ orderStatus # "none" /\ orderSub[s] = "active"
  /\ orderStatus' = OrderStatusOf[k]
  /\ orderNet' = orderNet \cup
       {[sub |-> s, previous |-> orderStatus, new |-> OrderStatusOf[k]]}

OrderTimer(s, k) ==
  /\ <<s, k>> \in orderTimers /\ OrderFirstTimer(s, k)
  /\ orderTimers' = orderTimers \ {<<s, k>>}
  /\ \/ OrderMoves(s, k)
     \/ /\ orderStatus = "none" \/ orderSub[s] # "active"
        /\ UNCHANGED <<orderStatus, orderNet>>
  /\ UNCHANGED <<orderSub, orderSigned, orderLog, orderListening, orderUp>>

\* The event carries the signature the server computes with its own secret.
OrderAuthentic(e) == orderSigned[e.sub]

OrderArrive(e) ==
  /\ orderListening
  /\ orderNet' = orderNet \ {e}
  /\ orderLog' = IF OrderAuthentic(e) THEN Append(orderLog, e) ELSE orderLog
  /\ UNCHANGED <<orderStatus, orderSub, orderSigned, orderTimers, orderListening,
                 orderUp>>

OrderLost(e) ==
  /\ orderNet' = orderNet \ {e}
  /\ UNCHANGED <<orderStatus, orderSub, orderSigned, orderTimers, orderLog,
                 orderListening, orderUp>>

OrderStop ==
  /\ orderUp /\ orderUp' = FALSE
  /\ orderTimers' = {}
  /\ UNCHANGED <<orderStatus, orderSub, orderSigned, orderNet, orderLog, orderListening>>

OrderReset ==
  /\ orderTimers' = {} /\ orderStatus' = "none"
  /\ orderSub' = [s \in OrderSubscriptions |->
       IF orderSub[s] = "active" THEN "gone" ELSE orderSub[s]]
  /\ UNCHANGED <<orderSigned, orderNet, orderLog, orderListening, orderUp>>

OrderTimers == \E s \in OrderSubscriptions, k \in OrderStages : OrderTimer(s, k)

OrderNext ==
  \/ OrderListen \/ OrderStart \/ OrderPlace \/ OrderTimers \/ OrderStop \/ OrderReset
  \/ \E s \in OrderSubscriptions : OrderSubscribe(s) \/ OrderUnsubscribe(s)
  \/ \E e \in orderNet : OrderArrive(e) \/ OrderLost(e)

OrderSpec == OrderInit /\ [][OrderNext]_orderVars

-------------------------------------------------------------------------------
(* Properties. *)

OrderRank(status) == CASE status = "confirmed" -> 1 [] status = "shipped" -> 2
                       [] status = "delivered" -> 3 [] OTHER -> 4

OrderNeverBack == OrderRank(orderStatus') >= OrderRank(orderStatus)

\* Orders subscribed to once go from confirmed to shipped to delivered, and never
\* back, until the merchant forgets them.
LifecycleIsForward ==
  [][(Cardinality({s \in OrderSubscriptions : orderSub[s] # "new"}) <= 1
        /\ orderStatus # "none") => OrderNeverBack]_orderVars

\* The server's log has only events of subscriptions made with its secret.
LogIsAuthentic == \A i \in DOMAIN orderLog : orderSigned[orderLog[i].sub]

\* No event is posted after its subscription ended: unsubscribing leaves the
\* timers, which must then find nothing to do.
EventsEndWithSubscription ==
  [][\A e \in orderNet' \ orderNet : orderSub[e.sub] = "active"]_orderVars

\* The order of an active subscription is delivered in the end, unless the
\* subscription ends or the merchant stops first.
SubscribedIsDelivered ==
  \A s \in OrderSubscriptions :
    (orderSub[s] = "active" /\ <<s, 2>> \in orderTimers)
      ~> (orderStatus = "delivered" \/ orderSub[s] = "gone" \/ ~orderUp)
===============================================================================
