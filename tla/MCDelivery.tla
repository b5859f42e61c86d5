------------------------------ MODULE MCDelivery ------------------------------
(* For TLC, the components that send or hand over what they have recorded: the *)
(* HTTP client, the life of an order, the telemetry of a run, the audit trail  *)
(* and the compliance export.  They share no state; a behaviour is one of the  *)
(* part that its first state names.                                            *)
EXTENDS HttpClient, OrderLifecycle, CloudTelemetry, AuditTrail, ComplianceExport

VARIABLE part

deliveryVars == <<part, httpVars, orderVars, cloudVars, trailVars, exportVars>>

DeliveryInit ==
  /\ part \in {"http", "orders", "telemetry", "trail", "export"}
  /\ HttpInit /\ OrderInit /\ CloudInit /\ TrailInit /\ ExportInit

OfHttp(Step) ==
  part = "http" /\ Step /\ UNCHANGED <<part, orderVars, cloudVars, trailVars, exportVars>>
OfOrders(Step) ==
  part = "orders" /\ Step /\ UNCHANGED <<part, httpVars, cloudVars, trailVars, exportVars>>
OfTelemetry(Step) ==
  part = "telemetry" /\ Step /\ UNCHANGED <<part, httpVars, orderVars, trailVars, exportVars>>
OfTrail(Step) ==
  part = "trail" /\ Step /\ UNCHANGED <<part, httpVars, orderVars, cloudVars, exportVars>>
OfExport(Step) ==
  part = "export" /\ Step /\ UNCHANGED <<part, httpVars, orderVars, cloudVars, trailVars>>

DeliveryNext ==
  OfHttp(HttpNext) \/ OfOrders(OrderNext) \/ OfTelemetry(CloudNext)
    \/ OfTrail(TrailNext) \/ OfExport(ExportNext)

DeliverySpec == DeliveryInit /\ [][DeliveryNext]_deliveryVars

\* The event loop runs timers and continuations that are due, and the endpoint
\* answers what it received.  No user, clock edge or failure has to happen.
DeliveryFairness ==
  /\ WF_deliveryVars(OfHttp(HttpTick))
  /\ \A c \in HttpCalls : WF_deliveryVars(OfHttp(HttpStep(c)))
  /\ WF_deliveryVars(OfOrders(OrderTimers))
  /\ WF_deliveryVars(OfTelemetry(CloudServe))
  /\ WF_deliveryVars(OfTelemetry(CloudRunEnd \/ CloudCompleted))

FairDelivery == DeliverySpec /\ DeliveryFairness

-------------------------------------------------------------------------------
(* Properties *)

\* Type invariant of the five.
DeliveryTypeOK == HttpTypeOK /\ OrderTypeOK /\ CloudTypeOK /\ TrailTypeOK /\ ExportTypeOK

\* What a run reports is sent once, whatever flushes overlap, and a revoked API key is
\* not admitted once the cache's lifetime has passed since.  So are the entries of the
\* audit trail, whose latencies are those of their own calls; a compliance export lists
\* what it owes and nothing that is not the customer's or not in the range.
RecordsAreSound ==
  /\ EventsAreSentOnce /\ RevokedKeyExpires
  /\ EntriesArePostedOnce /\ LatencyIsOwn
  /\ ExportIsOwn /\ ExportIsComplete

\* An order goes forward only, no event is posted for a subscription that has ended,
\* and the receiver's log has only events that were signed with its secret.
OrderEventsAreSound ==
  LifecycleIsForward /\ EventsEndWithSubscription /\ [][LogIsAuthentic']_orderVars
===============================================================================
