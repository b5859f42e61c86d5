----------------------------- MODULE UcpTransport -----------------------------
(***************************************************************************)
(* How UcpClient carries a call to the discovered merchant: over MCP       *)
(* (McpClient), over REST, or, in auto, over MCP and, should that fail in  *)
(* any way, over REST again.  A request may be carried out although its    *)
(* answer is lost or comes after the timeout.  Calls and discoveries of    *)
(* one client overlap.  Each call is a checkout/complete with the items of *)
(* its cart, the one call that must not be repeated: a mock merchant takes *)
(* it for an order of these items when it has no session for it (any more).*)
(***************************************************************************)
EXTENDS Naturals

CONSTANTS
  WireCalls,
  WireMerchants,
  WireOffers(_),      \* the transports a merchant's profile has
  WireMaxDiscoveries  \* bound

WireTransports == {"mcp", "rest"}
WirePreferences == {"auto", "mcp", "rest"}

ASSUME WireAssumption ==
  /\ \A m \in WireMerchants : WireOffers(m) \subseteq WireTransports
  /\ WireMaxDiscoveries \in Nat /\ "none" \notin WireMerchants

VARIABLES
  wireCurrent,      \* the merchant of the cached discovery result, or "none"
  wireDiscoveries,
  wireMcpClient,    \* the merchant of the cached MCP client, or "none"
  wireCall,         \* each call
  wireNet,          \* requests that were not carried out yet
  wireOrders,       \* the merchants' orders: which call placed one where
  wireSince         \* history: the merchants that were current during a call

wireVars == <<wireCurrent, wireDiscoveries, wireMcpClient, wireCall, wireNet,
              wireOrders, wireSince>>

WireIdle == [at |-> "idle", transport |-> "auto", via |-> "none", to |-> "none"]

WireInit ==
  /\ wireCurrent = "none" /\ wireDiscoveries = 0 /\ wireMcpClient = "none"
  /\ wireCall = [c \in WireCalls |-> WireIdle]
  /\ wireNet = {} /\ wireOrders = {}
  /\ wireSince = [c \in WireCalls |-> {}]

WireTypeOK ==
  /\ wireCurrent \in WireMerchants \cup {"none"}
  /\ wireDiscoveries \in 0 .. WireMaxDiscoveries
  /\ wireMcpClient \in WireMerchants \cup {"none"}
  /\ wireCall \in [WireCalls ->
       [at : {"idle", "sent", "ok", "failed"}, transport : WirePreferences,
        via : WireTransports \cup {"none"}, to : WireMerchants \cup {"none"}]]
  /\ wireNet \subseteq WireCalls \X WireTransports \X WireMerchants
  /\ wireOrders \subseteq WireCalls \X WireTransports \X WireMerchants
  /\ wireSince \in [WireCalls -> SUBSET WireMerchants]

-------------------------------------------------------------------------------
(* Faulty variants, see AcpMerchant. *)

WireMcpTarget_FirstCached(m) == IF wireMcpClient = "none" THEN m ELSE wireMcpClient
WireFallsBack_Always(transport) == "rest" \in WireOffers(wireCurrent)
WireDrop_AnsweredAsDone(r) ==
  /\ wireNet' = wireNet \ {r}
  /\ wireCall' = [wireCall EXCEPT ![r[1]].at = "ok"]
  /\ UNCHANGED <<wireCurrent, wireDiscoveries, wireMcpClient, wireOrders, wireSince>>

-------------------------------------------------------------------------------
(* The client. *)

\* discover() succeeds; a discovery that fails leaves the last result cached.
WireDiscover(m) ==
  /\ wireDiscoveries < WireMaxDiscoveries
  /\ wireDiscoveries' = wireDiscoveries + 1
  /\ wireCurrent' = m
  /\ wireSince' = [c \in WireCalls |->
       IF wireCall[c].at = "sent" THEN wireSince[c] \cup {m} ELSE wireSince[c]]
  /\ UNCHANGED <<wireMcpClient, wireCall, wireNet, wireOrders>>

WireHas(transport) == wireCurrent # "none" /\ transport \in WireOffers(wireCurrent)

\* getOrCreateMcpClient(): the cached client, unless its endpoint is another's.
WireMcpTarget(m) == m

WireSend(c, transport, via, to) ==
  /\ wireCall' = [wireCall EXCEPT
       ![c] = [at |-> "sent", transport |-> transport, via |-> via, to |-> to]]
  /\ wireNet' = wireNet \cup {<<c, via, to>>}

WireSendMcp(c, transport) ==
  /\ WireSend(c, transport, "mcp", WireMcpTarget(wireCurrent))
  /\ wireMcpClient' = WireMcpTarget(wireCurrent)

WireSendRest(c, transport) ==
  /\ WireSend(c, transport, "rest", wireCurrent)
  /\ UNCHANGED wireMcpClient

WireFail(c) ==
  /\ wireCall' = [wireCall EXCEPT ![c].at = "failed"]
  /\ UNCHANGED <<wireNet, wireMcpClient>>

WireCallApi(c) ==
  /\ wireCall[c].at = "idle" /\ wireCurrent # "none"
  /\ wireSince' = [wireSince EXCEPT ![c] = {wireCurrent}]
  /\ \E transport \in WirePreferences :
       \/ transport # "rest" /\ WireHas("mcp") /\ WireSendMcp(c, transport)
       \/ transport = "mcp" /\ ~WireHas("mcp") /\ WireFail(c)
       \/ /\ transport = "rest" \/ (transport = "auto" /\ ~WireHas("mcp"))
          /\ IF WireHas("rest") THEN WireSendRest(c, transport) ELSE WireFail(c)
  /\ UNCHANGED <<wireCurrent, wireDiscoveries, wireOrders>>

\* In auto a call goes on over REST, whose endpoint is looked up now.
WireFallsBack(transport) == transport = "auto" /\ WireHas("rest")

\* A JSON-RPC error, an HTTP error, a lost connection or the timeout of the MCP
\* client, whatever the merchant has done.
WireMcpError(c) ==
  /\ wireCall[c].at = "sent" /\ wireCall[c].via = "mcp"
  /\ IF WireFallsBack(wireCall[c].transport)
     THEN WireSendRest(c, wireCall[c].transport) ELSE WireFail(c)
  /\ UNCHANGED <<wireCurrent, wireDiscoveries, wireOrders, wireSince>>

WireRestError(c) ==
  /\ wireCall[c].at = "sent" /\ wireCall[c].via = "rest"
  /\ WireFail(c)
  /\ UNCHANGED <<wireCurrent, wireDiscoveries, wireOrders, wireSince>>

-------------------------------------------------------------------------------
(* The merchant. *)

\* rpcCheckoutComplete(), and /checkout/complete alike: the items are the session's,
\* or those of the request once the session is gone; either way they are ordered.
WirePlaceOrder(r) == wireOrders' = wireOrders \cup {r}

\* The request is carried out; its caller hears of it if it still waits for it.
WireCarryOut(r) ==
  /\ WirePlaceOrder(r)
  /\ wireNet' = wireNet \ {r}
  /\ LET c == r[1]
         waits ==
           wireCall[c].at = "sent" /\ wireCall[c].via = r[2] /\ wireCall[c].to = r[3]
     IN \/ waits /\ wireCall' = [wireCall EXCEPT ![c].at = "ok"]
        \/ UNCHANGED wireCall
  /\ UNCHANGED <<wireCurrent, wireDiscoveries, wireMcpClient, wireSince>>

\* It never arrives, or it is refused.
WireDrop(r) ==
  /\ wireNet' = wireNet \ {r}
  /\ UNCHANGED <<wireCurrent, wireDiscoveries, wireMcpClient, wireCall,
                 wireOrders, wireSince>>

WireStep(c) == WireCallApi(c) \/ WireMcpError(c) \/ WireRestError(c)

WireNext ==
  \/ \E m \in WireMerchants : WireDiscover(m)
  \/ \E c \in WireCalls : WireStep(c)
  \/ \E r \in wireNet : WireCarryOut(r) \/ WireDrop(r)

WireSpec == WireInit /\ [][WireNext]_wireVars

-------------------------------------------------------------------------------
(* Properties. *)

WirePlaced(c) == {r \in wireOrders : r[1] = c}

\* A call orders twice only where auto has given the MCP request up as failed and sent
\* it again, and not more than once over either transport: one that prefers a single
\* transport, or whose MCP answer arrives, orders once at most, however late or lost
\* its requests are.
OnlyFallbackOrdersTwice ==
  \A c \in WireCalls : \A r, s \in WirePlaced(c) : r # s =>
    /\ wireCall[c].transport = "auto" /\ wireCall[c].via = "rest"
    /\ {r[2], s[2]} = WireTransports

\* A call goes to a merchant that was the discovered one at some moment since it
\* was made: never to the one an MCP client was cached for.
CallsReachDiscovered ==
  \A c \in WireCalls : wireCall[c].to \in wireSince[c] \cup {"none"}

\* A call that reports success placed its order, at the merchant and over the
\* transport that it went to last.
SuccessIsReal ==
  \A c \in WireCalls :
    wireCall[c].at = "ok" => <<c, wireCall[c].via, wireCall[c].to>> \in wireOrders
===============================================================================
