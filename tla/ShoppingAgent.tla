----------------------------- MODULE ShoppingAgent -----------------------------
(***************************************************************************)
(* ShoppingAgent: the plan-act-observe loop of one agent object, the       *)
(* context it keeps for every merchant it has discovered, its durable      *)
(* session, and the merchants it buys from.                                *)
(*                                                                         *)
(* The language model is the environment: at every turn it may call any    *)
(* tool with any arguments, answer, or fail.  Tool calls of one turn run   *)
(* one after the other, so a tool call is one step; what awaits hide is    *)
(* explicit: a request may be lost on the way out or its answer on the way *)
(* back (Lossy), the process may stop between two steps (MayCrash), and    *)
(* storage may fail (StorageFails).                                        *)
(*                                                                         *)
(* The agent has ONE UcpClient, which remembers the one merchant it last   *)
(* discovered (ucpTarget), and at most one AcpClient, bound to one endpoint*)
(* (AcpHost).  Contexts are kept per domain; None is the context the agent *)
(* uses before it has discovered a merchant (the "legacy" fields).         *)
(***************************************************************************)
EXTENDS AcpMerchant, UcpMerchant

CONSTANTS
  AcpDomains,       \* domains whose shop is the configured ACP endpoint
  AdapterDomains,   \* domains served by an adapter passed in options.adapters
  AcpHost,          \* the configured ACP endpoint
  Tasks,            \* tasks a caller passes to run()
  MaxIterations,    \* options.maxIterations
  MaxCalls,         \* bound: tool calls the model makes in one turn
  MaxStarts,        \* bound: run() and runStream() calls
  Lossy,            \* requests and answers may be lost
  StorageFails,     \* sessionStorage.load and save may throw
  MayCrash,         \* the process may stop at any point
  DiscoveryFails,   \* a merchant's UCP profile or platform may be unreachable
  Streaming         \* runStream() is used as well as run()

ASSUME AgentAssumption ==
  /\ None \notin AcpDomains \cup AdapterDomains \cup {AcpHost}
  /\ AcpHost \notin UcpHosts
  /\ UcpHosts \cap AcpDomains = {}
  /\ AdapterDomains \cap (UcpHosts \cup AcpDomains) = {}
  /\ None \notin Tasks
  /\ MaxIterations \in Nat /\ MaxCalls \in Nat /\ MaxStarts \in Nat
  /\ {Lossy, StorageFails, MayCrash, DiscoveryFails, Streaming} \subseteq BOOLEAN

VARIABLES
  pc,           \* "idle", "think" (awaiting the model) or "act" (running tools)
  mode,         \* "run" or "stream": which entry point is executing
  iteration,    \* this.iteration
  pending,      \* tool calls of this turn still to execute
  task,         \* this.currentTask
  hydrated,     \* this.hydrated
  active,       \* this.activeMerchantDomain
  protocol,     \* this.protocol
  ucpTarget,    \* this.client.discovery: where UCP calls go
  acpBase,      \* this.acpBaseUrl is set
  proto,        \* MerchantContext.protocol, None for an unknown domain
  cart,         \* MerchantContext.cart
  session,      \* MerchantContext.checkoutSessionId
  address,      \* MerchantContext.shippingAddress
  orders,       \* MerchantContext.orders
  saved,        \* the SessionState in sessionStorage, None before the first save
  starts,       \* history: how often run() or runStream() was called
  edited,       \* history: sessions whose context's cart was edited afterwards
  platform      \* checkout sessions opened on the adapters' platforms

loopVars == <<pc, mode, iteration, pending, task, hydrated, starts>>
contextVars == <<active, protocol, ucpTarget, acpBase, proto, cart, session, address, orders>>
merchantVars == <<acpVars, ucpVars, platform>>
vars == <<loopVars, contextVars, saved, edited, merchantVars>>

Domains == UcpHosts \cup AcpDomains \cup AdapterDomains
Slots == Domains \cup {None}
Hosts == UcpHosts \cup {AcpHost}
HasAcp == AcpDomains # {}

Protocols == {"ucp", "acp", "adapter"}

\* MockOrder, as the agent remembers an order it placed at a host.
AgentOrders ==
  [at : Hosts, session : Sessions, n : Nat, items : Carts, shipTo : Addresses]

\* SessionState: no orders, no discovery.
Snapshots ==
  [task : Tasks \cup {None}, iteration : 0 .. MaxIterations,
   active : Slots, proto : [Domains -> Protocols \cup {None}],
   cart : [Domains -> Carts], session : [Domains -> MaybeSession],
   address : [Domains -> MaybeAddress]]

ASSUME NullAssumption == None \notin Protocols /\ None \notin Snapshots

\* The fields of a newly constructed agent.
NewContexts ==
  [proto |-> [d \in Domains |-> None], cart |-> [x \in Slots |-> EmptyCart],
   session |-> [x \in Slots |-> None], address |-> [x \in Slots |-> None],
   orders |-> [x \in Slots |-> {}]]

Init ==
  /\ pc = "idle" /\ mode = "run" /\ iteration = 0 /\ pending = 0
  /\ task = None /\ hydrated = FALSE /\ starts = 0
  /\ active = None /\ protocol = None /\ ucpTarget = None /\ acpBase = FALSE
  /\ proto = NewContexts.proto /\ cart = NewContexts.cart
  /\ session = NewContexts.session /\ address = NewContexts.address
  /\ orders = NewContexts.orders
  /\ saved = None /\ edited = {} /\ platform = {}
  /\ AcpInit /\ UcpInit

-------------------------------------------------------------------------------
(* Faulty variants, see AcpMerchant. *)

MoreIterations_OffByOne == iteration <= MaxIterations
IterationAfterThinking_NotCounted == iteration
ContextSession_KeptOnRediscovery(d) == session[d]
ProtocolOfAcpContext_Ucp == "ucp"
ProtocolAfterSwitch_NotSynced(d) == protocol
AddressAfterSubmit_FirstWins(a) ==
  IF address[active] = None THEN a ELSE address[active]
SessionAfterPayment_Kept == session[active]
AnsweredPayment_DeclinedToo(s) == AcpComplete(s) \/ AcpDecline(s)
SavedSession_Dropped == [d \in Domains |-> None]

-------------------------------------------------------------------------------
(* Where a call goes. *)

\* getActiveProtocol()
Proto == IF active = None THEN protocol ELSE proto[active]

UsesAcp == Proto = "acp" /\ HasAcp
UsesAdapter == Proto = "adapter"

\* The merchant that checkout calls other than an adapter's createCheckout reach:
\* the ACP endpoint, else whichever merchant the UcpClient discovered last.
CheckoutHost == IF UsesAcp THEN AcpHost ELSE ucpTarget

\* fetchMerchantApi(): the merchant that catalogue calls reach.
CatalogueHost ==
  IF UsesAdapter THEN active
  ELSE IF protocol = "acp" /\ acpBase THEN AcpHost ELSE ucpTarget

\* The shop a domain names.
Home(d) == IF d \in AcpDomains THEN AcpHost ELSE d

-------------------------------------------------------------------------------
(* Tool calls.  Each takes one of the calls the model asked for this turn. *)

Calling ==
  /\ pc = "act" /\ pending > 0
  /\ pending' = pending - 1
  /\ UNCHANGED <<pc, mode, iteration, task, hydrated, starts, saved>>

\* A tool that only reads, a tool call a plugin blocks, an unknown tool, and
\* every tool call that is refused or fails before it changes anything.
NoEffectCall ==
  /\ Calling
  /\ UNCHANGED <<contextVars, edited, merchantVars>>

\* A discovery replaces the domain's context, cart and orders included.
ContextSession(d) == None

NewContext(d, p) ==
  /\ proto' = [proto EXCEPT ![d] = p]
  /\ cart' = [cart EXCEPT ![d] = EmptyCart]
  /\ session' = [session EXCEPT ![d] = ContextSession(d)]
  /\ address' = [address EXCEPT ![d] = None]
  /\ orders' = [orders EXCEPT ![d] = {}]
  /\ active' = d

\* toolDiscoverMerchant tries an adapter that matches the domain,
DiscoverAdapter(d) ==
  /\ Calling
  /\ d \in AdapterDomains
  /\ NewContext(d, "adapter")
  /\ protocol' = None
  /\ UNCHANGED <<ucpTarget, acpBase, edited, merchantVars>>

\* then the domain's UCP profile,
DiscoverUcp(d) ==
  /\ Calling
  /\ d \in UcpHosts
  /\ NewContext(d, "ucp")
  /\ ucpTarget' = d
  /\ protocol' = "ucp"
  /\ UNCHANGED <<acpBase, edited, merchantVars>>

\* then, when both failed, whether the configured ACP endpoint is alive: the
\* endpoint answers whatever domain was asked for.
ProtocolOfAcpContext == "acp"

DiscoverAcp(d) ==
  /\ Calling
  /\ HasAcp
  /\ d \in AcpDomains \/ DiscoveryFails
  /\ NewContext(d, ProtocolOfAcpContext)
  /\ protocol' = "acp"
  /\ acpBase' = TRUE
  /\ UNCHANGED <<ucpTarget, edited, merchantVars>>

\* A discovery that finds nothing has still looked up the ACP endpoint.
DiscoverNothing ==
  /\ Calling
  /\ HasAcp /\ DiscoveryFails
  /\ acpBase' = TRUE
  /\ UNCHANGED <<active, protocol, ucpTarget, proto, cart, session, address, orders,
                 edited, merchantVars>>

\* toolSwitchMerchant: the UcpClient keeps pointing where it did.
ProtocolAfterSwitch(d) == IF proto[d] = "adapter" THEN protocol ELSE proto[d]

SwitchMerchant(d) ==
  /\ Calling
  /\ proto[d] # None
  /\ active' = d
  /\ protocol' = ProtocolAfterSwitch(d)
  /\ UNCHANGED <<ucpTarget, acpBase, proto, cart, session, address, orders, edited,
                 merchantVars>>

\* toolComparePrices visits every merchant and returns to the active one, but
\* this.protocol returns with it only if that one speaks UCP or ACP; otherwise
\* it stays at the last merchant visited that does.
ComparePrices(d) ==
  /\ Calling
  /\ \E e \in Domains \ {d} : proto[e] # None
  /\ proto[d] \in {"ucp", "acp"}
  /\ protocol' = IF active # None /\ proto[active] \in {"ucp", "acp"}
                 THEN proto[active] ELSE proto[d]
  /\ UNCHANGED <<active, ucpTarget, acpBase, proto, cart, session, address, orders,
                 edited, merchantVars>>

\* Both cart tools edit the active context's cart and leave alone the checkout
\* session that was opened for it.
EditCart(p, quantity) ==
  /\ Calling
  /\ cart' = [cart EXCEPT ![active][p] = quantity]
  /\ edited' = edited \cup ({session[active]} \ {None})
  /\ UNCHANGED <<active, protocol, ucpTarget, acpBase, proto, session, address, orders,
                 merchantVars>>

AddToCart(p) ==
  \E q \in 1 .. MaxQty :
    /\ cart[active][p] + q <= MaxQty
    /\ EditCart(p, cart[active][p] + q)

RemoveFromCart(p) == cart[active][p] > 0 /\ EditCart(p, 0)

\* The agent learns the identifier of the session it opened, unless the answer
\* is lost: then the session exists and the agent has never heard of it.
LearnSession(s) ==
  \/ session' = [session EXCEPT ![active] = s]
  \/ Lossy /\ UNCHANGED session

FreshSession(s) == acpStatus[s] = "none" /\ UcpFresh(s) /\ s \notin platform

\* toolInitiateCheckout, refused for an empty cart.
InitiateCheckout(s) ==
  /\ Calling
  /\ cart[active] # EmptyCart
  /\ FreshSession(s)
  /\ \/ /\ UsesAdapter
        /\ platform' = platform \cup {s}
        /\ UNCHANGED <<acpVars, ucpVars>>
     \/ /\ UsesAcp
        /\ AcpCreate(s, cart[active], None)
        /\ UNCHANGED <<ucpVars, platform>>
     \/ /\ ~UsesAdapter /\ ~UsesAcp /\ ucpTarget # None
        /\ UcpCreate(ucpTarget, s, cart[active])
        /\ UNCHANGED <<acpVars, platform>>
  /\ LearnSession(s)
  /\ UNCHANGED <<active, protocol, ucpTarget, acpBase, proto, cart, address, orders, edited>>

\* toolSubmitShipping remembers the address first and tells the ACP merchant
\* afterwards; when that call fails the address stays.
AddressAfterSubmit(a) == a

SubmitShipping(a) ==
  /\ Calling
  /\ session[active] # None
  /\ address' = [address EXCEPT ![active] = AddressAfterSubmit(a)]
  /\ \/ UsesAcp /\ AcpUpdate(session[active], a) /\ UNCHANGED <<ucpVars, platform>>
     \/ /\ UsesAcp => Lossy \/ acpStatus[session[active]] \notin AcpUpdatable
        /\ UNCHANGED merchantVars
  /\ UNCHANGED <<active, protocol, ucpTarget, acpBase, proto, cart, session, orders, edited>>

\* toolSubmitPayment: what the agent does with the answer to its payment.  The
\* order it records holds the context's cart as it is now.
PlacedOrder(host, n) ==
  [at |-> host, session |-> session[active], n |-> n,
   items |-> cart[active], shipTo |-> address[active]]

SessionAfterPayment == None

RecordOrder(host, n) ==
  /\ orders' = [orders EXCEPT ![active] = @ \cup {PlacedOrder(host, n)}]
  /\ cart' = [cart EXCEPT ![active] = EmptyCart]
  /\ session' = [session EXCEPT ![active] = SessionAfterPayment]
  /\ address' = [address EXCEPT ![active] = None]

CanPay == session[active] # None /\ address[active] # None

\* completeCheckout() returns normally only for a session that was completed.
AnsweredPayment(s) == AcpComplete(s)

PayAcp ==
  /\ Calling
  /\ CanPay /\ UsesAcp
  /\ \/ /\ AnsweredPayment(session[active])
        /\ RecordOrder(AcpHost, acpCharges[session[active]] + 1)
     \/ /\ Lossy /\ AcpComplete(session[active])
        /\ UNCHANGED <<cart, session, address, orders>>
     \/ /\ AcpDecline(session[active])
        /\ UNCHANGED <<cart, session, address, orders>>
  /\ UNCHANGED <<active, protocol, ucpTarget, acpBase, proto, edited, ucpVars, platform>>

\* Every context that is not ACP is paid through the UcpClient, an adapter's
\* too, at the merchant that client discovered last.
PayUcp ==
  /\ Calling
  /\ CanPay /\ ~UsesAcp /\ ucpTarget # None
  /\ UcpComplete(ucpTarget, session[active], cart[active], address[active])
  /\ \/ RecordOrder(ucpTarget, ucpCharges[ucpTarget][session[active]] + 1)
     \/ Lossy /\ UNCHANGED <<cart, session, address, orders>>
  /\ UNCHANGED <<active, protocol, ucpTarget, acpBase, proto, edited, acpVars, platform>>

ToolCall ==
  \/ NoEffectCall \/ DiscoverNothing
  \/ \E d \in Domains :
       \/ DiscoverAdapter(d) \/ DiscoverUcp(d) \/ DiscoverAcp(d)
       \/ SwitchMerchant(d) \/ ComparePrices(d)
  \/ \E p \in Products : AddToCart(p) \/ RemoveFromCart(p)
  \/ \E s \in Sessions : InitiateCheckout(s)
  \/ \E a \in Addresses : SubmitShipping(a)
  \/ PayAcp
  \/ PayUcp

-------------------------------------------------------------------------------
(* The loop. *)

\* buildSnapshot()
SavedSession == [d \in Domains |-> session[d]]

Snapshot ==
  [task |-> task, iteration |-> iteration, active |-> active, proto |-> proto,
   cart |-> [d \in Domains |-> cart[d]], session |-> SavedSession,
   address |-> [d \in Domains |-> address[d]]]

\* A context field after tryHydrate(): rebuilt from the snapshot for every
\* domain; the field used without a merchant is not in the snapshot and stays.
Restored(field, savedField) ==
  [x \in Slots |-> IF x = None THEN field[None] ELSE savedField[x]]

\* run(task) when tryHydrate() finds a session: the task given is not used, and
\* neither this.protocol, acpBaseUrl nor the UcpClient's discovery is restored.
Resume ==
  /\ pc = "idle" /\ starts < MaxStarts
  /\ ~hydrated /\ saved # None
  /\ pc' = "think" /\ mode' = "run"
  /\ task' = saved.task
  /\ iteration' = saved.iteration
  /\ hydrated' = TRUE
  /\ active' = saved.active
  /\ proto' = saved.proto
  /\ cart' = Restored(cart, saved.cart)
  /\ session' = Restored(session, saved.session)
  /\ address' = Restored(address, saved.address)
  /\ orders' = Restored(orders, [d \in Domains |-> {}])
  /\ starts' = starts + 1
  /\ UNCHANGED <<pending, protocol, ucpTarget, acpBase, saved, edited, merchantVars>>

\* run(task) otherwise: nothing saved, resumed before, or load() threw.
StartFresh(t) ==
  /\ pc = "idle" /\ starts < MaxStarts
  /\ hydrated \/ saved = None \/ StorageFails
  /\ pc' = "think" /\ mode' = "run"
  /\ task' = t
  /\ iteration' = 0
  /\ starts' = starts + 1
  /\ UNCHANGED <<pending, hydrated, contextVars, saved, edited, merchantVars>>

\* runStream(task) neither resumes a session nor touches this.currentTask.
StartStream ==
  /\ Streaming
  /\ pc = "idle" /\ starts < MaxStarts
  /\ pc' = "think" /\ mode' = "stream"
  /\ iteration' = 0
  /\ starts' = starts + 1
  /\ UNCHANGED <<pending, task, hydrated, contextVars, saved, edited, merchantVars>>

MoreIterations == iteration < MaxIterations
IterationAfterThinking == iteration + 1

\* The model asks for n tool calls.
TakeTurn(n) ==
  /\ pc = "think" /\ MoreIterations
  /\ pc' = "act"
  /\ iteration' = IterationAfterThinking
  /\ pending' = n
  /\ UNCHANGED <<mode, task, hydrated, starts, contextVars, saved, edited,
                 merchantVars>>

\* The model answers without tool calls, or its call throws.  Nothing is saved.
Finish ==
  /\ pc = "think" /\ MoreIterations
  /\ pc' = "idle"
  /\ iteration' = IterationAfterThinking
  /\ UNCHANGED <<mode, pending, task, hydrated, starts, contextVars, saved, edited,
                 merchantVars>>

GiveUp ==
  /\ pc = "think" /\ ~MoreIterations
  /\ pc' = "idle"
  /\ UNCHANGED <<mode, iteration, pending, task, hydrated, starts, contextVars, saved,
                 edited, merchantVars>>

\* persistSession() after the turn's last tool call; an error is only logged.
\* runStream() has no such call.
EndTurn ==
  /\ pc = "act" /\ pending = 0
  /\ pc' = "think"
  /\ \/ mode = "run" /\ saved' = Snapshot
     \/ (mode = "run" => StorageFails) /\ UNCHANGED saved
  /\ UNCHANGED <<mode, iteration, pending, task, hydrated, starts, contextVars, edited,
                 merchantVars>>

\* The caller stops reading the stream: the generator returns at a yield, and the
\* turn's remaining tool calls are not made.
AbandonStream ==
  /\ mode = "stream" /\ pc # "idle"
  /\ pc' = "idle" /\ pending' = 0
  /\ UNCHANGED <<mode, iteration, task, hydrated, starts, contextVars, saved, edited,
                 merchantVars>>

\* The process stops; whoever restarts it constructs the same agent again.
Crash ==
  /\ MayCrash
  /\ pc' = "idle" /\ mode' = "run" /\ iteration' = 0 /\ pending' = 0
  /\ task' = None /\ hydrated' = FALSE
  /\ active' = None /\ protocol' = None /\ ucpTarget' = None /\ acpBase' = FALSE
  /\ proto' = NewContexts.proto /\ cart' = NewContexts.cart
  /\ session' = NewContexts.session /\ address' = NewContexts.address
  /\ orders' = NewContexts.orders
  /\ UNCHANGED <<starts, saved, edited, merchantVars>>

Agent == (\E n \in 1 .. MaxCalls : TakeTurn(n)) \/ Finish \/ GiveUp \/ ToolCall \/ EndTurn

Next ==
  \/ Resume \/ StartStream
  \/ \E t \in Tasks : StartFresh(t)
  \/ Agent
  \/ AbandonStream
  \/ Crash

Spec == Init /\ [][Next]_vars

\* The model and every merchant eventually answer or fail: requests are aborted
\* after a timeout and the loop awaits nothing else.  Nobody has to call run().
FairSpec == Spec /\ WF_vars(Agent)

-------------------------------------------------------------------------------
(* Properties *)

\* Type invariant of the agent.
TypeOK ==
  /\ pc \in {"idle", "think", "act"} /\ mode \in {"run", "stream"}
  /\ iteration \in 0 .. MaxIterations /\ pending \in 0 .. MaxCalls
  /\ task \in Tasks \cup {None} /\ hydrated \in BOOLEAN
  /\ starts \in 0 .. MaxStarts
  /\ active \in Slots
  /\ protocol \in {"ucp", "acp", None}
  /\ ucpTarget \in UcpHosts \cup {None} /\ acpBase \in BOOLEAN
  /\ proto \in [Domains -> Protocols \cup {None}]
  /\ cart \in [Slots -> Carts]
  /\ session \in [Slots -> MaybeSession]
  /\ address \in [Slots -> MaybeAddress]
  /\ orders \in [Slots -> SUBSET AgentOrders]
  /\ saved \in Snapshots \cup {None}
  /\ edited \subseteq Sessions
  /\ platform \subseteq Sessions

\* Every order the agent reports was placed: the ACP session it names is
\* completed, or the UCP host it names took that order for that address.  Lost
\* answers, declines, crashes and resumed sessions never make one up.
RecordedOrdersExist ==
  \A x \in Slots : \A o \in orders[x] :
    IF o.at = AcpHost
    THEN acpStatus[o.session] = "completed" /\ o.n = 1
    ELSE \E r \in ucpOrders[o.at] :
           r.session = o.session /\ r.n = o.n /\ r.shipTo = o.shipTo

\* The items the merchant charged for an order the agent recorded.
ChargedItems(o) ==
  IF o.at = AcpHost THEN acpItems[o.session]
  ELSE (CHOOSE r \in ucpOrders[o.at] : r.session = o.session /\ r.n = o.n).items

\* An order the agent records lists the items the merchant charged for, unless
\* the cart was edited after checkout began (toolAddToCart does not tell the
\* merchant): rediscovery, resuming and retrying never pair a checkout session
\* with another cart.
RecordedItemsAreCharged ==
  \A x \in Slots : \A o \in orders[x] :
    o.session \notin edited => o.items = ChargedItems(o)

\* Whoever opened session s opened it with the items c.
OpenedWith(s, c) ==
  /\ acpStatus[s] # "none" => acpItems[s] = c
  /\ \A h \in UcpHosts : ucpIssued[h][s] # EmptyCart => ucpIssued[h][s] = c

CartIsOpened(s, c) ==
  s # None => ~FreshSession(s) /\ (s \notin edited => OpenedWith(s, c))

\* A context with a checkout session, in memory or saved, has the cart the session
\* was opened with, unless that cart was edited since: no discovery, payment,
\* crash or resumption leaves a session behind with another cart.
CartsMatchSessions ==
  /\ \A x \in Slots : CartIsOpened(session[x], cart[x])
  /\ saved # None =>
       \A d \in Domains : CartIsOpened(saved.session[d], saved.cart[d])

\* An order the agent recorded for an ACP merchant is sent where the agent says.
RecordedAddressIsUsed ==
  \A x \in Slots : \A o \in orders[x] :
    o.at = AcpHost => acpShipTo[o.session] = o.shipTo

\* The order in a merchant's context was placed with that merchant.
OrdersAtOwner ==
  \A d \in Domains : \A o \in orders[d] : o.at = Home(d)

\* The next checkout or catalogue call goes to the active merchant.
CallsReachActive ==
  active \in UcpHosts \cup AcpDomains =>
    CheckoutHost = Home(active) /\ CatalogueHost = Home(active)

\* No UCP host takes two orders for one checkout session.
UcpPaidOnce ==
  \A s \in Sessions : \A h \in UcpHosts : ucpCharges[h][s] <= 1

\* What the saved session holds of every merchant's context is what the agent
\* holds.
SavedContextsAreCurrent ==
  /\ saved.active = active /\ saved.proto = proto
  /\ \A d \in Domains :
       /\ saved.cart[d] = cart[d]
       /\ saved.session[d] = session[d]
       /\ saved.address[d] = address[d]

\* A crash loses at most the turn in progress: between turns the saved session
\* is the agent's state, also right after resuming from it, and during a turn
\* it is exactly one iteration behind.
SavedIsCurrent ==
  /\ pc = "think" /\ iteration > 0 =>
       /\ saved # None /\ saved.task = task /\ saved.iteration = iteration
       /\ SavedContextsAreCurrent
  /\ pc = "act" /\ iteration > 1 =>
       saved # None /\ saved.task = task /\ saved.iteration = iteration - 1

\* Every run ends, within its iteration budget.
RunsEnd == pc # "idle" ~> pc = "idle"
===============================================================================
