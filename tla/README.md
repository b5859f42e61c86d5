# Agorio: a TLA+ model of the agent commerce SDK

Agorio (`@agorio/sdk`) lets a language model shop: a `ShoppingAgent` discovers
merchants, fills carts and pays, over two checkout protocols (UCP and ACP) or a
platform adapter. This directory holds the specifications of its core, the TLC
configurations that check them on small instances, and theorems about them that
TLAPS checks for every instance. Paths below are those of the repository.

## 1. The system

| Component | State it keeps | Operations | Hard behaviour |
|---|---|---|---|
| `ShoppingAgent` (`src/agent/shopping-agent.ts`) | one context per merchant (cart, checkout session, address, orders), the active domain, `protocol`, the iteration | `run`, `runStream`, 20 tools called by the model in any order | any sequence of tools; context and client disagreeing; failures inside a tool |
| Durable sessions (`SessionStorage`: file, memory, Redis) | last snapshot per session | `save` after a turn, `load` before a run | crash between turns, within a turn, within a save; save errors swallowed |
| ACP (`acp-client.ts`, `mock-acp-merchant.ts`) | sessions with a status | create, update, complete, cancel | repeats and reorderings; declines |
| UCP (`ucp-client.ts`, `mock-merchant.ts`) | client: last discovered profile; merchant: sessions, orders, webhooks | discover, checkout, complete, subscribe | one client for many merchants; MCP to REST fallback repeats requests; lifecycle timers |
| MCP (`mcp-client.ts`, `mock-mcp-merchant.ts`) | as UCP | the same requests over JSON-RPC | partial availability |
| Adapters (Shopify, WooCommerce, BigCommerce) | variants learnt from products, offers found | discover, list, `createCheckout`, `completeCheckout` | a purchase of several requests, each of which may fail; a restart forgets the variants |
| HTTP (`src/http`) | a token bucket per origin | retry, rate limit | retried POSTs, concurrent takers of one token |
| Orders and webhooks (`mock-merchant.ts`, `webhook-server.ts`) | subscriptions, timers, the receiver's log | subscribe, unsubscribe, the stages of an order, deliver | timers that outlive what they were set for; deliveries lost and out of order |
| Governance plugins (`plugins/*`) | amount spent, approval requests, PO tags, audit log, policies | hooks before and after every tool; approve, deny, assign; state saved with the session | order of hooks, what is read after the call, restarts |
| LLM adapters (`src/llm`) | none: a conversation is translated anew each time | translate, parse, stream | results name tools, not calls; resumptions; cut streams |
| Sub-agents and chains | open spans, the results so far | `invoke_sub_agent`, `run` | recursion, and what a throw leaves behind |
| AP2 and attestation (`ap2-client.ts`, `agent-attestation.ts`) | mandates with an expiry, stamps | make, attach, sign, submit; verify | lost, late and repeated requests against two time limits |
| Cloud (`src/cloud`, `cloud/`) | buffers; run rows; a cache of keys; organisations, memberships, keys, audit log | span, log, run start and end; server actions | flush against end of run; check-then-act on the database, requests that die half way |
| Site (`site/`) | the Stripe row, playground page, sessions and agents | Stripe webhooks, chat turns, stop | events repeated; turns that go on after they were stopped |
| CLI, fixtures, pages | none that decides anything | | |

The agent calls merchants over HTTP and plugins synchronously around each tool; the
only state shared between components is what each merchant keeps under a session
identifier, the snapshot in storage, and the agent's contexts. The Cloud and the Site
share nothing with the agent but what it sends them. What must hold: an order the
agent reports exists, lists what was charged and went to the merchant and address it
says; an ACP session charges at most once (a UCP merchant charges a repeated
completion again: no call or restart may cause one beyond those section 5 names); a
restart continues from the last turn; a run ends; what is reported (to the buyer, a
subscriber, the dashboard, the page) has happened.

The hazards are listed one by one, at their lines, in `PROJECT.json`.

## 2. The modules

| Module | Models |
|---|---|
| `Commerce` | carts, addresses, session identifiers (prices and texts abstracted) |
| `CheckoutContract` | the abstract promise of a checkout session: open, then paid once or closed |
| `AcpMerchant` | `MockAcpMerchant`: the session state machine; implements `CheckoutContract` |
| `UcpMerchant` | `MockMerchant` (and `MockMcpMerchant`), any number of hosts |
| `ShoppingAgent` | the loop, contexts, routing, tools, snapshot, resume, crash; extends both merchants |
| `Governance` | spending-controls, approval-workflow, procurement and audit-trail around `submit_payment`, in the configured order |
| `PolicyEngine` | `evaluate()` of policy-engine, one policy a step |
| `UcpTransport` | `UcpClient.callApi` over MCP and REST, `McpClient`, the cached MCP client, overlapping discoveries |
| `Adapters` | one purchase through a `ShopifyAdapter`, `WooCommerceAdapter` or `BigCommerceAdapter` |
| `SignedRequests` | `Ap2Client` over `AgentAttestation.wrapFetch`, and the two verifiers at the endpoint |
| `SessionStorage` | the memory, file and Redis backends, write by write |
| `HttpClient` | `createHttpClient`: `withRateLimit` around `withRetry` |
| `OrderLifecycle` | subscriptions and timers of `MockMerchant`, `WebhookServer` |
| `UcpProfile` | `UcpClient.discover()` probing the well-known places, and `getCapabilityLineage()` |
| `AuditTrail` | the audit-trail plugin with a webhook: entries, latencies and batches |
| `CloudTelemetry` | `agorioCloud()` and the ingest route |
| `ComplianceExport` | the Cloud's compliance export, against the ingest route |
| `LlmConversation` | the messages of a run as each LLM adapter translates them |
| `SubAgents` | `AgentChain.run` and `runSubAgent`, nested |
| `Teams` | the dashboard's team actions, statement by statement |
| `Playground` | the playground's page, route and agents, concurrent turns |
| `StripeSubscription` | the Stripe webhook and what Stripe sends it |
| `MCShoppingAgent`, `MCGovernance` | for TLC: symmetry, chains of plugins |
| `MCServices`, `MCDelivery` | for TLC: modules that share no state, side by side; a behaviour is one of the part its first state names |
| `MerchantProofs` | theorems of `AcpMerchant`, `UcpMerchant` and the contract |
| `ShoppingAgentProofs`, `AgentOrdersProofs` | of the agent: typing and the merchants' requests; orders, saves, routing, payments, addresses |
| `GovernanceProofs`, `PolicyEngineProofs` | of the plugins |
| `ClientProofs` | of `UcpTransport`, `UcpProfile`, `Adapters`, `SessionStorage`, `SignedRequests` |
| `DeliveryProofs` | of `HttpClient`, `OrderLifecycle`, `CloudTelemetry`, `AuditTrail`, `ComplianceExport`, and of `MCDelivery` |
| `ServicesProofs` | of `Teams`, `Playground`, `StripeSubscription`, `SubAgents`, `LlmConversation`, and of `MCServices` |

The constants and variables of a module have a prefix of their own (`Http`, `Order`,
`Cloud`, `Trail`, `Export`, `Wire`, `Shop`, `Signed`, `Store`, `Llm`, `Chain`, `Team`,
`Play`, `Sub`; `UcpProfile` has `Profile`, `Probe`, `Lineage` and `Cap`), so that
modules can be put side by side. `MCServices` and `MCDelivery` group the
properties of one part under a name (`PurchasesAreReal`, `RecordsAreSound`); the
conjuncts, each with its comment, are at the end of the part's module.

### Correspondence

`PROJECT.json` maps each definition to its lines. In `ShoppingAgent`:

* A `MerchantContext` is the row of `proto`, `cart`, `session`, `address` and
  `orders` at its domain; the legacy single-merchant fields are the row `None`.
  `active` is `activeMerchantDomain`, `ucpTarget` the profile `UcpClient` holds.
* A tool call is one action: within one run tool calls are awaited one after the
  other. What an `await` hides is a choice inside the action: the request is
  lost, or the answer is (`Lossy`), and the agent goes on with the error path of
  the handler. A request repeated below the agent (HTTP retry, MCP to REST) is the
  same as a lost answer followed by another call of the model.
* A call that a handler refuses, that a plugin blocks or that only reads is
  `NoEffectCall`.
* `Crash` resets everything but storage and the merchants; `Resume` is what
  `tryHydrate` restores, and it restores neither the orders nor the client's
  discovery nor `protocol`.
* `runStream` shares the loop, saves nothing, and may be abandoned at a `yield`.

History variables (`acpCharges`, `ucpCharges`, `ucpIssued`, `edited`, `starts` of the
agent; `payments`, `approvals` and the carts' `edited` of the plugins; `wireSince`,
`playLast` and the like in the parts) record what happened for the properties; no
guard of the code depends on them, except that `starts` and `ucpCharges` carry the
bounds `MaxStarts` and `MaxUcpOrders`, and that an identifier, random in the code, is
never reused.

In `Governance` the agent and the merchant are reduced to what the plugins see and
what the buyer pays: `cart` is the value `context.getCart()` has at each merchant,
`checkout` the session the agent has there, and `sessions` what each merchant still
holds under its identifiers. A completion charges the session or, once that is gone,
the items the request carries (`ChargedAmount`). `executeTool` is `Blocked` or not,
then the tool, then the hooks after it, in one action: `BlockedPayment`,
`FailedPayment` (nothing was charged), `LostPayment` (the merchant charged, its answer
was lost: cart, session and order number stay) or `MadePayment`; nothing runs in
between. A payment that `UcpClient` repeats over REST after MCP had carried it out is
`LostPayment` followed by another call. A request that a merchant carries out only
after the tool has given it up is not modelled. `Chain` is `options.plugins`.
`EndTurn` saves `getState()` of the plugins, `Restart` is `hydrate()`, which
spending-controls and audit-trail do not have. An amount is a small number, a
request's text and a policy's wording are left out, the daily window of
spending-controls too (it sums the same amounts).

In `PolicyEngine` the configuration and the call are chosen at the start; `Skip`,
`Note`, `Block`, `Cap` and `Allow` are the ways one iteration of the loop can go.
`Accepts` says what a policy means by itself and is not translated from the code.

In the other modules an `await` separates actions wherever another call, request or
timer can come in between:

* `UcpTransport`: a call is where it waits (`at`), the merchant it goes to and the
  transport. A request may never arrive (`WireDrop`), or be carried out and its answer
  lost or late, and what fails over MCP in `auto` goes out over REST. A call is a
  `checkout/complete` with the items of its cart, of which the merchant makes an order
  whether it still has the session or not. A new discovery changes the profile
  under the calls that are under way; `getOrCreateMcpClient` compares endpoints.
* `UcpProfile`: `ProfileMissing` and `ProfileFound` are one probe of `discover()`, at
  the two paths under https and then under http; a profile is the list of its
  capabilities, whichever format it came in. `LineageVisit` is one round of the loop
  of `getCapabilityLineage()`, in which nothing else can happen.
* `HttpClient`: the bucket is refilled when it is looked at, a sleeper looks again
  when it wakes and may find the token gone. Time is a count of ticks, tokens are in
  units of which `HttpRate` accrue in a tick; the wait is rounded up as by `Math.ceil`.
* `OrderLifecycle`: a timer is a subscription and a stage. `stop()` cancels the timers
  and keeps the orders, `reset()` forgets orders and subscriptions too, unsubscribing
  forgets the subscription but leaves its timers.
* `CloudTelemetry`: a flush takes a buffer and puts a request on its way; requests
  arrive in any order or never. `lookupApiKey` reads the key at one moment and the
  cache entry counts from there (`m.since`).
* `AuditTrail`: an entry is its place in the log, which stands for its timestamp; the
  start of a call is kept under the tool's name until its result is logged. A full
  buffer is posted and nobody waits for the answer.
* `ComplianceExport`: the three selects, the record in the audit log and the answer are
  actions, and the ingest route stores rows between them. `exportDue`, a history
  variable, has the rows that were stored when the runs were read.
* `SessionStorage`: a file save is a write under a temporary name and a rename, a
  Redis save two commands and a delete three; `StoreCrash` comes between any two.
* `Adapters`: `ShopAccepts`, `ShopOrdered` and `ShopAsked` are requests of one
  `createCheckout` or `completeCheckout`; each may fail before or after the store
  acts. What the store does with an order later is external.
* `SignedRequests`: hashes and signatures are left out, as every message arrives as
  it was sent; the endpoint, which is not in the repository, takes what
  `verifyAttestation` and `verifyMandateShape` both accept.
* `LlmConversation`: messages are kept as the agent keeps them, and `LlmTranslate` is
  the request an adapter builds; the loop over the messages is the function `LlmSofar`
  of how many were translated. The queues of ids, one per name, are one queue of calls
  from which a result takes the first of its name. A stream that is cut loses the calls
  that had arrived.
* `SubAgents`: the stack of agents waiting for one another; the depth of a child is
  its parent's plus one, where the builder passes it on.
* `Teams`: a request is a program counter, with what it has read. Requests die at any
  point, since no statement is in a transaction.
* `Playground`: a run that was stopped, or whose stream failed (`PlayBreak`), goes on
  until it next sends an event. A cart is an array that `add_to_cart` may hold across
  its await while `submit_payment` replaces it. The page reads a cart from the result
  of `add_to_cart` (`due`, then `PlayShow`) and from nothing else; `playLast` says
  whether such an add was what changed the agent's cart last.
* `StripeSubscription`: Stripe's own state is external and modelled from the events
  that the webhook handles; an event is delivered again until it is acknowledged.

## 3. The runs

| Run | Shows | Instance |
|---|---|---|
| `services` | each part alone. Merchants: charged iff completed, frozen afterwards, contract; the first order is the session's. Transport: one order a call, or two where `auto` repeats a completion over REST, and whole lineages. Adapters and signed payments: what is reported happened. Storage: what loads is whole. Policies: the verdict is what the set of them says. LLM: every call is answered. Chain: halts, and its spans nest. Teams: an owner stays. Playground: the page says when it works, and at rest has the cart of its agent unless the last change is one it is not told of. Stripe: the row settles | below |
| `delivery` | the rate limit holds and every call returns; an order goes forward, and is delivered in the end while it is subscribed to (posts about it may be lost); telemetry and audit entries are sent once, the end of a run returns; an export lists what it owes | below, under fairness |
| `agent_crash` | orders reported exist, list what was charged and are in the context of the merchant that took them; sessions keep their carts | one UCP and one ACP merchant; requests, answers, saves and the process fail; 2 starts |
| `agent_durable` | the saved session is at most one turn behind; UCP sessions are paid once | crashes and discovery outages, 3 turns of 3 calls |
| `agent_reliable` | every call reaches the active merchant; orders are shipped where the agent says | nothing fails, `run` three times, 2 turns of 4 calls, 2 addresses |
| `agent_liveness` | every run ends | fair agent, merchants of all three kinds, crashes and losses |
| `governance_crash` | above the threshold a merchant charges without an approval only where the cart was edited below it; what was checked is charged, if the cart was left alone | 2 merchants, 1 request identifier, 1 session identifier each, 2 payments, amounts 0 and 1, lost answers, crashes and restarts |
| `governance_orders` | a purchase order names a second payment only after a lost answer, payment calls are logged, blocked ones too | all four plugins, audit-trail first, amounts 0 to 2, limit 1, 1 session identifier each, 2 payments, 2 order numbers, lost answers, no crash |
| `agent_two_ucp`, `governance_session_limit`, `policy_cap`, `cloud_ended_run` | disagreements between documentation and code, see section 5 | the smallest that shows each |

### Bounds

The agent: `MaxIterations` (turns) and `MaxCalls` (tool calls a turn) are 2 x 3 or
more where an order must complete: discover, add, check out, ship, pay are five
calls, so an order and the first steps of another fit. `MaxQty` = 1 tells an
empty cart from a full one, which is all that pairing of carts and sessions
needs. `MaxStarts` = 2 is one crash and one resumption. Session identifiers: two
are the session at hand and one that replaced or duplicates it.

In `governance_orders` an amount is none, at the limit or above it: three values do.
With crashes two do, which tell a session paired with another cart; a request approved
or denied at one of two merchants shows a gate opened by the wrong one, and a session
that was paid and comes back under its identifier a charge that was not checked; two
payments show a number or a budget used twice. `EndTurn` is disabled where `MayCrash`
is false, because nobody reads the save. Two policies show every order and every
effect of one on the other; the proofs cover longer lists.

The parts of `services`:

* merchants: 2 sessions of each protocol, one product, quantities up to 2, one host:
  a session and its neighbour;
* transport: 2 calls, 3 merchants of which one has no MCP endpoint, 3 discoveries: a
  discovery may replace the profile under a call, and come back to the first;
* profiles: 3 of them, with a chain in which a capability is named twice, a circle, and
  a parent that is missing;
* adapters: 2 products, as two lines of one checkout; one purchase, since an adapter
  keeps nothing of it for the next;
* signed payments: 1 payment with either of 2 amounts, lifetime 2, skew 1, time up to
  4: before, at and after each limit, with a message sent before and one after;
* storage: 3 versions: the one that is stored, the one being written and the next;
* policies: up to 2 of 5 policies, every call and hour;
* LLM: 3 iterations of up to 2 calls, with resumptions: two calls of one name in one
  iteration, and in two;
* chain: 2 steps, depth limit 2, at most 3 agents on the stack and 5 calls: one more
  than the limit allows, so that the guard is reached and refuses;
* teams: 2 concurrent requests, 1 guest, 2 organisations, 3 rows, 1 log entry;
* playground: 2 turns, up to 2 of a product, 3 carts, 1 expiry: a turn that is stopped
  or fails and goes on, and the one that follows beside it on the same agent, or on
  another after the expiry;
* Stripe: 6 events, each delivered any number of times: start, change, failed
  payment, dispute, recovery and end.

And of `delivery`: 3 calls to one origin, whose bucket holds one token (3 units, of
which 2 accrue in a tick, so that the wait is rounded up), 2 attempts, a `Retry-After`
that exceeds the longest backoff: two sleepers wait for one token. 2 subscriptions to
one order. 2 events in batches of 2, time up to 3 with a cache lifetime of 1: a timer's
flush, a full batch, a key that is revoked before and after it was cached. 2 tools,
batches of 2 and 5 audit entries: a call that is refused, one that is not, and a batch
under way while the next one fills. 2 runs, a day of 2 instants, a cap of 1 day and time
up to 4, with starts at 0, 3 and 4, dates 0, 2 and 3, and nothing or both tables asked
for: a run at the first and the last instant of a range, after it, and of a table that
was not asked for.

### Fairness

`FairSpec` of the agent is weakly fair in the agent's own steps: the loop awaits the
model, merchants and storage and nothing else, clients abort requests after a
timeout, and JavaScript runs a continuation that is ready. Callers, crashes and
readers of a stream are not fair. That a model's own request ends is the
assumption left.

`FairDelivery` is weakly fair in what the event loop runs when it is due: the tick of
the clock and each call's next step (`HttpTick`, `HttpStep`), the timers of an order
(`OrderTimers`), and the continuations after a flush (`CloudRunEnd`,
`CloudCompleted`). It is fair in `CloudServe` because a request is answered or fails
by its timeout. No user, clock edge, revocation, loss or failure ever has to
happen. In particular an order is sure to become delivered only while its subscription
stays and the merchant is not stopped, which `SubscribedIsDelivered` says; nothing
makes sure that the receiver gets the post that says so.

Deadlock is not checked in any run: sessions that are all paid, an agent nobody
starts again, a verdict that is given, a purchase that is over, an event that was
acknowledged or an order that was delivered have nothing left to do.

## 4. What is proved

Every safety invariant and every action property that a passing run checks is a
theorem. The theorems hold for any number of merchants, sessions, products, turns and
calls, with any combination of the failures the modules have (section 2) but where a
hypothesis says otherwise, under the named assumptions of the modules: identifiers are
not `None`, nor is `None` a protocol or a snapshot (`NullAssumption`); a domain is
served by one kind of merchant; bounds are naturals, and where a module divides,
batches or counts instants from 1 they are positive.

### The merchants and the agent

* `AcpInvariant`, `AcpPaidStaysFrozen`, `AcpRefinesContract`: the status alone
  does not exclude a session opened without items, so the inductive invariant adds
  that every session in use has items. The refinement maps each handler to one
  step of the contract or to a stutter.
* `UcpInvariant`, `UcpFirstOrders`: the strengthening says which sessions are unpaid,
  that orders are numbered up to the count of charges, and that numbers are distinct.
* `AgentUsesMerchants`: every step of the system is a step of the merchants'
  specifications or leaves them alone, so their theorems hold of the system
  (`AgentKeepsAcpContract` is one). `AgentTypeCorrect` is typing.
* `ReportedOrdersArePlaced`, `SessionsKeepTheirCarts`, `ReportedItemsAreCharged`:
  what the agent reports is true. The order of an action matters here: a payment
  records the cart, and it is the cart that was charged because no step (discovery,
  switch, resume, save, lost answer) separates a session from the cart it was opened
  with. That is `CartsMatchSessions`, for contexts and for the snapshot, and it is
  inductive only together with "a session identifier in a context was issued by at
  most the merchants that know it" (`FreshSession`).

Five properties of the agent hold only where something does not go wrong. The theorem
names what, and TLC finds a counterexample when any one of these hypotheses is dropped:

| Theorem | Holds with | The invariant adds |
|---|---|---|
| `CrashLosesOneTurn` (`SavedIsCurrent`) | a storage that works, `run` alone | only an agent that was restarted, and has not resumed yet, holds something other than what is saved (`SavedAtRest`) |
| `ActiveMerchantIsCalled` (`CallsReachActive`) | at most one UCP merchant, no outage of discovery, no crash, a storage that works, `run` alone | `protocol`, the profile of `UcpClient` and the ACP endpoint fit the active context (`ContextsAgree`) |
| `OrdersArePlacedWithTheirMerchant` (`OrdersAtOwner`) | at most one UCP merchant, no adapter, no outage of discovery; losses, crashes and streams allowed | a domain is known by its own protocol alone, in memory and saved (`OwnersFit`) |
| `UcpSessionsArePaidOnce` (`UcpPaidOnce`) | at most one UCP merchant, no adapter, no lost request, a storage that works, `run` alone; crashes and outages allowed | a session held while `UcpClient` points at the merchant is unpaid: what is resumed after a payment cannot be paid before a discovery, which drops it (`HeldIsUnpaid`) |
| `ReportedAddressIsUsed` (`RecordedAddressIsUsed`) | nothing lost, no crash, a storage that works, `run` alone; any merchants | no two contexts share a session, and one that is ready for payment has the address of its context (`AddressInv`) |

### The plugins

* `GovernanceTypeCorrect`, `NothingPaidUnapproved`, `CheckedIsCharged`,
  `OrderNumbersAreUnique`: for any chain of plugins, limits and merchants. Each
  property speaks of payments made; the invariant adds what makes the next payment
  right, in memory and in the snapshot a restart brings back: every approved
  request was approved by hand (`ApprovalInv`), an unedited cart is worth its
  session, if the merchant still has that (`LimitInv`), numbers on carts are
  distinct, handed out, and on no payment yet but one at that merchant whose answer
  was lost (`OrderNumbersInv`, which a restart would break: hence `~MayCrash`).
* `AuditFirstIsComplete`: with audit-trail first in the chain every payment call has an
  entry. Elsewhere in the chain a plugin before it may refuse the call (section 5).
* `PoliciesDecide`, `CapsFit`: for lists of any length. The invariant is what holds
  of the policies looked at so far; `BreaksIsRejects` shows that the code's test is
  the negation of what each policy means, `CappingIsAccepted` that lowering an
  argument breaks nothing that was accepted before.

### Clients and storage

* `WireCallsAreSound`: a call orders twice only where `auto` gave the MCP request up and
  sent it again over REST, goes to a merchant discovered since it began, and succeeds
  only if it ordered. `WireInv` follows a request that was carried
  out through the loss of its answer, and says that the cached MCP client belongs to
  an endpoint that was discovered.
* `LineageIsTheChain`: in any profile. `LineageInOrder` says that the names seen are
  those of the list so far and that the next capability is the parent of the last;
  as the seen are at most the names there are, the walk ends.
* `ShopPurchasesAreReal`: `ShopInv` says, for each place a purchase can be at, what
  of it the store already has; `shopStore` alone does not tell an order that waits
  for its payment from one given up.
* `StoreKeepsSessions`: `StoreProgress` says what each half-done operation has already
  written: the temporary file that is renamed is whole, the document that awaits its
  entry in the index is the latest.
* `SignedPaymentsAreKnown`: a payment that the caller gave up as expired is not taken
  from then on, and one it knows to be made was. The invariant says of every message,
  also those still on their way, that its mandate was signed and submitted; a mandate
  is taken before it expires and given up after; a good answer is a payment.

### Delivery and records

* `HttpRateIsKept`: in any interval an origin gets at most the bucket's capacity and
  what accrues meanwhile, for any number of calls and any capacity, rate and delays.
  The invariant relates the bucket to every earlier grant: what was taken since that
  grant and what is left is at most the capacity and what accrued up to the last
  refill (`HttpFair`); each grant is then the end of all the intervals it closes.
* `OrderEventsSound`: three action properties. An order that was subscribed to once has
  not moved as long as its first timer is pending (`OrderInv`), so each timer moves
  it forward.
* `CloudIngestIsSound`: an event is in one of a buffer, a request or the rows
  (`CloudEventsInv`), and a lookup that may still fill the cache read the key before it
  was revoked (`CloudKeyInv`).
* `TrailIsSound`: the call the agent is in was logged last and its start is the one kept
  under its tool (`TrailCallIsLogged`), although a refused call leaves its start behind.
* `ExportIsSound`: the runs found stay the customer's and in the range, and every row
  that was due has been read once the request is past its table (`ExportInv`).
* `DeliveryTypeCorrect` and `DeliveryRecords` are these of the composition.

### The services

A behaviour of `MCServices` is a behaviour of every part (`ServicesAreParts`: the parts
it does not name stutter), so `ServicesTypeCorrect`, `ServicesTransport`,
`ServicesPurchases`, `ServicesStorage`, `ServicesRequests`, `ServicesChain`,
`ServicesTeams`, `ServicesPlayground` and `ServicesStripe` follow from the theorems of
the parts:

* requests of the LLM adapters (`LlmRequestsAnswered`): the history is ordered, and
  complete except while the tools of a response are executed, when the calls left are
  the rest of its last response; what is saved is complete (`LlmHistoryInv`). For the
  request built of such a history, `LlmSent` says after each message that everything
  before the last message with calls is answered, and that the queue has exactly the
  calls whose results are to come, in their order; hence the first call of a result's
  name is its own. In particular two calls of one tool in a response are told apart
  because the agent executes them in order.
* the chain: identifiers are given out in order, and agents are at work only while
  every step so far succeeded (`ChainInv`).
* teams: for each place a request can be at, what it has checked and what must still
  hold when it writes (`TeamRequestIsSound`): past "enroll" an organisation has its
  owner, and the row a request changes or removes is not an owner's. This is
  preserved because nothing makes an owner's row of another and ids are not reused.
  `TeamOwnersStay` is the action property.
* the playground: the page awaits one turn at most, and the session it has is that
  turn's (`PlayAwaitsOne`, `PlaySessionIsTurns`); while no session timed out, an agent
  belongs to one session (`PlaySessionsLast`). A result the page has yet to read is what
  the cart holds as long as an add changed it last (`PlayScreenInv`), so that once the
  turn is over and read the screen has it. `PlayAddReachesCart` is the action property.
* Stripe, whose events are repeated but come in order: the last event in the queue
  that sets a status sets the right one, and if there is none the row has it
  (`SubQueueLeadsThere`).

### How the recursion is handled

The prover has no induction over data. Where a definition is a recursive function
(`LlmSofar`) or a walk needs induction on a number, the proof takes the least
counterexample (`LeastNatural`) and shows that there is a smaller one; that a
recursive function is what its equation says follows from the existence of such a
function, which is shown in the same way (`LlmSofarGoesOn`).

### Model-checked only

Liveness: `RunsEnd`, `EveryCallReturns`, `SubscribedIsDelivered` and
`CompletionReturns`. They hold under fairness, and need ENABLED and induction over
behaviours, which the prover does not have.

## 5. Disagreements found

Each has a run, and an entry with the quoted line in `PROJECT.json`:

* `switch_merchant` does not re-point the UCP client (`agent_two_ucp`).
* spending-controls adds the value of a cart the payment has emptied, so the
  session limit never fills (`governance_session_limit`).
* A cap that modifies a call ends the evaluation, business hours after it are not
  asked (`policy_cap`).
* `run_end` is posted while a batch that the timer sent is still in flight
  (`cloud_ended_run`).

Met while modelling, without a run of their own. Of the agent and its plugins: an
adapter's checkout is paid at a UCP merchant; `runStream` saves nothing; a resumed
agent has a session and no merchant discovered to pay it at; a discovery outage turns
a UCP merchant into the ACP endpoint; the merchant charges a session whose cart was
edited after the plugins' limit applied to it, so that a purchase above the approval
threshold (`plugins/approval-workflow/README.md:34`) is paid without approval when the
cart is edited below it before the payment; one approval covers several payments, of
any amount; a payment whose answer was lost is charged again when it is repeated,
under the same purchase-order number; audit-trail configured after a plugin that
refuses a call does not log it, and its webhook never gets the entries short of a last
full batch.

A `run` that resumes after a `runStream` on the same agent restores the contexts of the
last save and leaves `protocol` as the stream set it, so that its next call may follow
the wrong protocol.

Of the other parts:

* `discover()` falls back to http also for a domain written with https://
  (`src/client/ucp-client.ts:70`), where its comments say that an explicit protocol is
  preserved and the fallback is for others (lines 52 and 67);
* the depth of sub-agents restarts at 0 in a child built without the depth it is
  handed, as the builders of the repository's README are; what an agent two levels down
  reports names the agent one level down; `AgentChain.run` rejects when a child throws,
  where its comment says that it halts and returns;
* in `auto` a `checkout/complete` that was carried out over MCP, and whose answer was
  lost, is sent again over REST and makes a second order: the merchant takes the items
  of the request when it has no session any more
  (`src/mock/mock-mcp-merchant.ts:254`, `src/mock/mock-merchant.ts:177`);
* the playground takes the cart it shows from results of `add_to_cart` alone
  (`site/app/playground/page.tsx:333`): after a payment, a removal, a rediscovery or an
  add of a stopped turn the cart on the screen is stale;
* a second subscription to an order restarts its stages, so that an order can move
  back; unsubscribing leaves timers, which then find nothing to do;
* after a playground session expired, two requests at once each create an agent and
  one is lost; an `add_to_cart` of a stopped turn that lands late puts the array it
  held back, with items that were paid meanwhile, and two at once give two lines;
* the Stripe row keeps the status of the event that was processed last, which need not
  be the last that happened;
* `attachCart` is documented to validate the sum of the lines against the declared
  amount, and `verifyMandateShape` to compare them with it; both compute or compare
  `cartTotal`;
* `wrapFetch` signs the empty string for a body that is not a string;
* a `run_end` may be processed before the insert that its `run_start` made.

## 6. Not modelled

Left out of `ShoppingAgent`: auto-detected WooCommerce stores (an adapter context
without an adapter registered for the domain), partial domain names in
`switch_merchant`, prices and discount texts, the capability check before a UCP
checkout (all merchants here have it), negative quantities, `subscribe_order_updates`,
messages and metrics.

Left out of the plugins: agent-identity (headers only), vendor and category tags,
the daily window of spending-controls, webhooks of approvals.

Left out elsewhere: signatures and hashes, the wording of prompts, results and
errors, the catalogues' JSON and the schemas of the tools, usage and cost counts,
events of Stripe that arrive out of order, the pages of the site and of the dashboard,
the CLI, fixtures and benchmarks. They decide nothing that the properties speak of, or
are the other side's business.

What is left to prove: that `UcpTransport`, `Adapters` and `SessionStorage` implement
abstract specifications of their own (a call that orders or not; a purchase that is
made or not; a register), as `AcpMerchant` implements `CheckoutContract`; and the
routing of a resumed agent, of which `CallsReachActive` says nothing when there are
crashes.
