------------------------------ MODULE MCServices ------------------------------
(* For TLC, the components that share no state with the agent in these models: *)
(* the merchants of both protocols with any clients, the transport between, what *)
(* a client reads from a profile, the adapters, signed payments, storage, the   *)
(* policies, the conversation with an LLM, sub-agents, and the teams,           *)
(* playground and subscriptions as hosted.  A behaviour is one of the part that *)
(* its first state names.                                                       *)
EXTENDS AcpMerchant, UcpMerchant, UcpTransport, UcpProfile, Adapters, SessionStorage,
  PolicyEngine, LlmConversation, SubAgents, Teams, Playground, StripeSubscription,
  SignedRequests

CONSTANTS m1, m2, m3    \* merchants, of which the last has no MCP endpoint

ExampleOffers(m) == IF m = m3 THEN {"rest"} ELSE {"mcp", "rest"}
ExampleVariantOf(p) == <<p>>

\* A chain with a capability of two versions; a circle; a parent that is missing.
ExampleProfiles ==
  LET Entry(n, e) == [name |-> n, extends |-> e] IN
  {<<Entry("discount", "order"), Entry("order", "checkout"), Entry("order", "none"),
     Entry("checkout", "none")>>,
   <<Entry("order", "checkout"), Entry("checkout", "order"), Entry("discount", "order")>>,
   <<Entry("checkout", "checkout"), Entry("discount", "order")>>}

ASSUME ServicesAssumption == "add_to_cart" \in Tools

\* A policy of each type and, as in the plugin's README, a cap that modifies beside
\* business hours that block.
ExamplePolicies ==
  {[type |-> "allowlist", tools |-> Tools, action |-> "block",
    field |-> "domain", allowlist |-> {CHOOSE n \in Names : TRUE}],
   [type |-> "max_value", tools |-> {"add_to_cart"}, action |-> "modify",
    field |-> "quantity", max |-> 1],
   [type |-> "max_value", tools |-> {"add_to_cart"}, action |-> "block",
    field |-> "quantity", max |-> 2],
   [type |-> "time_restriction", tools |-> Tools, action |-> "block",
    start |-> 8, end |-> 20],
   [type |-> "required_field", tools |-> Tools, action |-> "modify",
    fields |-> {"domain", "quantity"}]}

-------------------------------------------------------------------------------
VARIABLE part

Parts == {"merchants", "transport", "profile", "adapters", "storage", "policies", "llm",
          "chain", "teams", "playground", "stripe", "signed"}

merchantVars == <<acpVars, ucpVars>>

servicesVars ==
  <<part, merchantVars, wireVars, profilesVars, shopVars, storeVars, policyVars, llmVars,
    chainVars, teamVars, playVars, subVars, signedVars>>

\* Some call that nobody evaluates.
PolicyAtRest ==
  /\ policies = <<>> /\ tool = "add_to_cart" /\ hour = 0
  /\ args = [f \in Fields |-> Absent]
  /\ next = 1 /\ verdict = "pending" /\ cap = 0 /\ violations = {}

ServicesInit ==
  /\ part \in Parts
  /\ AcpInit /\ UcpInit /\ WireInit /\ ProfileInit /\ ShopInit /\ StoreInit
  /\ IF part = "policies" THEN PolicyInit ELSE PolicyAtRest
  /\ LlmInit /\ ChainInit /\ TeamInit /\ PlayInit /\ SubInit /\ SignedInit

\* Each kind of merchant keeps its own sessions; the identifiers come from one set.
MerchantsNext ==
  \/ AcpNext /\ UNCHANGED ucpVars
  \/ UcpNext /\ UNCHANGED acpVars

ServicesNext ==
  /\ UNCHANGED part
  /\ IF part = "merchants" THEN MerchantsNext ELSE UNCHANGED merchantVars
  /\ IF part = "transport" THEN WireNext ELSE UNCHANGED wireVars
  /\ IF part = "profile" THEN ProfileNext ELSE UNCHANGED profilesVars
  /\ IF part = "adapters" THEN ShopNext ELSE UNCHANGED shopVars
  /\ IF part = "storage" THEN StoreNext ELSE UNCHANGED storeVars
  /\ IF part = "policies" THEN PolicyNext ELSE UNCHANGED policyVars
  /\ IF part = "llm" THEN LlmNext ELSE UNCHANGED llmVars
  /\ IF part = "chain" THEN ChainNext ELSE UNCHANGED chainVars
  /\ IF part = "teams" THEN TeamNext ELSE UNCHANGED teamVars
  /\ IF part = "playground" THEN PlayNext ELSE UNCHANGED playVars
  /\ IF part = "stripe" THEN SubNext ELSE UNCHANGED subVars
  /\ IF part = "signed" THEN SignedNext ELSE UNCHANGED signedVars

ServicesSpec == ServicesInit /\ [][ServicesNext]_servicesVars

-------------------------------------------------------------------------------
(* Properties *)

\* Type invariant of every part.
ServicesTypeOK ==
  /\ AcpTypeOK /\ UcpTypeOK /\ WireTypeOK /\ ProfileTypeOK /\ ShopTypeOK /\ StoreTypeOK
  /\ PolicyTypeOK /\ LlmTypeOK /\ ChainTypeOK /\ TeamTypeOK /\ PlayTypeOK
  /\ SubTypeOK /\ SignedTypeOK

\* A call of the UCP client orders twice only where auto repeats over REST what MCP has
\* carried out without its answer arriving; it goes to a merchant that was the
\* discovered one since it was made; and one that reports success placed its order.
\* The lineage of a capability is the chain of its parents, whatever circles the
\* profile has.
TransportIsSound ==
  /\ OnlyFallbackOrdersTwice /\ CallsReachDiscovered /\ SuccessIsReal
  /\ LineageClimbs /\ LineageIsWhole

\* A store's orders have the buyer's address, and a purchase that an adapter reports
\* is in the store with the lines of its checkout, whichever request failed.  A payment
\* whose mandate the caller gave up as expired is not taken from then on, and one that
\* it knows to be made was, whatever is late, lost or repeated.
PurchasesAreReal ==
  /\ OrdersAreBilled /\ ReportedPurchaseExists
  /\ GivenUpIsNotPaid /\ KnownPaymentWasTaken

\* A crash during save() or delete() leaves a session that loads whole, no older than
\* the last save that completed, and that its customer's list has.
StorageIsSound == LoadedIsWhole /\ SavedIsListed

\* Every request to an LLM answers each call with its own result, and Claude's
\* alternate between user and assistant, also after a resumption.
RequestsAreWellFormed == EveryCallIsAnswered /\ ClaudeTurnsAlternate

\* A chain stops at the first step that does not succeed, the spans that are open are
\* those of the agents at work, whatever threw, and a step's reports name the step.
ChainIsSound == ChainHalts /\ SpansAreNested /\ StepsNameTheirReports

\* Whatever requests interleave or die half way, an organisation with members has its
\* owner among them, and what the audit log tells has happened.
TeamIsSound == MembersHaveAnOwner /\ AuditIsTrue

\* The page says that it works while it does, its cart is that of the agent the next
\* turn will talk to, and, at rest, it is what this agent's cart holds, unless the cart
\* last changed by what the page is not told of.
PageIsTrue == RunningIsShown /\ ShownCartIsReached /\ ShownCartIsCurrent
===============================================================================
