--------------------------- MODULE ShoppingAgentProofs ---------------------------
(***************************************************************************)
(* Theorems about an agent and its merchants, for any sets of merchants,   *)
(* products, addresses and sessions, any budget of iterations, and every   *)
(* combination of lost requests, crashes and storage failures.             *)
(***************************************************************************)
EXTENDS ShoppingAgent, MerchantProofs

AllTypesOK == TypeOK /\ AcpTypeOK /\ UcpTypeOK

-------------------------------------------------------------------------------
(* What an agent step does to the merchants is what their handlers do. *)

\* Only four tools change anything at a merchant.
LEMMA MerchantSteps ==
  ASSUME [Next]_vars
  PROVE  \/ \E s \in Sessions : InitiateCheckout(s)
         \/ \E a \in Addresses : SubmitShipping(a)
         \/ PayAcp
         \/ PayUcp
         \/ UNCHANGED merchantVars
<1>1. ASSUME NEW d \in Domains,
             \/ DiscoverAdapter(d) \/ DiscoverUcp(d) \/ DiscoverAcp(d)
             \/ SwitchMerchant(d) \/ ComparePrices(d)
      PROVE  UNCHANGED merchantVars
  BY <1>1 DEF DiscoverAdapter, DiscoverUcp, DiscoverAcp, SwitchMerchant, ComparePrices
<1>2. ASSUME NEW p \in Products, AddToCart(p) \/ RemoveFromCart(p)
      PROVE  UNCHANGED merchantVars
  BY <1>2 DEF AddToCart, RemoveFromCart, EditCart
<1>3. ASSUME NoEffectCall \/ DiscoverNothing PROVE UNCHANGED merchantVars
  BY <1>3 DEF NoEffectCall, DiscoverNothing
<1>4. ASSUME \/ Resume \/ StartStream \/ \E t \in Tasks : StartFresh(t)
             \/ \E n \in 1 .. MaxCalls : TakeTurn(n)
             \/ Finish \/ GiveUp \/ EndTurn \/ AbandonStream \/ Crash
      PROVE  UNCHANGED merchantVars
  BY <1>4 DEF Resume, StartStream, StartFresh, TakeTurn, Finish, GiveUp, EndTurn,
              AbandonStream, Crash
<1>5. ASSUME UNCHANGED vars PROVE UNCHANGED merchantVars
  BY <1>5 DEF vars
<1> QED
  BY <1>1, <1>2, <1>3, <1>4, <1>5 DEF Next, Agent, ToolCall

\* What a payment sends is of the types the handlers expect.
LEMMA PaymentTypes ==
  ASSUME AllTypesOK, CanPay
  PROVE  /\ session[active] \in Sessions /\ address[active] \in Addresses
         /\ cart[active] \in Carts /\ active \in Slots
         /\ ucpTarget # None => ucpTarget \in UcpHosts
BY DEF CanPay, AllTypesOK, TypeOK, MaybeSession, MaybeAddress

\* Every step of the system is a step of the ACP merchant or leaves it alone.
LEMMA AgentStepIsAcpStep ==
  ASSUME AllTypesOK, [Next]_vars PROVE [AcpNext]_acpVars
<1> USE DEF merchantVars, acpVars
<1>1. ASSUME NEW s \in Sessions, InitiateCheckout(s) PROVE [AcpNext]_acpVars
  BY <1>1 DEF InitiateCheckout, AcpNext, AllTypesOK, TypeOK, MaybeAddress
<1>2. ASSUME NEW a \in Addresses, SubmitShipping(a) PROVE [AcpNext]_acpVars
  BY <1>2 DEF SubmitShipping, AcpNext, AllTypesOK, TypeOK, MaybeSession
<1>3. ASSUME PayAcp PROVE [AcpNext]_acpVars
  BY <1>3, PaymentTypes DEF PayAcp, AnsweredPayment, AcpNext
<1>4. ASSUME PayUcp PROVE [AcpNext]_acpVars
  BY <1>4 DEF PayUcp
<1> QED
  BY <1>1, <1>2, <1>3, <1>4, MerchantSteps

\* Every step of the system is a step of the UCP merchants or leaves them alone.
LEMMA AgentStepIsUcpStep ==
  ASSUME AllTypesOK, [Next]_vars PROVE [UcpNext]_ucpVars
<1> USE DEF merchantVars, ucpVars
<1>1. ASSUME NEW s \in Sessions, InitiateCheckout(s) PROVE [UcpNext]_ucpVars
  BY <1>1 DEF InitiateCheckout, UcpNext, AllTypesOK, TypeOK
<1>2. ASSUME NEW a \in Addresses, SubmitShipping(a) PROVE [UcpNext]_ucpVars
  BY <1>2 DEF SubmitShipping
<1>3. ASSUME PayAcp PROVE [UcpNext]_ucpVars
  BY <1>3 DEF PayAcp
<1>4. ASSUME PayUcp PROVE [UcpNext]_ucpVars
  BY <1>4, PaymentTypes DEF PayUcp, UcpNext
<1> QED
  BY <1>1, <1>2, <1>3, <1>4, MerchantSteps

-------------------------------------------------------------------------------
(* Type correctness *)

\* A new agent and new merchants are typed.
LEMMA TypesInit == Init => AllTypesOK
<1> SUFFICES ASSUME Init PROVE AllTypesOK
  OBVIOUS
<1>1. AcpTypeOK /\ UcpTypeOK
  BY AcpInvInit, UcpInvInit DEF Init, AcpInv, UcpInv
<1>2. /\ iteration \in 0 .. MaxIterations /\ pending \in 0 .. MaxCalls
      /\ starts \in 0 .. MaxStarts
  BY AgentAssumption DEF AgentAssumption, Init
<1>3. /\ active \in Slots /\ protocol \in {"ucp", "acp", None}
      /\ ucpTarget \in UcpHosts \cup {None} /\ acpBase \in BOOLEAN
      /\ edited \subseteq Sessions /\ platform \subseteq Sessions
  BY DEF Init, Slots
<1>4. /\ proto \in [Domains -> Protocols \cup {None}]
      /\ cart \in [Slots -> Carts]
      /\ session \in [Slots -> MaybeSession]
      /\ address \in [Slots -> MaybeAddress]
      /\ orders \in [Slots -> SUBSET AgentOrders]
  BY EmptyCartIsCart DEF Init, NewContexts, MaybeSession, MaybeAddress
<1>5. /\ pc \in {"idle", "think", "act"} /\ mode \in {"run", "stream"}
      /\ task \in Tasks \cup {None} /\ hydrated \in BOOLEAN
      /\ saved \in Snapshots \cup {None}
  BY DEF Init
<1>6. TypeOK
  BY <1>2, <1>3, <1>4, <1>5 DEF TypeOK
<1> QED
  BY <1>1, <1>6 DEF AllTypesOK

\* A discovery puts well-typed fields into the context it makes.
LEMMA NewContextType ==
  ASSUME TypeOK, NEW d \in Domains, NEW p \in Protocols, NewContext(d, p)
  PROVE  /\ proto' \in [Domains -> Protocols \cup {None}]
         /\ cart' \in [Slots -> Carts]
         /\ session' \in [Slots -> MaybeSession]
         /\ address' \in [Slots -> MaybeAddress]
         /\ orders' \in [Slots -> SUBSET AgentOrders]
         /\ active' \in Slots
BY EmptyCartIsCart
DEF TypeOK, NewContext, ContextSession, MaybeSession, MaybeAddress, Slots

\* So does a payment that is answered.
LEMMA RecordOrderType ==
  ASSUME TypeOK, CanPay, NEW h \in Hosts, NEW n \in Nat, RecordOrder(h, n)
  PROVE  /\ cart' \in [Slots -> Carts]
         /\ session' \in [Slots -> MaybeSession]
         /\ address' \in [Slots -> MaybeAddress]
         /\ orders' \in [Slots -> SUBSET AgentOrders]
<1>1. /\ session[active] \in Sessions /\ address[active] \in Addresses
      /\ cart[active] \in Carts
  BY DEF TypeOK, CanPay, MaybeSession, MaybeAddress
<1>2. PlacedOrder(h, n) \in AgentOrders
  BY <1>1 DEF PlacedOrder, AgentOrders
<1> QED
  BY <1>2, EmptyCartIsCart
  DEF TypeOK, RecordOrder, SessionAfterPayment, MaybeSession, MaybeAddress

\* What a turn saves is a snapshot.
LEMMA SnapshotType == TypeOK => Snapshot \in Snapshots
BY DEF TypeOK, Snapshot, Snapshots, SavedSession, Slots

\* Every step of agent and merchants keeps the types of the agent's variables.
LEMMA TypeOKNext ==
  ASSUME AllTypesOK, [Next]_vars PROVE TypeOK'
<1> USE AgentAssumption DEF AgentAssumption
<1>0. TypeOK /\ AcpTypeOK /\ UcpTypeOK
  BY DEF AllTypesOK
<1>1. ASSUME Calling PROVE pending' \in 0 .. MaxCalls
  BY <1>0, <1>1 DEF Calling, TypeOK
<1>2. CASE NoEffectCall \/ DiscoverNothing
  BY <1>0, <1>1, <1>2
  DEF NoEffectCall, DiscoverNothing, Calling, contextVars, merchantVars, TypeOK
<1>3. ASSUME NEW d \in Domains, DiscoverAdapter(d) \/ DiscoverUcp(d) \/ DiscoverAcp(d)
      PROVE  TypeOK'
  BY <1>0, <1>1, <1>3, NewContextType
  DEF DiscoverAdapter, DiscoverUcp, DiscoverAcp, ProtocolOfAcpContext, Protocols,
      Calling, merchantVars, TypeOK
<1>4. ASSUME NEW d \in Domains, SwitchMerchant(d) \/ ComparePrices(d)
      PROVE  TypeOK'
  <2>1. /\ protocol' \in {"ucp", "acp", None} /\ active' \in Slots
        /\ UNCHANGED <<ucpTarget, acpBase, proto, cart, session, address, orders, edited,
                       platform>>
    BY <1>0, <1>4
    DEF SwitchMerchant, ComparePrices, ProtocolAfterSwitch, Protocols, Slots, TypeOK,
        merchantVars
  <2> QED
    BY <1>0, <1>1, <1>4, <2>1 DEF SwitchMerchant, ComparePrices, Calling, TypeOK
<1>5. ASSUME NEW p \in Products, AddToCart(p) \/ RemoveFromCart(p)
      PROVE  TypeOK'
  <2>1. PICK q \in 0 .. MaxQty : EditCart(p, q)
    <3>1. cart[active][p] \in 0 .. MaxQty
      BY <1>0 DEF TypeOK, Carts
    <3> QED
      BY <1>5, <3>1, CommerceAssumption
      DEF AddToCart, RemoveFromCart, CommerceAssumption
  <2>2. cart' \in [Slots -> Carts] /\ edited' \subseteq Sessions
    BY <1>0, <2>1 DEF EditCart, TypeOK, Carts, MaybeSession
  <2> QED
    BY <1>0, <1>1, <2>1, <2>2 DEF EditCart, Calling, merchantVars, TypeOK
<1>6. ASSUME NEW s \in Sessions, InitiateCheckout(s) PROVE TypeOK'
  <2>1. session' \in [Slots -> MaybeSession] /\ platform' \subseteq Sessions
    BY <1>0, <1>6 DEF InitiateCheckout, LearnSession, TypeOK, MaybeSession
  <2> QED
    BY <1>0, <1>1, <1>6, <2>1 DEF InitiateCheckout, Calling, TypeOK
<1>7. ASSUME NEW a \in Addresses, SubmitShipping(a) PROVE TypeOK'
  <2>1. address' \in [Slots -> MaybeAddress] /\ platform' = platform
    BY <1>0, <1>7
    DEF SubmitShipping, AddressAfterSubmit, TypeOK, MaybeAddress, merchantVars
  <2> QED
    BY <1>0, <1>1, <1>7, <2>1 DEF SubmitShipping, Calling, TypeOK
<1>8. CASE PayAcp
  <2>1. CanPay /\ acpCharges[session[active]] + 1 \in Nat
    BY <1>0, <1>8 DEF PayAcp, CanPay, AcpTypeOK, TypeOK, MaybeSession
  <2>2. /\ cart' \in [Slots -> Carts]
        /\ session' \in [Slots -> MaybeSession]
        /\ address' \in [Slots -> MaybeAddress]
        /\ orders' \in [Slots -> SUBSET AgentOrders]
    BY <1>0, <1>8, <2>1, RecordOrderType DEF PayAcp, Hosts, TypeOK
  <2> QED
    BY <1>0, <1>1, <1>8, <2>2 DEF PayAcp, Calling, TypeOK
<1>9. CASE PayUcp
  <2>1. /\ CanPay /\ ucpTarget \in Hosts
        /\ ucpCharges[ucpTarget][session[active]] + 1 \in Nat
    BY <1>0, <1>9 DEF PayUcp, CanPay, UcpTypeOK, TypeOK, MaybeSession, Hosts
  <2>2. /\ cart' \in [Slots -> Carts]
        /\ session' \in [Slots -> MaybeSession]
        /\ address' \in [Slots -> MaybeAddress]
        /\ orders' \in [Slots -> SUBSET AgentOrders]
    BY <1>0, <1>9, <2>1, RecordOrderType DEF PayUcp, TypeOK
  <2> QED
    BY <1>0, <1>1, <1>9, <2>2 DEF PayUcp, Calling, TypeOK
<1>10. CASE Resume
  <2>1. saved \in Snapshots
    BY <1>0, <1>10 DEF Resume, TypeOK
  <2>2. /\ saved.cart \in [Domains -> Carts]
        /\ saved.session \in [Domains -> MaybeSession]
        /\ saved.address \in [Domains -> MaybeAddress]
        /\ saved.proto \in [Domains -> Protocols \cup {None}]
        /\ saved.active \in Slots /\ saved.iteration \in 0 .. MaxIterations
        /\ saved.task \in Tasks \cup {None}
    BY <2>1 DEF Snapshots
  <2>3. /\ cart' \in [Slots -> Carts]
        /\ session' \in [Slots -> MaybeSession]
        /\ address' \in [Slots -> MaybeAddress]
        /\ orders' \in [Slots -> SUBSET AgentOrders]
    BY <1>0, <1>10, <2>2 DEF Resume, Restored, TypeOK, Slots
  <2>4. /\ pc' \in {"idle", "think", "act"} /\ mode' \in {"run", "stream"}
        /\ hydrated' \in BOOLEAN /\ starts' \in 0 .. MaxStarts
        /\ UNCHANGED <<pending, protocol, ucpTarget, acpBase, saved, edited, platform>>
    BY <1>0, <1>10 DEF Resume, TypeOK, merchantVars
  <2>5. /\ task' \in Tasks \cup {None} /\ iteration' \in 0 .. MaxIterations
        /\ active' \in Slots /\ proto' \in [Domains -> Protocols \cup {None}]
    BY <1>10, <2>2 DEF Resume
  <2> QED
    BY <1>0, <2>3, <2>4, <2>5 DEF TypeOK
<1>11. CASE StartStream \/ \E t \in Tasks : StartFresh(t)
  BY <1>0, <1>11 DEF StartStream, StartFresh, TypeOK, contextVars, merchantVars
<1>12. CASE (\E n \in 1 .. MaxCalls : TakeTurn(n)) \/ Finish \/ GiveUp \/ AbandonStream
  BY <1>0, <1>12
  DEF TakeTurn, Finish, GiveUp, AbandonStream, MoreIterations,
      IterationAfterThinking, TypeOK, contextVars, merchantVars
<1>13. CASE EndTurn
  <2>1. saved' \in Snapshots \cup {None}
    BY <1>0, <1>13, SnapshotType DEF EndTurn, TypeOK
  <2>2. /\ pc' = "think"
        /\ UNCHANGED <<mode, iteration, pending, task, hydrated, starts, contextVars,
                       edited, platform>>
    BY <1>13 DEF EndTurn, merchantVars
  <2> QED
    BY <1>0, <2>1, <2>2 DEF TypeOK, contextVars
<1>14. CASE Crash
  <2>1. /\ proto' \in [Domains -> Protocols \cup {None}]
        /\ cart' \in [Slots -> Carts]
        /\ session' \in [Slots -> MaybeSession]
        /\ address' \in [Slots -> MaybeAddress]
        /\ orders' \in [Slots -> SUBSET AgentOrders]
    BY <1>14, EmptyCartIsCart DEF Crash, NewContexts, MaybeSession, MaybeAddress
  <2>2. /\ pc' = "idle" /\ mode' = "run" /\ iteration' = 0 /\ pending' = 0
        /\ task' = None /\ hydrated' = FALSE /\ acpBase' = FALSE
        /\ active' = None /\ protocol' = None /\ ucpTarget' = None
        /\ UNCHANGED <<starts, saved, edited, platform>>
    BY <1>14 DEF Crash, merchantVars
  <2>3. /\ pc' \in {"idle", "think", "act"} /\ mode' \in {"run", "stream"}
        /\ task' \in Tasks \cup {None} /\ hydrated' \in BOOLEAN
        /\ active' \in Slots /\ protocol' \in {"ucp", "acp", None}
        /\ ucpTarget' \in UcpHosts \cup {None} /\ acpBase' \in BOOLEAN
    BY <2>2 DEF Slots
  <2>4. /\ iteration' \in 0 .. MaxIterations /\ pending' \in 0 .. MaxCalls
        /\ starts' \in 0 .. MaxStarts /\ saved' \in Snapshots \cup {None}
        /\ edited' \subseteq Sessions /\ platform' \subseteq Sessions
    BY <1>0, <2>2 DEF TypeOK
  <2> QED
    BY <2>1, <2>3, <2>4 DEF TypeOK
<1>15. CASE UNCHANGED vars
  BY <1>0, <1>15 DEF vars, loopVars, contextVars, merchantVars, TypeOK
<1> QED
  BY <1>2, <1>3, <1>4, <1>5, <1>6, <1>7, <1>8, <1>9, <1>10, <1>11, <1>12, <1>13,
     <1>14, <1>15
  DEF Next, Agent, ToolCall

-------------------------------------------------------------------------------
(* The merchants keep their promises whatever the agent does. *)

SystemInv == TypeOK /\ AcpInv /\ UcpInv

\* The invariant of the system includes the types.
LEMMA SystemInvTypes == SystemInv => AllTypesOK
BY DEF SystemInv, AcpInv, UcpInv, AllTypesOK

\* The invariant of the system holds in every reachable state.
LEMMA SystemInvAlways == Spec => []SystemInv
<1>1. Init => SystemInv
  BY TypesInit, AcpInvInit, UcpInvInit DEF Init, SystemInv, AllTypesOK
<1>2. SystemInv /\ [Next]_vars => SystemInv'
  BY SystemInvTypes, TypeOKNext, AgentStepIsAcpStep, AgentStepIsUcpStep, AcpInvNext,
     UcpInvNext
  DEF SystemInv
<1> QED
  BY <1>1, <1>2, PTL DEF Spec

\* The agent's state, and what it saves, stays well typed.
THEOREM AgentTypeCorrect == Spec => []TypeOK
<1>1. SystemInv => TypeOK
  BY DEF SystemInv
<1> QED
  BY <1>1, SystemInvAlways, PTL

\* Composed with the agent, the merchants are the merchants of AcpMerchant and
\* UcpMerchant: the agent can do to them only what their handlers allow.
THEOREM AgentUsesMerchants == Spec => AcpSpec /\ UcpSpec
<1>1. Init => AcpInit /\ UcpInit
  BY DEF Init
<1>2. SystemInv /\ [Next]_vars => [AcpNext]_acpVars /\ [UcpNext]_ucpVars
  BY SystemInvTypes, AgentStepIsAcpStep, AgentStepIsUcpStep
<1> QED
  BY <1>1, <1>2, SystemInvAlways, PTL DEF Spec, AcpSpec, UcpSpec

\* Through lost requests and answers, declines, retries, crashes and resumed
\* sessions, an ACP checkout session charges the buyer at most once.
THEOREM AgentKeepsAcpContract == Spec => AcpImplementsContract
BY AgentUsesMerchants, AcpRefinesContract, PTL
===============================================================================
