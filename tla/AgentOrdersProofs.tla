---------------------------- MODULE AgentOrdersProofs ----------------------------
(***************************************************************************)
(* The orders an agent reports: every one was placed, and is for the items *)
(* the merchant charged for.  For any sets of merchants, products,         *)
(* addresses and sessions, through lost requests, crashes and resumptions. *)
(* Then what holds of what is saved, of where calls go, of how often a     *)
(* session is paid and of addresses, when the named faults are left out.   *)
(***************************************************************************)
EXTENDS ShoppingAgentProofs

-------------------------------------------------------------------------------
(* What a step can do to the orders. *)

\* An order the agent did not have before is one a merchant takes in this step.
LEMMA NewOrderIsPlaced ==
  ASSUME SystemInv, [Next]_vars, NEW x \in Slots, NEW o \in orders'[x],
         o \notin orders[x]
  PROVE  /\ x = active
         /\ session[active] \in Sessions /\ address[active] \in Addresses
         /\ cart[active] \in Carts
         /\ \/ /\ PayAcp /\ AcpComplete(session[active])
               /\ o = PlacedOrder(AcpHost, acpCharges[session[active]] + 1)
            \/ /\ PayUcp /\ ucpTarget \in UcpHosts
               /\ o = PlacedOrder(ucpTarget, ucpCharges[ucpTarget][session[active]] + 1)
<1>0. AllTypesOK /\ TypeOK
  BY SystemInvTypes DEF SystemInv
<1>1. ASSUME orders' = orders PROVE FALSE
  BY <1>1
<1>2. CASE PayAcp
  <2>1. AcpComplete(session[active])
        /\ RecordOrder(AcpHost, acpCharges[session[active]] + 1)
    BY <1>1, <1>2 DEF PayAcp, AnsweredPayment
  <2>2. x = active /\ o = PlacedOrder(AcpHost, acpCharges[session[active]] + 1)
    BY <1>0, <2>1 DEF RecordOrder, TypeOK
  <2> QED
    BY <1>0, <1>2, <2>1, <2>2, PaymentTypes DEF PayAcp
<1>3. CASE PayUcp
  <2>1. RecordOrder(ucpTarget, ucpCharges[ucpTarget][session[active]] + 1)
    BY <1>1, <1>3 DEF PayUcp
  <2>2. /\ x = active
        /\ o = PlacedOrder(ucpTarget, ucpCharges[ucpTarget][session[active]] + 1)
    BY <1>0, <2>1 DEF RecordOrder, TypeOK
  <2> QED
    BY <1>0, <1>3, <2>2, PaymentTypes DEF PayUcp
<1>4. ASSUME NEW d \in Domains, DiscoverAdapter(d) \/ DiscoverUcp(d) \/ DiscoverAcp(d)
      PROVE  FALSE
  BY <1>0, <1>4 DEF DiscoverAdapter, DiscoverUcp, DiscoverAcp, NewContext, TypeOK, Slots
<1>5. ASSUME NEW d \in Domains, SwitchMerchant(d) \/ ComparePrices(d) PROVE FALSE
  BY <1>1, <1>5 DEF SwitchMerchant, ComparePrices
<1>6. ASSUME NEW p \in Products, AddToCart(p) \/ RemoveFromCart(p) PROVE FALSE
  BY <1>1, <1>6 DEF AddToCart, RemoveFromCart, EditCart
<1>7. ASSUME NEW s \in Sessions, InitiateCheckout(s) PROVE FALSE
  BY <1>1, <1>7 DEF InitiateCheckout
<1>8. ASSUME NEW a \in Addresses, SubmitShipping(a) PROVE FALSE
  BY <1>1, <1>8 DEF SubmitShipping
<1>9. ASSUME Resume \/ Crash PROVE FALSE
  BY <1>0, <1>9 DEF Resume, Crash, Restored, NewContexts, TypeOK, Slots
<1>10. ASSUME \/ StartStream \/ \E t \in Tasks : StartFresh(t)
              \/ \E n \in 1 .. MaxCalls : TakeTurn(n)
              \/ Finish \/ GiveUp \/ EndTurn \/ AbandonStream
              \/ NoEffectCall \/ DiscoverNothing
       PROVE  FALSE
  BY <1>1, <1>10
  DEF StartStream, StartFresh, TakeTurn, Finish, GiveUp, EndTurn, AbandonStream,
      NoEffectCall, DiscoverNothing, contextVars
<1>11. ASSUME UNCHANGED vars PROVE FALSE
  BY <1>1, <1>11 DEF vars, contextVars
<1> QED
  BY <1>2, <1>3, <1>4, <1>5, <1>6, <1>7, <1>8, <1>9, <1>10, <1>11
  DEF Next, Agent, ToolCall

\* Merchants do not forget: completed sessions stay completed, with their items,
\* and orders that were taken stay.
LEMMA MerchantsRemember ==
  ASSUME SystemInv, [Next]_vars
  PROVE  /\ \A s \in Sessions : acpStatus[s] = "completed" =>
              acpStatus'[s] = "completed" /\ acpItems'[s] = acpItems[s]
         /\ \A h \in UcpHosts : ucpOrders[h] \subseteq ucpOrders'[h]
<1>0. AcpTypeOK /\ UcpTypeOK
  BY DEF SystemInv, AcpInv, UcpInv
<1>1. [AcpNext]_acpVars /\ [UcpNext]_ucpVars
  BY SystemInvTypes, AgentStepIsAcpStep, AgentStepIsUcpStep
<1>2. ASSUME NEW s \in Sessions, acpStatus[s] = "completed"
      PROVE  acpStatus'[s] = "completed" /\ acpItems'[s] = acpItems[s]
  BY <1>0, <1>1, <1>2
  DEF AcpNext, AcpCreate, AcpUpdate, AcpComplete, AcpDecline, AcpCancel, AcpUpdatable,
      AcpPayable, AcpCancelable, acpVars, AcpTypeOK
<1>3. ASSUME NEW h \in UcpHosts PROVE ucpOrders[h] \subseteq ucpOrders'[h]
  BY <1>0, <1>1 DEF UcpNext, UcpCreate, UcpComplete, ucpVars, UcpTypeOK
<1> QED
  BY <1>2, <1>3

-------------------------------------------------------------------------------
(* Every reported order was placed. *)

\* No step, of agent or merchants, makes a reported order untrue or reports a false one.
LEMMA RecordedOrdersKept ==
  ASSUME SystemInv, RecordedOrdersExist, [Next]_vars PROVE RecordedOrdersExist'
<1> SUFFICES ASSUME NEW x \in Slots, NEW o \in orders'[x]
             PROVE  IF o.at = AcpHost
                    THEN acpStatus'[o.session] = "completed" /\ o.n = 1
                    ELSE \E r \in ucpOrders'[o.at] :
                           r.session = o.session /\ r.n = o.n /\ r.shipTo = o.shipTo
  BY DEF RecordedOrdersExist
<1>1. CASE o \in orders[x]
  <2>1. o \in AgentOrders
    BY <1>1 DEF SystemInv, TypeOK
  <2> QED
    BY <1>1, <2>1, MerchantsRemember DEF RecordedOrdersExist, AgentOrders, Hosts
<1>2. CASE o \notin orders[x]
  <2>1. CASE /\ AcpComplete(session[active]) /\ session[active] \in Sessions
             /\ o = PlacedOrder(AcpHost, acpCharges[session[active]] + 1)
    <3>1. acpStatus[session[active]] # "completed"
      BY <2>1 DEF AcpComplete, AcpPayable
    <3>2. acpCharges[session[active]] = 0
      BY <2>1, <3>1 DEF SystemInv, AcpInv, AcpChargedIffCompleted
    <3>3. acpStatus'[session[active]] = "completed"
      BY <2>1 DEF AcpComplete, SystemInv, AcpInv, AcpTypeOK
    <3> QED
      BY <2>1, <3>2, <3>3 DEF PlacedOrder
  <2>2. CASE /\ PayUcp /\ ucpTarget \in UcpHosts /\ session[active] \in Sessions
             /\ o = PlacedOrder(ucpTarget, ucpCharges[ucpTarget][session[active]] + 1)
    <3>1. o.at # AcpHost
      BY <2>2, AgentAssumption DEF PlacedOrder, AgentAssumption
    <3>2. PICK items : [session |-> session[active],
                        n |-> ucpCharges[ucpTarget][session[active]] + 1,
                        items |-> items, shipTo |-> address[active]]
                       \in ucpOrders'[ucpTarget]
      BY <2>2 DEF PayUcp, UcpComplete, SystemInv, UcpInv, UcpTypeOK
    <3> QED
      BY <2>2, <3>1, <3>2 DEF PlacedOrder
  <2> QED
    BY <1>2, <2>1, <2>2, NewOrderIsPlaced
<1> QED
  BY <1>1, <1>2

\* A new agent reports no order.
LEMMA RecordedOrdersInit == Init => RecordedOrdersExist
BY DEF Init, NewContexts, RecordedOrdersExist

\* Every order the agent reports was placed: lost answers, declined payments,
\* crashes and resumed sessions never make one up.
THEOREM ReportedOrdersArePlaced == Spec => []RecordedOrdersExist
BY RecordedOrdersInit, RecordedOrdersKept, SystemInvAlways, PTL DEF Spec

-------------------------------------------------------------------------------
(* A checkout session stays with the cart it was opened for. *)

\* Only initiate_checkout opens a session, so every other step leaves alone what
\* sessions were opened with.
LEMMA OnlyCheckoutOpens ==
  ASSUME SystemInv, [Next]_vars, \A s \in Sessions : ~InitiateCheckout(s)
  PROVE  /\ acpItems' = acpItems /\ ucpIssued' = ucpIssued /\ platform' = platform
         /\ \A s \in Sessions : acpStatus'[s] = "none" <=> acpStatus[s] = "none"
         /\ \A h \in UcpHosts, s \in Sessions :
              ucpCharges[h][s] # 0 => ucpCharges'[h][s] # 0
<1>0. AcpTypeOK /\ UcpTypeOK /\ AllTypesOK /\ TypeOK
  BY SystemInvTypes DEF SystemInv, AcpInv, UcpInv
<1>1. ASSUME NEW a \in Addresses, SubmitShipping(a)
      PROVE  /\ acpItems' = acpItems /\ UNCHANGED <<ucpVars, platform>>
             /\ \A s \in Sessions : acpStatus'[s] = "none" <=> acpStatus[s] = "none"
  BY <1>0, <1>1
  DEF SubmitShipping, AcpUpdate, AcpUpdatable, AcpTypeOK, merchantVars, acpVars
<1>2. ASSUME PayAcp
      PROVE  /\ acpItems' = acpItems /\ UNCHANGED <<ucpVars, platform>>
             /\ \A s \in Sessions : acpStatus'[s] = "none" <=> acpStatus[s] = "none"
  BY <1>0, <1>2
  DEF PayAcp, AnsweredPayment, AcpComplete, AcpDecline, AcpPayable,
      AcpStatusOnDecline, AcpTypeOK
<1>3. ASSUME PayUcp
      PROVE  /\ UNCHANGED <<acpVars, ucpIssued, platform>>
             /\ \A h \in UcpHosts, s \in Sessions :
                  ucpCharges[h][s] # 0 => ucpCharges'[h][s] # 0
  <2>1. ucpTarget \in UcpHosts /\ session[active] \in Sessions
    BY <1>0, <1>3, PaymentTypes DEF PayUcp
  <2> QED
    BY <1>0, <1>3, <2>1 DEF PayUcp, UcpComplete, UcpTypeOK
<1> QED
  BY <1>1, <1>2, <1>3, MerchantSteps DEF merchantVars, acpVars, ucpVars

\* No step takes back that a cart was edited.
LEMMA EditedGrows == ASSUME [Next]_vars PROVE edited \subseteq edited'
<1>1. ASSUME NEW p \in Products, AddToCart(p) \/ RemoveFromCart(p)
      PROVE  edited \subseteq edited'
  BY <1>1 DEF AddToCart, RemoveFromCart, EditCart
<1>2. ASSUME NEW d \in Domains,
             \/ DiscoverAdapter(d) \/ DiscoverUcp(d) \/ DiscoverAcp(d)
             \/ SwitchMerchant(d) \/ ComparePrices(d)
      PROVE  edited' = edited
  BY <1>2 DEF DiscoverAdapter, DiscoverUcp, DiscoverAcp, SwitchMerchant, ComparePrices
<1>3. ASSUME NEW s \in Sessions, InitiateCheckout(s) PROVE edited' = edited
  BY <1>3 DEF InitiateCheckout
<1>4. ASSUME NEW a \in Addresses, SubmitShipping(a) PROVE edited' = edited
  BY <1>4 DEF SubmitShipping
<1>5. ASSUME \/ NoEffectCall \/ DiscoverNothing \/ PayAcp \/ PayUcp
             \/ Resume \/ StartStream \/ \E t \in Tasks : StartFresh(t)
             \/ \E n \in 1 .. MaxCalls : TakeTurn(n)
             \/ Finish \/ GiveUp \/ EndTurn \/ AbandonStream \/ Crash
      PROVE  edited' = edited
  BY <1>5 DEF NoEffectCall, DiscoverNothing, PayAcp, PayUcp, Resume, StartStream,
              StartFresh, TakeTurn, Finish, GiveUp, EndTurn, AbandonStream, Crash
<1>6. ASSUME UNCHANGED vars PROVE edited' = edited
  BY <1>6 DEF vars
<1> QED
  BY <1>1, <1>2, <1>3, <1>4, <1>5, <1>6 DEF Next, Agent, ToolCall

\* A session that was opened with a cart, was so after any step that opens none.
LEMMA CartStaysOpened ==
  ASSUME SystemInv, [Next]_vars, \A r \in Sessions : ~InitiateCheckout(r),
         NEW CONSTANT s \in MaybeSession, NEW CONSTANT c \in Carts, CartIsOpened(s, c)
  PROVE  CartIsOpened(s, c)'
BY OnlyCheckoutOpens, EditedGrows
DEF CartIsOpened, OpenedWith, FreshSession, UcpFresh, MaybeSession

\* How a step that opens no session can change a context's session and cart: the
\* context gives the session up, or its cart is edited, or nothing happens, or
\* both come from the saved session.
LEMMA ContextChanges ==
  ASSUME SystemInv, [Next]_vars, \A s \in Sessions : ~InitiateCheckout(s),
         NEW x \in Slots
  PROVE  \/ session'[x] = None
         \/ session'[x] = session[x] /\ session[x] \in edited'
         \/ session'[x] = session[x] /\ cart'[x] = cart[x]
         \/ /\ saved # None /\ x \in Domains
            /\ session'[x] = saved.session[x] /\ cart'[x] = saved.cart[x]
<1> DEFINE Goal == \/ session'[x] = None
                   \/ session'[x] = session[x] /\ session[x] \in edited'
                   \/ session'[x] = session[x] /\ cart'[x] = cart[x]
                   \/ /\ saved # None /\ x \in Domains
                      /\ session'[x] = saved.session[x] /\ cart'[x] = saved.cart[x]
<1>0. TypeOK
  BY DEF SystemInv
<1>1. ASSUME UNCHANGED <<session, cart>> PROVE Goal
  BY <1>1
<1>2. ASSUME NEW d \in Domains, DiscoverAdapter(d) \/ DiscoverUcp(d) \/ DiscoverAcp(d)
      PROVE  Goal
  BY <1>0, <1>2
  DEF DiscoverAdapter, DiscoverUcp, DiscoverAcp, NewContext, ContextSession, TypeOK
<1>3. ASSUME NEW p \in Products, AddToCart(p) \/ RemoveFromCart(p) PROVE Goal
  <2>1. PICK q : EditCart(p, q)
    BY <1>3 DEF AddToCart, RemoveFromCart
  <2> QED
    BY <1>0, <2>1 DEF EditCart, TypeOK
<1>4. ASSUME NEW h, NEW n, RecordOrder(h, n) PROVE Goal
  BY <1>0, <1>4 DEF RecordOrder, SessionAfterPayment, TypeOK
<1>5. CASE PayAcp
  BY <1>1, <1>4, <1>5 DEF PayAcp
<1>6. CASE PayUcp
  BY <1>1, <1>4, <1>6 DEF PayUcp
<1>7. CASE Resume
  BY <1>0, <1>7 DEF Resume, Restored, TypeOK, Slots
<1>8. CASE Crash
  BY <1>8 DEF Crash, NewContexts
<1>9. ASSUME NEW d \in Domains, SwitchMerchant(d) \/ ComparePrices(d) PROVE Goal
  BY <1>1, <1>9 DEF SwitchMerchant, ComparePrices
<1>10. ASSUME NEW a \in Addresses, SubmitShipping(a) PROVE Goal
  BY <1>1, <1>10 DEF SubmitShipping
<1>11. ASSUME \/ StartStream \/ \E t \in Tasks : StartFresh(t)
              \/ \E n \in 1 .. MaxCalls : TakeTurn(n)
              \/ Finish \/ GiveUp \/ EndTurn \/ AbandonStream
              \/ NoEffectCall \/ DiscoverNothing
       PROVE  Goal
  BY <1>1, <1>11
  DEF StartStream, StartFresh, TakeTurn, Finish, GiveUp, EndTurn, AbandonStream,
      NoEffectCall, DiscoverNothing, contextVars
<1>12. ASSUME UNCHANGED vars PROVE Goal
  BY <1>1, <1>12 DEF vars, contextVars
<1> QED
  BY <1>2, <1>3, <1>5, <1>6, <1>7, <1>8, <1>9, <1>10, <1>11, <1>12
  DEF Next, Agent, ToolCall

\* Only the end of a turn saves, and it saves the contexts as they are.
LEMMA SavedChanges ==
  ASSUME [Next]_vars
  PROVE  \/ saved' = saved
         \/ saved' = Snapshot /\ UNCHANGED contextVars
<1>1. CASE EndTurn
  BY <1>1 DEF EndTurn
<1>2. CASE ToolCall
  <2>1. Calling
    BY <1>2
    DEF ToolCall, NoEffectCall, DiscoverNothing, DiscoverAdapter, DiscoverUcp,
        DiscoverAcp, SwitchMerchant, ComparePrices, AddToCart, RemoveFromCart, EditCart,
        InitiateCheckout, SubmitShipping, PayAcp, PayUcp
  <2> QED
    BY <2>1 DEF Calling
<1>3. CASE \/ Resume \/ StartStream \/ \E t \in Tasks : StartFresh(t)
           \/ \E n \in 1 .. MaxCalls : TakeTurn(n)
           \/ Finish \/ GiveUp \/ AbandonStream \/ Crash
  BY <1>3 DEF Resume, StartStream, StartFresh, TakeTurn, Finish, GiveUp,
              AbandonStream, Crash
<1>4. CASE UNCHANGED vars
  BY <1>4 DEF vars
<1> QED
  BY <1>1, <1>2, <1>3, <1>4 DEF Next, Agent

\* A step that opens no session keeps every context with its cart.
LEMMA CartsMatchKeptByOthers ==
  ASSUME SystemInv, CartsMatchSessions, [Next]_vars,
         \A s \in Sessions : ~InitiateCheckout(s)
  PROVE  CartsMatchSessions'
<1>0. TypeOK /\ TypeOK'
  BY SystemInvTypes, TypeOKNext DEF SystemInv
<1>1. ASSUME NEW x \in Slots PROVE CartIsOpened(session[x], cart[x])'
  <2>1. PICK s \in MaybeSession : s = session'[x]
    BY <1>0 DEF TypeOK
  <2>2. PICK c \in Carts : c = cart'[x]
    BY <1>0 DEF TypeOK
  <2>3. CASE session'[x] = None
    BY <2>3 DEF CartIsOpened
  <2>4. CASE session'[x] = session[x] /\ session[x] \in edited'
    <3>1. s # None => ~FreshSession(s)
      BY <2>1, <2>4 DEF CartsMatchSessions, CartIsOpened
    <3>2. s # None => ~FreshSession(s)'
      BY <3>1, OnlyCheckoutOpens DEF FreshSession, UcpFresh, MaybeSession
    <3> QED
      BY <2>1, <2>4, <3>2 DEF CartIsOpened, FreshSession, UcpFresh
  <2>5. ASSUME CartIsOpened(s, c) PROVE CartIsOpened(session[x], cart[x])'
    <3>1. CartIsOpened(s, c)'
      BY <2>5, CartStaysOpened
    <3> QED
      BY <2>1, <2>2, <3>1 DEF CartIsOpened, OpenedWith, FreshSession, UcpFresh
  <2>6. CASE session'[x] = session[x] /\ cart'[x] = cart[x]
    BY <2>1, <2>2, <2>5, <2>6 DEF CartsMatchSessions
  <2>7. CASE /\ saved # None /\ x \in Domains
             /\ session'[x] = saved.session[x] /\ cart'[x] = saved.cart[x]
    BY <2>1, <2>2, <2>5, <2>7 DEF CartsMatchSessions
  <2> QED
    BY <2>3, <2>4, <2>6, <2>7, ContextChanges
<1>2. ASSUME saved' # None, NEW d \in Domains
      PROVE  CartIsOpened(saved.session[d], saved.cart[d])'
  <2>1. CASE saved' = saved
    <3>1. saved \in Snapshots
      BY <1>0, <1>2, <2>1 DEF TypeOK
    <3>2. PICK s \in MaybeSession : s = saved.session[d]
      BY <3>1 DEF Snapshots
    <3>3. PICK c \in Carts : c = saved.cart[d]
      BY <3>1 DEF Snapshots
    <3>4. CartIsOpened(s, c)
      BY <1>2, <2>1, <3>2, <3>3 DEF CartsMatchSessions
    <3>5. CartIsOpened(s, c)'
      BY <3>4, CartStaysOpened
    <3> QED
      BY <2>1, <3>2, <3>3, <3>5 DEF CartIsOpened, OpenedWith, FreshSession, UcpFresh
  <2>2. CASE saved' = Snapshot /\ UNCHANGED contextVars
    <3>1. saved'.session[d] = session'[d] /\ saved'.cart[d] = cart'[d]
      BY <2>2 DEF Snapshot, SavedSession, contextVars
    <3>2. CartIsOpened(session[d], cart[d])'
      BY <1>1 DEF Slots
    <3> QED
      BY <3>1, <3>2 DEF CartIsOpened, OpenedWith, FreshSession, UcpFresh
  <2> QED
    BY <2>1, <2>2, SavedChanges
<1> QED
  BY <1>1, <1>2 DEF CartsMatchSessions

\* Opening a session puts a fresh identifier into the active context, next to the
\* cart it was opened with; no other context can hold that identifier.
LEMMA CartsMatchKeptByCheckout ==
  ASSUME SystemInv, CartsMatchSessions, NEW s \in Sessions, InitiateCheckout(s)
  PROVE  CartsMatchSessions'
<1>0. /\ TypeOK /\ AcpTypeOK /\ UcpTypeOK
      /\ cart[active] \in Carts /\ cart[active] # EmptyCart
      /\ UNCHANGED <<cart, saved, edited>>
  BY DEF SystemInv, AcpInv, UcpInv, InitiateCheckout, Calling, TypeOK
<1>1. FreshSession(s)
  BY DEF InitiateCheckout
<1> DEFINE OthersKept ==
             \A r \in Sessions \ {s} :
               /\ acpStatus'[r] = acpStatus[r] /\ acpItems'[r] = acpItems[r]
               /\ \A h \in UcpHosts : ucpIssued'[h][r] = ucpIssued[h][r]
               /\ r \in platform => r \in platform'
           Opened ==
             /\ \/ acpStatus'[s] # "none" \/ s \in platform'
                \/ \E h \in UcpHosts : ucpIssued'[h][s] # EmptyCart
             /\ acpStatus'[s] # "none" => acpItems'[s] = cart[active]
             /\ \A h \in UcpHosts :
                  ucpIssued'[h][s] # EmptyCart => ucpIssued'[h][s] = cart[active]
<1>2. OthersKept /\ Opened /\ ucpCharges' = ucpCharges
  <2>1. CASE platform' = platform \cup {s} /\ UNCHANGED <<acpVars, ucpVars>>
    BY <1>1, <2>1 DEF FreshSession, UcpFresh, acpVars, ucpVars
  <2>2. CASE AcpCreate(s, cart[active], None) /\ UNCHANGED <<ucpVars, platform>>
    BY <1>0, <1>1, <2>2
    DEF AcpCreate, AcpStatusOnCreate, FreshSession, UcpFresh, AcpTypeOK, ucpVars
  <2>3. CASE /\ ucpTarget # None /\ UcpCreate(ucpTarget, s, cart[active])
             /\ UNCHANGED <<acpVars, platform>>
    <3>1. ucpTarget \in UcpHosts
      BY <1>0, <2>3 DEF TypeOK
    <3>2. /\ \A h \in UcpHosts, r \in Sessions \ {s} : ucpIssued'[h][r] = ucpIssued[h][r]
          /\ \A h \in UcpHosts \ {ucpTarget} : ucpIssued'[h][s] = EmptyCart
          /\ ucpIssued'[ucpTarget][s] = cart[active]
      BY <1>0, <2>3, <3>1 DEF UcpCreate, UcpFresh, UcpTypeOK
    <3> QED
      BY <1>0, <1>1, <2>3, <3>1, <3>2 DEF UcpCreate, FreshSession, acpVars
  <2> QED
    BY <2>1, <2>2, <2>3 DEF InitiateCheckout
<1>3. ASSUME NEW r \in MaybeSession, NEW c \in Carts, CartIsOpened(r, c), r # s
      PROVE  CartIsOpened(r, c)'
  BY <1>0, <1>2, <1>3
  DEF FreshSession, UcpFresh, CartIsOpened, OpenedWith, MaybeSession
<1>4. ASSUME NEW r \in MaybeSession, NEW c \in Carts, CartIsOpened(r, c)
      PROVE  r # s
  BY <1>1, <1>4, CommerceAssumption DEF CartIsOpened, CommerceAssumption
<1>5. ASSUME NEW x \in Slots PROVE CartIsOpened(session[x], cart[x])'
  <2>1. PICK r \in MaybeSession : r = session[x]
    BY <1>0 DEF TypeOK
  <2>2. PICK c \in Carts : c = cart[x]
    BY <1>0 DEF TypeOK
  <2>3. CartIsOpened(r, c)
    BY <2>1, <2>2 DEF CartsMatchSessions
  <2>4. CartIsOpened(r, c)'
    BY <2>3, <1>3, <1>4
  <2>5. CASE session'[x] = session[x]
    BY <1>0, <2>1, <2>2, <2>4, <2>5
    DEF CartIsOpened, OpenedWith, FreshSession, UcpFresh
  <2>6. CASE x = active /\ session'[x] = s
    <3>1. ~FreshSession(s)' /\ OpenedWith(s, cart[x])'
      BY <1>0, <1>2, <2>6 DEF OpenedWith, FreshSession, UcpFresh
    <3> QED
      BY <1>0, <2>6, <3>1 DEF CartIsOpened, OpenedWith, FreshSession, UcpFresh
  <2> QED
    BY <1>0, <2>5, <2>6 DEF InitiateCheckout, LearnSession, TypeOK
<1>6. ASSUME saved # None, NEW d \in Domains
      PROVE  CartIsOpened(saved.session[d], saved.cart[d])'
  <2>1. PICK r \in MaybeSession : r = saved.session[d]
    BY <1>0, <1>6 DEF TypeOK, Snapshots
  <2>2. PICK c \in Carts : c = saved.cart[d]
    BY <1>0, <1>6 DEF TypeOK, Snapshots
  <2>3. CartIsOpened(r, c)
    BY <1>6, <2>1, <2>2 DEF CartsMatchSessions
  <2>4. CartIsOpened(r, c)'
    BY <2>3, <1>3, <1>4
  <2> QED
    BY <1>0, <2>1, <2>2, <2>4 DEF CartIsOpened, OpenedWith, FreshSession, UcpFresh
<1> QED
  BY <1>0, <1>5, <1>6 DEF CartsMatchSessions

\* No step pairs a session with a cart it was not opened with.
LEMMA CartsMatchKept ==
  ASSUME SystemInv, CartsMatchSessions, [Next]_vars PROVE CartsMatchSessions'
BY CartsMatchKeptByOthers, CartsMatchKeptByCheckout

\* A new agent has no session to pair.
LEMMA CartsMatchInit == Init => CartsMatchSessions
BY DEF Init, NewContexts, CartsMatchSessions, CartIsOpened

\* A context, in memory or saved, never holds a checkout session together with a
\* cart the session was not opened with, unless that cart was edited since.
THEOREM SessionsKeepTheirCarts == Spec => []CartsMatchSessions
BY CartsMatchInit, CartsMatchKept, SystemInvAlways, PTL DEF Spec

-------------------------------------------------------------------------------
(* Every reported order lists the items that were charged. *)

\* The order of a given session and number is the only one.
LEMMA TheOrder ==
  ASSUME NEW S, NEW r \in S,
         \A o, q \in S : o.session = q.session /\ o.n = q.n => o = q
  PROVE  (CHOOSE q \in S : q.session = r.session /\ q.n = r.n) = r
OBVIOUS

\* A payment records what was charged, and no other step changes what orders list.
LEMMA RecordedItemsKept ==
  ASSUME SystemInv, SystemInv', RecordedOrdersExist, CartsMatchSessions,
         RecordedItemsAreCharged, [Next]_vars
  PROVE  RecordedItemsAreCharged'
<1> SUFFICES ASSUME NEW x \in Slots, NEW o \in orders'[x], o.session \notin edited'
             PROVE  o.items = ChargedItems(o)'
  BY DEF RecordedItemsAreCharged
<1>0. o.session \notin edited
  BY EditedGrows
<1>1. CASE o \in orders[x]
  <2>1. o \in AgentOrders /\ o.items = ChargedItems(o)
    BY <1>0, <1>1 DEF SystemInv, TypeOK, RecordedItemsAreCharged
  <2>2. CASE o.at = AcpHost
    BY <1>1, <2>1, <2>2, MerchantsRemember
    DEF ChargedItems, RecordedOrdersExist, AgentOrders
  <2>3. CASE o.at # AcpHost
    <3>1. o.at \in UcpHosts
      BY <2>1, <2>3 DEF AgentOrders, Hosts
    <3>2. PICK r \in ucpOrders[o.at] : r.session = o.session /\ r.n = o.n
      BY <1>1, <2>3 DEF RecordedOrdersExist
    <3>3. r \in ucpOrders'[o.at]
      BY <3>1, <3>2, MerchantsRemember
    <3>4. ChargedItems(o) = r.items
      BY <2>3, <3>1, <3>2, TheOrder
      DEF ChargedItems, SystemInv, UcpInv, UcpOrdersAreDistinct
    <3>5. ChargedItems(o)' = r.items
      BY <2>3, <3>1, <3>2, <3>3, TheOrder
      DEF ChargedItems, SystemInv, UcpInv, UcpOrdersAreDistinct
    <3> QED
      BY <2>1, <3>4, <3>5
  <2> QED
    BY <2>2, <2>3
<1>2. CASE o \notin orders[x]
  <2>1. session[active] \in Sessions /\ active \in Slots /\ o.session = session[active]
        /\ o.items = cart[active]
    BY <1>2, NewOrderIsPlaced DEF PlacedOrder
  <2>2. OpenedWith(session[active], cart[active])
    BY <1>0, <2>1, CommerceAssumption
    DEF CartsMatchSessions, CartIsOpened, CommerceAssumption
  <2>3. CASE /\ AcpComplete(session[active])
             /\ o = PlacedOrder(AcpHost, acpCharges[session[active]] + 1)
    <3>1. acpItems'[session[active]] = cart[active]
      BY <2>2, <2>3 DEF AcpComplete, AcpPayable, OpenedWith
    <3> QED
      BY <2>1, <2>3, <3>1 DEF ChargedItems, PlacedOrder
  <2>4. CASE /\ PayUcp /\ ucpTarget \in UcpHosts
             /\ o = PlacedOrder(ucpTarget, ucpCharges[ucpTarget][session[active]] + 1)
    <3> DEFINE r == [session |-> session[active],
                     n |-> ucpCharges[ucpTarget][session[active]] + 1,
                     items |-> cart[active], shipTo |-> address[active]]
    <3>1. UcpItemsToCharge(ucpTarget, session[active], cart[active]) = cart[active]
      BY <2>1, <2>2, <2>4
      DEF UcpItemsToCharge, OpenedWith, SystemInv, UcpInv, UcpOpenIsUnpaid
    <3>2. r \in ucpOrders'[ucpTarget]
      BY <2>4, <3>1 DEF PayUcp, UcpComplete, SystemInv, UcpInv, UcpTypeOK
    <3>3. (CHOOSE q \in ucpOrders'[ucpTarget] : q.session = r.session /\ q.n = r.n) = r
      <4>1. \A p, q \in ucpOrders'[ucpTarget] :
              p.session = q.session /\ p.n = q.n => p = q
        BY <2>4 DEF SystemInv, UcpInv, UcpOrdersAreDistinct
      <4> QED
        BY <3>2, <4>1
    <3>4. /\ o.at = ucpTarget /\ o.session = r.session /\ o.n = r.n /\ o.at # AcpHost
          /\ o.items = r.items
      BY <2>4, AgentAssumption DEF PlacedOrder, AgentAssumption
    <3> HIDE DEF r
    <3>5. ChargedItems(o)' =
            (CHOOSE q \in ucpOrders'[ucpTarget] : q.session = r.session /\ q.n = r.n).items
      BY <3>4 DEF ChargedItems
    <3> QED
      BY <3>3, <3>4, <3>5
  <2> QED
    BY <1>2, <2>3, <2>4, NewOrderIsPlaced
<1> QED
  BY <1>1, <1>2

\* A new agent has no order that could list anything.
LEMMA RecordedItemsInit == Init => RecordedItemsAreCharged
BY DEF Init, NewContexts, RecordedItemsAreCharged

\* An order the agent reports lists the items the merchant charged for, unless
\* its cart was edited after checkout began.
THEOREM ReportedItemsAreCharged == Spec => []RecordedItemsAreCharged
BY RecordedItemsInit, RecordedItemsKept, ReportedOrdersArePlaced, SessionsKeepTheirCarts,
   SystemInvAlways, PTL DEF Spec

-------------------------------------------------------------------------------
(* What a step does to the contexts and to what is saved of them. *)

\* Every tool call takes one of the turn's calls and leaves the turn in progress.
LEMMA ToolCallIsCalling == ASSUME ToolCall PROVE Calling
BY DEF ToolCall, NoEffectCall, DiscoverNothing, DiscoverAdapter, DiscoverUcp,
       DiscoverAcp, SwitchMerchant, ComparePrices, AddToCart, RemoveFromCart, EditCart,
       InitiateCheckout, SubmitShipping, PayAcp, PayUcp

\* A step is a tool call, the end of a turn, a resumption or a crash, or it leaves the
\* contexts and the saved session alone.
LEMMA StepKinds ==
  ASSUME [Next]_vars
  PROVE  \/ ToolCall \/ EndTurn \/ Resume \/ Crash
         \/ /\ UNCHANGED <<contextVars, saved, merchantVars>>
            /\ mode' \in {mode, "run"} \/ Streaming
            /\ pc' = "act" \/ pc # "act" \/ mode = "stream"
<1>1. ASSUME \/ StartStream \/ \E t \in Tasks : StartFresh(t)
             \/ \E n \in 1 .. MaxCalls : TakeTurn(n)
             \/ Finish \/ GiveUp \/ AbandonStream \/ UNCHANGED vars
      PROVE  /\ UNCHANGED <<contextVars, saved, merchantVars>>
             /\ mode' \in {mode, "run"} \/ Streaming
             /\ pc' = "act" \/ pc # "act" \/ mode = "stream"
  BY <1>1
  DEF StartStream, StartFresh, TakeTurn, Finish, GiveUp, AbandonStream, vars, loopVars
<1> QED
  BY <1>1 DEF Next, Agent

\* An agent that has discovered nothing.
NewProcess == active = None /\ protocol = None /\ ucpTarget = None

\* With run() alone and a storage that works, what is saved between turns is what the
\* agent holds; only an agent that was restarted, and has not resumed yet, holds
\* something else.
SavedAtRest ==
  /\ mode = "run"
  /\ pc # "act" => \/ saved # None /\ SavedContextsAreCurrent
                   \/ NewProcess /\ (MayCrash \/ saved = None)

\* The end of a turn saves what the agent holds.
LEMMA EndTurnSaves ==
  ASSUME TypeOK, EndTurn, mode = "run", ~StorageFails
  PROVE  /\ saved' = Snapshot /\ saved' # None /\ SavedContextsAreCurrent'
         /\ pc = "act" /\ pc' = "think"
         /\ UNCHANGED <<contextVars, merchantVars, mode, iteration, task>>
<1>1. saved' = Snapshot /\ UNCHANGED contextVars
  BY DEF EndTurn
<1>2. saved' # None
  BY <1>1, SnapshotType, NullAssumption DEF NullAssumption
<1>3. SavedContextsAreCurrent'
  BY <1>1 DEF SavedContextsAreCurrent, Snapshot, SavedSession, contextVars
<1> QED
  BY <1>1, <1>2, <1>3 DEF EndTurn

\* Resuming gives the contexts that were saved: the agent's own, or a restarted
\* agent's first.
LEMMA ResumeRestores ==
  ASSUME TypeOK, SavedAtRest, Resume
  PROVE  /\ \A d \in Domains : orders'[d] = {}
         /\ pc' = "think" /\ mode' = "run" /\ saved' = saved /\ saved # None
         /\ SavedContextsAreCurrent'
         /\ UNCHANGED <<protocol, ucpTarget, acpBase, merchantVars>>
         /\ \/ UNCHANGED <<active, proto, cart, session, address>>
            \/ MayCrash /\ NewProcess
<1>1. saved \in Snapshots /\ saved # None /\ pc = "idle"
  BY DEF Resume, TypeOK
<1>2. /\ active' = saved.active /\ proto' = saved.proto
      /\ cart' = Restored(cart, saved.cart)
      /\ session' = Restored(session, saved.session)
      /\ address' = Restored(address, saved.address)
      /\ orders' = Restored(orders, [d \in Domains |-> {}])
      /\ saved' = saved
  BY DEF Resume
<1>3. None \notin Domains
  BY AgentAssumption, UcpAssumption DEF AgentAssumption, UcpAssumption, Domains
<1>4. /\ \A d \in Domains : orders'[d] = {}
      /\ SavedContextsAreCurrent'
  BY <1>1, <1>2, <1>3 DEF Restored, SavedContextsAreCurrent, Slots
<1>5. CASE SavedContextsAreCurrent
  <2>1. /\ active' = active /\ proto' = proto
        /\ \A x \in Slots : /\ cart'[x] = cart[x] /\ session'[x] = session[x]
                            /\ address'[x] = address[x]
    BY <1>2, <1>5 DEF Restored, SavedContextsAreCurrent, Slots
  <2>2. /\ cart' = [x \in Slots |-> cart'[x]] /\ cart = [x \in Slots |-> cart[x]]
        /\ session' = [x \in Slots |-> session'[x]]
        /\ session = [x \in Slots |-> session[x]]
        /\ address' = [x \in Slots |-> address'[x]]
        /\ address = [x \in Slots |-> address[x]]
    BY <1>2 DEF Restored, TypeOK
  <2>3. UNCHANGED <<cart, session, address>>
    BY <2>1, <2>2
  <2> QED
    BY <1>1, <1>4, <2>1, <2>3 DEF Resume, merchantVars
<1>6. CASE NewProcess /\ (MayCrash \/ saved = None)
  BY <1>1, <1>4, <1>6 DEF Resume, merchantVars
<1> QED
  BY <1>1, <1>5, <1>6 DEF SavedAtRest

\* A new agent is at rest.
LEMMA SavedAtRestInit == Init => SavedAtRest
BY DEF Init, SavedAtRest, NewProcess

\* Turns end saved, and what happens between them changes nothing that is saved.
LEMMA SavedAtRestKept ==
  ASSUME ~StorageFails, ~Streaming, TypeOK, SavedAtRest, [Next]_vars
  PROVE  SavedAtRest'
<1>1. CASE ToolCall
  BY <1>1, ToolCallIsCalling DEF Calling, SavedAtRest
<1>2. CASE EndTurn
  BY <1>2, EndTurnSaves DEF SavedAtRest
<1>3. CASE Resume
  BY <1>3, ResumeRestores DEF SavedAtRest
<1>4. CASE Crash
  BY <1>4 DEF Crash, SavedAtRest, NewProcess
<1>5. CASE /\ UNCHANGED <<contextVars, saved, merchantVars>>
           /\ mode' \in {mode, "run"} \/ Streaming
           /\ pc' = "act" \/ pc # "act" \/ mode = "stream"
  BY <1>5 DEF SavedAtRest, NewProcess, SavedContextsAreCurrent, contextVars
<1> QED
  BY <1>1, <1>2, <1>3, <1>4, <1>5, StepKinds

\* What is saved is the state of the agent between turns, and one iteration old during
\* one: a crash loses at most the turn in progress.
LEMMA SavedIsCurrentKept ==
  ASSUME ~StorageFails, ~Streaming, SystemInv, SavedAtRest, SavedIsCurrent, [Next]_vars
  PROVE  SavedIsCurrent'
<1>0. TypeOK /\ mode = "run"
  BY DEF SystemInv, SavedAtRest
<1>1. CASE ToolCall
  BY <1>1, ToolCallIsCalling DEF Calling, SavedIsCurrent
<1>2. CASE EndTurn
  <2>1. saved'.task = task /\ saved'.iteration = iteration
    BY <1>0, <1>2, EndTurnSaves DEF Snapshot
  <2> QED
    BY <1>0, <1>2, <2>1, EndTurnSaves DEF SavedIsCurrent
<1>3. CASE Resume
  <2>1. task' = saved.task /\ iteration' = saved.iteration
    BY <1>3 DEF Resume
  <2> QED
    BY <1>0, <1>3, <2>1, ResumeRestores DEF SavedIsCurrent
<1>4. CASE Crash
  BY <1>4 DEF Crash, SavedIsCurrent
<1>5. ASSUME NEW n \in 1 .. MaxCalls, TakeTurn(n) PROVE SavedIsCurrent'
  BY <1>0, <1>5 DEF TakeTurn, IterationAfterThinking, SavedIsCurrent, TypeOK
<1>6. CASE Finish \/ GiveUp \/ \E t \in Tasks : StartFresh(t)
  BY <1>6 DEF Finish, GiveUp, StartFresh, SavedIsCurrent
<1>7. CASE StartStream \/ AbandonStream
  BY <1>0, <1>7 DEF StartStream, AbandonStream
<1>8. CASE UNCHANGED vars
  BY <1>8 DEF vars, loopVars, contextVars, SavedIsCurrent, SavedContextsAreCurrent
<1> QED
  BY <1>1, <1>2, <1>3, <1>4, <1>5, <1>6, <1>7, <1>8 DEF Next, Agent

\* With run() alone and a storage that works, a crash loses at most the turn in
\* progress: what a new process resumes from is the state after the turn before.
THEOREM CrashLosesOneTurn ==
  ASSUME ~StorageFails, ~Streaming PROVE Spec => []SavedIsCurrent
<1>1. Init => SavedIsCurrent
  BY DEF Init, SavedIsCurrent
<1>2. SystemInv => TypeOK
  BY DEF SystemInv
<1> QED
  BY <1>1, <1>2, SavedAtRestInit, SavedAtRestKept, SavedIsCurrentKept, SystemInvAlways,
     PTL DEF Spec

-------------------------------------------------------------------------------
(* Calls and orders go where the context says. *)

\* A domain is known by its own protocol, and what the agent keeps beside its contexts
\* - this.protocol, the UcpClient's merchant, the ACP endpoint - fits the active one.
ContextsAgree ==
  /\ \A d \in UcpHosts : proto[d] \in {None, "ucp"} /\ (proto[d] = "ucp" => ucpTarget = d)
  /\ \A d \in AcpDomains : proto[d] \in {None, "acp"} /\ (proto[d] = "acp" => acpBase)
  /\ active # None => proto[active] # None
  /\ active \in UcpHosts \cup AcpDomains => protocol = proto[active]

\* A new agent knows no domain.
LEMMA ContextsAgreeInit == Init => ContextsAgree
<1>1. None \notin UcpHosts \cup AcpDomains
  BY AgentAssumption, UcpAssumption DEF AgentAssumption, UcpAssumption
<1> QED
  BY <1>1, NullAssumption
  DEF NullAssumption, Protocols, Init, NewContexts, Domains, ContextsAgree

\* A discovery changes the context of its domain alone.
LEMMA NewContextIsAlone ==
  ASSUME TypeOK, NEW d \in Domains, NEW p, NewContext(d, p)
  PROVE  /\ active' = d /\ proto'[d] = p /\ session'[d] = None /\ address'[d] = None
         /\ \A e \in Domains \ {d} : proto'[e] = proto[e]
         /\ \A x \in Slots \ {d} : session'[x] = session[x] /\ address'[x] = address[x]
BY DEF NewContext, ContextSession, TypeOK, Slots

\* Discovering, switching and comparing prices keep the agreement when there is at most
\* one UCP merchant, so that the UcpClient cannot point at another one.
LEMMA DiscoveryKeepsAgreement ==
  ASSUME \A g, h \in UcpHosts : g = h, ~DiscoveryFails, TypeOK, ContextsAgree,
         NEW d \in Domains,
         \/ DiscoverAdapter(d) \/ DiscoverUcp(d) \/ DiscoverAcp(d)
         \/ SwitchMerchant(d) \/ ComparePrices(d)
  PROVE  ContextsAgree'
<1> USE AgentAssumption, UcpAssumption, NullAssumption
    DEF AgentAssumption, UcpAssumption, NullAssumption, Protocols
<1>0. UcpHosts \subseteq Domains /\ AcpDomains \subseteq Domains /\ d # None
  BY DEF Domains
<1>1. CASE DiscoverAdapter(d)
  <2>1. d \notin UcpHosts \cup AcpDomains /\ NewContext(d, "adapter")
        /\ UNCHANGED <<ucpTarget, acpBase>>
    BY <1>1 DEF DiscoverAdapter
  <2> QED
    BY <1>0, <2>1, NewContextIsAlone DEF ContextsAgree
<1>2. CASE DiscoverUcp(d)
  <2>1. d \in UcpHosts /\ NewContext(d, "ucp") /\ ucpTarget' = d /\ protocol' = "ucp"
        /\ UNCHANGED acpBase
    BY <1>2 DEF DiscoverUcp
  <2> QED
    BY <1>0, <2>1, NewContextIsAlone DEF ContextsAgree
<1>3. CASE DiscoverAcp(d)
  <2>1. d \in AcpDomains /\ NewContext(d, "acp") /\ acpBase' = TRUE /\ protocol' = "acp"
        /\ UNCHANGED ucpTarget
    BY <1>3 DEF DiscoverAcp, ProtocolOfAcpContext
  <2> QED
    BY <1>0, <2>1, NewContextIsAlone DEF ContextsAgree
<1>4. CASE SwitchMerchant(d)
  BY <1>0, <1>4 DEF SwitchMerchant, ProtocolAfterSwitch, ContextsAgree
<1>5. CASE ComparePrices(d)
  BY <1>0, <1>5 DEF ComparePrices, ContextsAgree
<1> QED
  BY <1>1, <1>2, <1>3, <1>4, <1>5

\* The other tools leave all of it alone.
LEMMA OtherToolsKeepContexts ==
  ASSUME ToolCall,
         \A d \in Domains : ~(\/ DiscoverAdapter(d) \/ DiscoverUcp(d) \/ DiscoverAcp(d)
                              \/ SwitchMerchant(d) \/ ComparePrices(d))
  PROVE  UNCHANGED <<active, protocol, ucpTarget, proto>> /\ (acpBase => acpBase')
BY DEF ToolCall, NoEffectCall, DiscoverNothing, AddToCart, RemoveFromCart, EditCart,
       InitiateCheckout, SubmitShipping, PayAcp, PayUcp, contextVars

\* No step of a process that is not restarted breaks the agreement.
LEMMA ContextsAgreeKept ==
  ASSUME \A g, h \in UcpHosts : g = h, ~DiscoveryFails, ~MayCrash,
         TypeOK, SavedAtRest, ContextsAgree, [Next]_vars
  PROVE  ContextsAgree'
<1>1. ASSUME NEW d \in Domains,
             \/ DiscoverAdapter(d) \/ DiscoverUcp(d) \/ DiscoverAcp(d)
             \/ SwitchMerchant(d) \/ ComparePrices(d)
      PROVE  ContextsAgree'
  BY <1>1, DiscoveryKeepsAgreement
<1>2. ASSUME UNCHANGED <<active, protocol, ucpTarget, proto>>, acpBase => acpBase'
      PROVE  ContextsAgree'
  BY <1>2 DEF ContextsAgree
<1>3. CASE ToolCall
  BY <1>1, <1>2, <1>3, OtherToolsKeepContexts
<1>4. CASE EndTurn
  BY <1>2, <1>4 DEF EndTurn, contextVars
<1>5. CASE Resume
  BY <1>2, <1>5, ResumeRestores
<1>6. CASE UNCHANGED contextVars
  BY <1>2, <1>6 DEF contextVars
<1> QED
  BY <1>3, <1>4, <1>5, <1>6, StepKinds DEF Crash

\* When they agree, the next call goes to the active merchant.
LEMMA AgreementReaches == TypeOK /\ ContextsAgree => CallsReachActive
<1> SUFFICES ASSUME TypeOK, ContextsAgree, active \in UcpHosts \cup AcpDomains
             PROVE  CheckoutHost = Home(active) /\ CatalogueHost = Home(active)
  BY DEF CallsReachActive
<1>0. active # None /\ proto[active] # None
  BY AgentAssumption, UcpAssumption DEF AgentAssumption, UcpAssumption, ContextsAgree
<1>1. CASE active \in UcpHosts
  BY <1>0, <1>1, AgentAssumption
  DEF AgentAssumption, ContextsAgree, CheckoutHost, CatalogueHost, UsesAcp, UsesAdapter,
      Proto, Home
<1>2. CASE active \in AcpDomains
  BY <1>0, <1>2
  DEF ContextsAgree, CheckoutHost, CatalogueHost, UsesAcp, UsesAdapter, Proto, Home, HasAcp
<1> QED
  BY <1>1, <1>2

\* With at most one UCP merchant, discovery that works and a process that is neither
\* restarted nor used through runStream(), checkout and catalogue calls go to the active
\* merchant, whatever was discovered, switched to, compared and resumed.
THEOREM ActiveMerchantIsCalled ==
  ASSUME \A g, h \in UcpHosts : g = h, ~DiscoveryFails, ~MayCrash, ~StorageFails, ~Streaming
  PROVE  Spec => []CallsReachActive
<1>1. SystemInv => TypeOK
  BY DEF SystemInv
<1> QED
  BY <1>1, SavedAtRestInit, SavedAtRestKept, ContextsAgreeInit, ContextsAgreeKept,
     AgreementReaches, SystemInvAlways, PTL DEF Spec

\* A domain, in memory or saved, is known by its own protocol alone.
DomainsFit(protos, at) ==
  /\ \A d \in UcpHosts : protos[d] \in {None, "ucp"}
  /\ \A d \in AcpDomains : protos[d] \in {None, "acp"}
  /\ at # None => protos[at] # None

OwnersFit ==
  DomainsFit(proto, active) /\ (saved # None => DomainsFit(saved.proto, saved.active))

\* No step makes a domain known by another's protocol, when discovery works.
LEMMA OwnersFitKept ==
  ASSUME ~DiscoveryFails, TypeOK, OwnersFit, [Next]_vars
  PROVE  OwnersFit'
<1> USE AgentAssumption, UcpAssumption, NullAssumption
    DEF AgentAssumption, UcpAssumption, NullAssumption, Protocols
<1>0. UcpHosts \subseteq Domains /\ AcpDomains \subseteq Domains /\ None \notin Domains
  BY DEF Domains
<1>1. CASE saved' = saved /\ DomainsFit(proto', active')
  BY <1>1 DEF OwnersFit, DomainsFit
<1>2. ASSUME UNCHANGED <<active, proto>> PROVE DomainsFit(proto', active')
  BY <1>2 DEF OwnersFit
<1>3. CASE ToolCall
  <2>1. saved' = saved
    BY <1>3, ToolCallIsCalling DEF Calling
  <2>2. ASSUME NEW d \in Domains, DiscoverAdapter(d) \/ DiscoverUcp(d) \/ DiscoverAcp(d)
        PROVE  DomainsFit(proto', active')
    <3>1. PICK p \in Protocols : /\ NewContext(d, p)
                                 /\ d \in UcpHosts => p = "ucp"
                                 /\ d \in AcpDomains => p = "acp"
      BY <2>2 DEF DiscoverAdapter, DiscoverUcp, DiscoverAcp, ProtocolOfAcpContext
    <3>2. /\ active' = d /\ proto'[d] = p
          /\ \A e \in Domains \ {d} : proto'[e] = proto[e]
      BY <3>1, NewContextIsAlone
    <3> QED
      BY <1>0, <3>1, <3>2 DEF OwnersFit, DomainsFit
  <2>3. ASSUME NEW d \in Domains, SwitchMerchant(d) \/ ComparePrices(d)
        PROVE  DomainsFit(proto', active')
    BY <2>3 DEF SwitchMerchant, ComparePrices, OwnersFit, DomainsFit
  <2> QED
    BY <1>1, <1>2, <1>3, <2>1, <2>2, <2>3, OtherToolsKeepContexts
<1>4. CASE EndTurn
  <2>1. /\ UNCHANGED <<active, proto>>
        /\ \/ saved' = saved
           \/ saved'.proto = proto /\ saved'.active = active
    BY <1>4 DEF EndTurn, contextVars, Snapshot
  <2> QED
    BY <2>1 DEF OwnersFit, DomainsFit
<1>5. CASE Resume
  <2>1. proto' = saved.proto /\ active' = saved.active /\ saved # None
    BY <1>5 DEF Resume
  <2> QED
    BY <1>1, <1>5, <2>1 DEF Resume, OwnersFit
<1>6. CASE Crash
  <2>1. saved' = saved /\ active' = None /\ \A d \in Domains : proto'[d] = None
    BY <1>6 DEF Crash, NewContexts
  <2> QED
    BY <1>0, <2>1 DEF OwnersFit, DomainsFit
<1>7. CASE UNCHANGED <<contextVars, saved, merchantVars>>
  BY <1>1, <1>2, <1>7 DEF contextVars
<1> QED
  BY <1>3, <1>4, <1>5, <1>6, <1>7, StepKinds

\* A payment goes to the merchant in whose context it is made.
LEMMA OrdersAtOwnerKept ==
  ASSUME \A g, h \in UcpHosts : g = h, AdapterDomains = {}, SystemInv, OwnersFit,
         OrdersAtOwner, [Next]_vars
  PROVE  OrdersAtOwner'
<1> SUFFICES ASSUME NEW d \in Domains, NEW o \in orders'[d], o \notin orders[d]
             PROVE  o.at = Home(d)
  BY DEF OrdersAtOwner
<1>0. d \in Slots /\ d # None
  BY AgentAssumption, UcpAssumption DEF AgentAssumption, UcpAssumption, Domains, Slots
<1>1. d = active
  BY <1>0, NewOrderIsPlaced
<1>2. \/ PayAcp /\ o.at = AcpHost
      \/ PayUcp /\ ucpTarget \in UcpHosts /\ o.at = ucpTarget
  BY <1>0, NewOrderIsPlaced DEF PlacedOrder
<1>3. d \in AcpDomains \/ d \in UcpHosts \ AcpDomains
  BY AgentAssumption DEF AgentAssumption, Domains
<1>4. proto[d] # None /\ Proto = proto[d]
  BY <1>0, <1>1 DEF OwnersFit, DomainsFit, Proto
<1>5. CASE d \in AcpDomains
  BY <1>2, <1>4, <1>5 DEF OwnersFit, DomainsFit, PayUcp, UsesAcp, HasAcp, Home
<1>6. CASE d \in UcpHosts \ AcpDomains
  BY <1>2, <1>4, <1>6 DEF OwnersFit, DomainsFit, PayAcp, UsesAcp, Home
<1> QED
  BY <1>3, <1>5, <1>6

\* With at most one UCP merchant, no adapters, whose orders the UcpClient places, and
\* discovery that works, the order in a merchant's context was placed with that merchant,
\* through lost requests, failed saves, crashes, resumptions and streams.
THEOREM OrdersArePlacedWithTheirMerchant ==
  ASSUME \A g, h \in UcpHosts : g = h, AdapterDomains = {}, ~DiscoveryFails
  PROVE  Spec => []OrdersAtOwner
<1>1. Init => OrdersAtOwner /\ OwnersFit
  BY DEF Init, NewContexts, OrdersAtOwner, OwnersFit, DomainsFit, Slots, Domains
<1>2. SystemInv => TypeOK
  BY DEF SystemInv
<1> QED
  BY <1>1, <1>2, OwnersFitKept, OrdersAtOwnerKept, SystemInvAlways, PTL DEF Spec

-------------------------------------------------------------------------------
(* One order per UCP checkout session. *)

\* Contexts, in memory or saved, speak UCP only for the UCP merchant and ACP only when an
\* endpoint is configured.
ProtocolsFit(protos, at) ==
  /\ \A d \in Domains : \/ protos[d] = None
                        \/ protos[d] = "ucp" /\ d \in UcpHosts
                        \/ protos[d] = "acp" /\ HasAcp
  /\ at # None => protos[at] # None

\* A session that the UCP merchant's context holds, while the UcpClient points at the
\* merchant, has not been paid: a process that was restarted resumes sessions that were,
\* but must discover the merchant before it can pay, and that drops them.
HeldIsUnpaid ==
  ucpTarget # None =>
    \A h \in UcpHosts :
      proto[h] = "ucp" /\ session[h] # None =>
        \A g \in UcpHosts : ucpCharges[g][session[h]] = 0

UcpPaymentInv ==
  /\ ProtocolsFit(proto, active)
  /\ saved # None => ProtocolsFit(saved.proto, saved.active)
  /\ active = None => ucpTarget = None
  /\ HeldIsUnpaid
  /\ UcpPaidOnce

\* A new agent holds no session.
LEMMA UcpPaymentInit == Init => UcpPaymentInv
<1>1. \A d \in UcpHosts : d \in Domains
  BY DEF Domains
<1> QED
  BY <1>1 DEF Init, UcpInit, NewContexts, UcpPaymentInv, ProtocolsFit, HeldIsUnpaid,
              UcpPaidOnce

\* Neither discovering nor switching changes the charges, and a discovered merchant's
\* context holds no session.
LEMMA UcpPaymentDiscovery ==
  ASSUME AdapterDomains = {}, TypeOK, UcpPaymentInv, NEW d \in Domains,
         \A g, h \in UcpHosts : g = h,
         \/ DiscoverAdapter(d) \/ DiscoverUcp(d) \/ DiscoverAcp(d)
         \/ SwitchMerchant(d) \/ ComparePrices(d)
  PROVE  UcpPaymentInv'
<1> USE NullAssumption, AgentAssumption, UcpAssumption
    DEF NullAssumption, AgentAssumption, UcpAssumption, Protocols
<1>0. /\ UcpHosts \subseteq Domains /\ d # None /\ d \in Slots
      /\ Domains \subseteq Slots
  BY DEF Domains, Slots
<1>1. UNCHANGED <<saved, ucpCharges>>
  BY DEF DiscoverAdapter, DiscoverUcp, DiscoverAcp, SwitchMerchant, ComparePrices,
         Calling, merchantVars, ucpVars
<1>2. CASE DiscoverUcp(d) \/ DiscoverAcp(d)
  <2>1. PICK p \in {"ucp", "acp"} : /\ NewContext(d, p)
                                    /\ p = "ucp" => d \in UcpHosts
                                    /\ p = "acp" => HasAcp /\ ucpTarget' = ucpTarget
    BY <1>2 DEF DiscoverUcp, DiscoverAcp, ProtocolOfAcpContext
  <2>2. /\ active' = d /\ proto'[d] = p /\ session'[d] = None
        /\ \A e \in Domains \ {d} : proto'[e] = proto[e] /\ session'[e] = session[e]
    BY <1>0, <2>1, NewContextIsAlone
  <2>3. ProtocolsFit(proto', active')
    BY <1>0, <2>1, <2>2 DEF ProtocolsFit, UcpPaymentInv
  <2>4. HeldIsUnpaid'
    BY <1>0, <1>1, <2>1, <2>2 DEF HeldIsUnpaid, UcpPaymentInv
  <2> QED
    BY <1>0, <1>1, <2>2, <2>3, <2>4 DEF UcpPaymentInv, ProtocolsFit, UcpPaidOnce
<1>3. CASE SwitchMerchant(d) \/ ComparePrices(d)
  <2>1. /\ UNCHANGED <<ucpTarget, proto, session>>
        /\ active' = active \/ (active' = d /\ proto[d] # None)
    BY <1>3 DEF SwitchMerchant, ComparePrices
  <2> QED
    BY <1>0, <1>1, <2>1 DEF UcpPaymentInv, ProtocolsFit, HeldIsUnpaid, UcpPaidOnce
<1> QED
  BY <1>2, <1>3 DEF DiscoverAdapter

\* A new session has no charges.
LEMMA UcpPaymentCheckout ==
  ASSUME TypeOK, UcpPaymentInv, NEW s \in Sessions, InitiateCheckout(s)
  PROVE  UcpPaymentInv'
<1>1. /\ UNCHANGED <<saved, ucpCharges, active, ucpTarget, proto>>
      /\ \A g \in UcpHosts : ucpCharges[g][s] = 0
      /\ session' = [session EXCEPT ![active] = s] \/ UNCHANGED session
  BY DEF InitiateCheckout, Calling, LearnSession, FreshSession, UcpFresh, UcpCreate, ucpVars
<1>2. \A h \in UcpHosts : session'[h] \in {s, session[h]}
  BY <1>1 DEF TypeOK, Slots, Domains
<1> QED
  BY <1>1, <1>2 DEF UcpPaymentInv, ProtocolsFit, HeldIsUnpaid, UcpPaidOnce

\* An answered payment at the UCP merchant is its session's first, and ends it.
LEMMA UcpPaymentPaid ==
  ASSUME \A g, h \in UcpHosts : g = h, ~Lossy, AllTypesOK, UcpPaymentInv, PayUcp
  PROVE  UcpPaymentInv'
<1> USE DEF AllTypesOK
<1>1. /\ session[active] \in Sessions /\ ucpTarget \in UcpHosts /\ active \in Slots
      /\ ~UsesAcp /\ ucpTarget # None
  BY PaymentTypes DEF PayUcp
<1>2. active # None /\ active \in Domains
  BY <1>1 DEF UcpPaymentInv, Slots
<1>3. proto[active] = "ucp" /\ active \in UcpHosts
  BY <1>1, <1>2 DEF UcpPaymentInv, ProtocolsFit, UsesAcp, Proto
<1>4. \A g \in UcpHosts : ucpCharges[g][session[active]] = 0
  BY <1>1, <1>2, <1>3, CommerceAssumption
  DEF UcpPaymentInv, HeldIsUnpaid, CommerceAssumption
<1>5. /\ UNCHANGED <<saved, active, ucpTarget, proto>>
      /\ session' = [session EXCEPT ![active] = None]
      /\ ucpCharges' = [ucpCharges EXCEPT ![ucpTarget][session[active]] = 1]
  <2>1. UcpComplete(ucpTarget, session[active], cart[active], address[active])
    BY DEF PayUcp
  <2>2. ucpCharges[ucpTarget][session[active]] = 0
    BY <1>1, <1>4
  <2> QED
    BY <2>1, <2>2
    DEF PayUcp, UcpComplete, Calling, RecordOrder, SessionAfterPayment
<1>6. UcpPaidOnce'
  <2> SUFFICES ASSUME NEW s \in Sessions, NEW h \in UcpHosts PROVE ucpCharges'[h][s] <= 1
    BY DEF UcpPaidOnce
  <2>1. ucpCharges'[h][s] \in {1, ucpCharges[h][s]}
    BY <1>1, <1>5 DEF UcpTypeOK
  <2>2. ucpCharges[h][s] <= 1
    BY DEF UcpPaymentInv, UcpPaidOnce
  <2> QED
    BY <2>1, <2>2
<1>7. HeldIsUnpaid'
  <2>1. \A h \in UcpHosts : session'[h] = None
    BY <1>1, <1>3, <1>5 DEF TypeOK
  <2> QED
    BY <2>1 DEF HeldIsUnpaid
<1> QED
  BY <1>5, <1>6, <1>7 DEF UcpPaymentInv, ProtocolsFit

\* The other tools neither charge nor add a session to a context.
LEMMA UcpPaymentOtherTools ==
  ASSUME AllTypesOK, UcpPaymentInv, ToolCall, ~PayUcp,
         \A d \in Domains : ~(\/ DiscoverAdapter(d) \/ DiscoverUcp(d) \/ DiscoverAcp(d)
                              \/ SwitchMerchant(d) \/ ComparePrices(d)),
         \A s \in Sessions : ~InitiateCheckout(s)
  PROVE  UcpPaymentInv'
<1>1. UNCHANGED <<saved, active, ucpTarget, proto, ucpCharges>>
  BY DEF ToolCall, NoEffectCall, DiscoverNothing, AddToCart, RemoveFromCart, EditCart,
         SubmitShipping, PayAcp, contextVars, merchantVars, ucpVars, Calling
<1>2. \A h \in UcpHosts : session'[h] \in {session[h], None}
  <2>1. session' = session \/ session' = [session EXCEPT ![active] = None]
    BY DEF ToolCall, NoEffectCall, DiscoverNothing, AddToCart, RemoveFromCart, EditCart,
           SubmitShipping, PayAcp, RecordOrder, SessionAfterPayment, contextVars
  <2> QED
    BY <2>1 DEF AllTypesOK, TypeOK, Slots, Domains
<1> QED
  BY <1>1, <1>2 DEF UcpPaymentInv, ProtocolsFit, HeldIsUnpaid, UcpPaidOnce

\* No step, of an agent that may crash and resume, takes a second order for a session.
LEMMA UcpPaymentKept ==
  ASSUME \A g, h \in UcpHosts : g = h, AdapterDomains = {}, ~Lossy, ~StorageFails,
         ~Streaming, AllTypesOK, SavedAtRest, UcpPaymentInv, [Next]_vars
  PROVE  UcpPaymentInv'
<1> USE DEF AllTypesOK
<1>1. CASE ToolCall
  BY <1>1, UcpPaymentDiscovery, UcpPaymentCheckout, UcpPaymentPaid, UcpPaymentOtherTools
<1>2. CASE EndTurn
  <2>1. /\ UNCHANGED <<active, ucpTarget, proto, session, ucpCharges>>
        /\ saved'.proto = proto /\ saved'.active = active
    BY <1>2, EndTurnSaves DEF SavedAtRest, contextVars, merchantVars, ucpVars, Snapshot
  <2> QED
    BY <2>1 DEF UcpPaymentInv, ProtocolsFit, HeldIsUnpaid, UcpPaidOnce
<1>3. CASE Resume
  <2>1. UNCHANGED <<saved, ucpTarget, ucpCharges>> /\ saved # None
    BY <1>3, ResumeRestores DEF merchantVars, ucpVars
  <2>2. proto' = saved.proto /\ active' = saved.active
    BY <1>3 DEF Resume
  <2>3. \/ UNCHANGED <<active, proto, session>>
        \/ ucpTarget = None
    BY <1>3, ResumeRestores DEF NewProcess
  <2>4. ProtocolsFit(proto', active')
    BY <2>1, <2>2 DEF UcpPaymentInv
  <2> QED
    BY <2>1, <2>3, <2>4 DEF UcpPaymentInv, ProtocolsFit, HeldIsUnpaid, UcpPaidOnce
<1>4. CASE Crash
  <2>1. /\ active' = None /\ ucpTarget' = None /\ UNCHANGED <<saved, ucpCharges>>
        /\ \A d \in Domains : proto'[d] = None
    BY <1>4 DEF Crash, NewContexts, merchantVars, ucpVars
  <2> QED
    BY <2>1 DEF UcpPaymentInv, ProtocolsFit, HeldIsUnpaid, UcpPaidOnce
<1>5. CASE UNCHANGED <<contextVars, saved, merchantVars>>
  BY <1>5 DEF contextVars, merchantVars, ucpVars, UcpPaymentInv, ProtocolsFit,
              HeldIsUnpaid, UcpPaidOnce
<1> QED
  BY <1>1, <1>2, <1>3, <1>4, <1>5, StepKinds

\* With at most one UCP merchant, no adapters, no lost answers, run() alone and a storage
\* that works, no checkout session is paid twice, though the process may stop between any
\* two tool calls and resume a session that it had paid for.
THEOREM UcpSessionsArePaidOnce ==
  ASSUME \A g, h \in UcpHosts : g = h, AdapterDomains = {}, ~Lossy, ~StorageFails,
         ~Streaming
  PROVE  Spec => []UcpPaidOnce
<1>1. AllTypesOK => TypeOK
  BY DEF AllTypesOK
<1>2. UcpPaymentInv => UcpPaidOnce
  BY DEF UcpPaymentInv
<1> QED
  BY <1>1, <1>2, SavedAtRestInit, SavedAtRestKept, UcpPaymentInit, UcpPaymentKept,
     SystemInvAlways, SystemInvTypes, PTL DEF Spec

-------------------------------------------------------------------------------
(* ACP orders are sent where the agent says. *)

\* Before a merchant is discovered no protocol is in use.
UndiscoveredIsBlank ==
  active = None => protocol = None /\ \A d \in Domains : proto[d] = None

\* No two contexts hold one session.
SessionsAreApart ==
  \A x, y \in Slots : session[x] # None /\ session[x] = session[y] => x = y

\* Who holds a session of the ACP merchant is an ACP context, so that the merchant is
\* told of every address it is given; a session that is ready for payment has that address.
AddressesAgree ==
  \A x \in Slots : session[x] # None =>
    /\ acpStatus[session[x]] # "none" => x # None /\ proto[x] = "acp" /\ HasAcp
    /\ acpStatus[session[x]] = "ready_for_payment" /\ address[x] # None =>
         acpShipTo[session[x]] = address[x]

AddressInv == UndiscoveredIsBlank /\ SessionsAreApart /\ AddressesAgree

\* A new agent holds no session.
LEMMA AddressInit == Init => AddressInv
BY DEF Init, NewContexts, AddressInv, UndiscoveredIsBlank, SessionsAreApart, AddressesAgree

\* A discovery drops the domain's session and address.
LEMMA AddressDiscovery ==
  ASSUME TypeOK, AddressInv, NEW d \in Domains,
         \/ DiscoverAdapter(d) \/ DiscoverUcp(d) \/ DiscoverAcp(d)
         \/ SwitchMerchant(d) \/ ComparePrices(d)
  PROVE  AddressInv'
<1>0. d # None /\ d \in Slots /\ \A x \in Slots : x # None => x \in Domains
  BY AgentAssumption, UcpAssumption DEF AgentAssumption, UcpAssumption, Domains, Slots
<1>1. UNCHANGED <<acpStatus, acpShipTo>>
  BY DEF DiscoverAdapter, DiscoverUcp, DiscoverAcp, SwitchMerchant, ComparePrices,
         merchantVars, acpVars
<1>2. CASE DiscoverAdapter(d) \/ DiscoverUcp(d) \/ DiscoverAcp(d)
  <2>1. \E p : NewContext(d, p)
    BY <1>2 DEF DiscoverAdapter, DiscoverUcp, DiscoverAcp
  <2>2. /\ active' = d /\ session'[d] = None
        /\ \A e \in Domains \ {d} : proto'[e] = proto[e]
        /\ \A x \in Slots \ {d} : session'[x] = session[x] /\ address'[x] = address[x]
    BY <2>1, NewContextIsAlone
  <2>3. SessionsAreApart'
    BY <2>2 DEF AddressInv, SessionsAreApart
  <2>4. AddressesAgree'
    <3> SUFFICES ASSUME NEW x \in Slots, session'[x] # None
                 PROVE  /\ acpStatus[session[x]] # "none" =>
                             x # None /\ proto'[x] = "acp" /\ HasAcp
                        /\ /\ acpStatus[session[x]] = "ready_for_payment"
                           /\ address[x] # None
                           => acpShipTo[session[x]] = address[x]
      BY <1>1, <2>2 DEF AddressesAgree
    <3>1. x # d /\ session[x] # None
      BY <2>2
    <3> QED
      BY <1>0, <2>2, <3>1 DEF AddressInv, AddressesAgree
  <2> QED
    BY <1>0, <2>2, <2>3, <2>4 DEF AddressInv, UndiscoveredIsBlank
<1>3. CASE SwitchMerchant(d)
  BY <1>0, <1>1, <1>3
  DEF SwitchMerchant, AddressInv, UndiscoveredIsBlank, SessionsAreApart, AddressesAgree
<1>4. CASE ComparePrices(d)
  BY <1>0, <1>1, <1>4, NullAssumption
  DEF ComparePrices, AddressInv, UndiscoveredIsBlank, SessionsAreApart, AddressesAgree,
      NullAssumption, Protocols
<1> QED
  BY <1>2, <1>3, <1>4

\* A session of the ACP merchant is in a context whose calls go to that merchant.
LEMMA AcpHolderUsesAcp ==
  ASSUME AddressInv, active \in Slots, session[active] # None,
         acpStatus[session[active]] # "none"
  PROVE  UsesAcp
BY DEF AddressInv, AddressesAgree, UsesAcp, Proto

\* A new session is in no other context, and not ready for payment.
LEMMA AddressCheckout ==
  ASSUME SystemInv, CartsMatchSessions, AddressInv, NEW s \in Sessions, InitiateCheckout(s)
  PROVE  AddressInv'
<1>0. TypeOK /\ AcpTypeOK /\ s # None
  BY CommerceAssumption DEF SystemInv, AcpInv, CommerceAssumption
<1>1. /\ UNCHANGED <<active, protocol, proto, address>>
      /\ session' = [session EXCEPT ![active] = s] \/ UNCHANGED session
      /\ FreshSession(s) /\ active \in Slots
  BY <1>0 DEF InitiateCheckout, LearnSession, TypeOK
<1>2. \A x \in Slots : session[x] # None => session[x] # s /\ session[x] \in Sessions
  BY <1>0, <1>1 DEF CartsMatchSessions, CartIsOpened, TypeOK, MaybeSession
<1>3. /\ \A r \in Sessions \ {s} :
           acpStatus'[r] = acpStatus[r] /\ acpShipTo'[r] = acpShipTo[r]
      /\ \/ acpStatus'[s] = "none"
         \/ acpStatus'[s] = "not_ready_for_payment" /\ UsesAcp
  <2>1. CASE UNCHANGED acpVars
    BY <1>1, <2>1 DEF acpVars, FreshSession
  <2>2. CASE UsesAcp /\ AcpCreate(s, cart[active], None)
    BY <1>0, <2>2 DEF AcpCreate, AcpStatusOnCreate, AcpTypeOK
  <2> QED
    BY <2>1, <2>2 DEF InitiateCheckout
<1>4. UsesAcp => active # None /\ proto[active] = "acp" /\ HasAcp
  BY NullAssumption
  DEF UsesAcp, Proto, AddressInv, UndiscoveredIsBlank, NullAssumption, Protocols
<1>5. /\ \A x \in Slots : \/ session'[x] = session[x]
                          \/ x = active /\ session'[x] = s
  BY <1>0, <1>1 DEF TypeOK
<1>6. SessionsAreApart'
  BY <1>2, <1>5 DEF AddressInv, SessionsAreApart
<1>7. AddressesAgree'
  <2> SUFFICES ASSUME NEW x \in Slots, session'[x] # None
               PROVE  /\ acpStatus'[session'[x]] # "none" =>
                           x # None /\ proto[x] = "acp" /\ HasAcp
                      /\ /\ acpStatus'[session'[x]] = "ready_for_payment"
                         /\ address[x] # None
                         => acpShipTo'[session'[x]] = address[x]
    BY <1>1 DEF AddressesAgree
  <2>1. CASE session'[x] = session[x]
    BY <1>2, <1>3, <2>1 DEF AddressInv, AddressesAgree
  <2>2. CASE x = active /\ session'[x] = s
    BY <1>3, <1>4, <2>2
  <2> QED
    BY <1>5, <2>1, <2>2
<1> QED
  BY <1>1, <1>6, <1>7 DEF AddressInv, UndiscoveredIsBlank

\* When no request is lost the merchant has the address that the agent has, unless it
\* takes no address any more, and then no payment either.
LEMMA AddressShipping ==
  ASSUME ~Lossy, SystemInv, AddressInv, NEW a \in Addresses, SubmitShipping(a)
  PROVE  AddressInv'
<1>0. TypeOK /\ AcpTypeOK
  BY DEF SystemInv, AcpInv
<1>1. /\ UNCHANGED <<active, protocol, proto, session>> /\ active \in Slots
      /\ session[active] # None /\ session[active] \in Sessions
      /\ address' = [address EXCEPT ![active] = a]
  BY <1>0 DEF SubmitShipping, AddressAfterSubmit, TypeOK, MaybeSession
<1>2. \A x \in Slots \ {active} :
        address'[x] = address[x] /\ (session[x] # session[active] \/ session[x] = None)
  BY <1>0, <1>1 DEF TypeOK, AddressInv, SessionsAreApart
<1>3. CASE UsesAcp /\ AcpUpdate(session[active], a)
  <2>1. /\ acpStatus[session[active]] # "none"
        /\ acpShipTo'[session[active]] = a
        /\ \A r \in Sessions \ {session[active]} :
             acpStatus'[r] = acpStatus[r] /\ acpShipTo'[r] = acpShipTo[r]
    BY <1>0, <1>1, <1>3 DEF AcpUpdate, AcpUpdatable, AcpTypeOK
  <2>2. address'[active] = a
    BY <1>0, <1>1 DEF TypeOK
  <2>3. AddressesAgree'
    <3> SUFFICES ASSUME NEW x \in Slots, session[x] # None
                 PROVE  /\ acpStatus'[session[x]] # "none" =>
                             x # None /\ proto[x] = "acp" /\ HasAcp
                        /\ /\ acpStatus'[session[x]] = "ready_for_payment"
                           /\ address'[x] # None
                           => acpShipTo'[session[x]] = address'[x]
      BY <1>1 DEF AddressesAgree
    <3>1. CASE x = active
      BY <1>1, <2>1, <2>2, <3>1 DEF AddressInv, AddressesAgree
    <3>2. CASE x # active
      <4>1. session[x] \in Sessions \ {session[active]} /\ address'[x] = address[x]
        BY <1>0, <1>2, <3>2 DEF TypeOK, MaybeSession
      <4> QED
        BY <2>1, <4>1 DEF AddressInv, AddressesAgree
    <3> QED
      BY <3>1, <3>2
  <2> QED
    BY <1>1, <2>3 DEF AddressInv, UndiscoveredIsBlank, SessionsAreApart
<1>4. CASE /\ UsesAcp => Lossy \/ acpStatus[session[active]] \notin AcpUpdatable
           /\ UNCHANGED merchantVars
  <2>1. acpStatus[session[active]] # "ready_for_payment"
    BY <1>1, <1>4, AcpHolderUsesAcp DEF AcpUpdatable
  <2> QED
    BY <1>1, <1>2, <1>4, <2>1
    DEF AddressInv, UndiscoveredIsBlank, SessionsAreApart, AddressesAgree, merchantVars,
        acpVars
<1> QED
  BY <1>3, <1>4 DEF SubmitShipping

\* A payment leaves the session or the session's status behind.
LEMMA AddressPayment ==
  ASSUME SystemInv, AddressInv, PayAcp \/ PayUcp
  PROVE  AddressInv'
<1>0. TypeOK /\ AcpTypeOK /\ AllTypesOK
  BY SystemInvTypes DEF SystemInv, AcpInv
<1>1. /\ UNCHANGED <<active, protocol, proto, acpShipTo>>
      /\ active \in Slots /\ session[active] \in Sessions
      /\ \/ UNCHANGED <<session, address>>
         \/ /\ session' = [session EXCEPT ![active] = None]
            /\ address' = [address EXCEPT ![active] = None]
  BY <1>0, PaymentTypes
  DEF PayAcp, PayUcp, AnsweredPayment, AcpComplete, AcpDecline, acpVars, RecordOrder,
      SessionAfterPayment
<1>2. \/ UNCHANGED acpStatus
      \/ /\ acpStatus[session[active]] # "none"
         /\ \E t \in {"completed", "not_ready_for_payment"} :
              acpStatus' = [acpStatus EXCEPT ![session[active]] = t]
  BY DEF PayAcp, PayUcp, AnsweredPayment, AcpComplete, AcpDecline, AcpPayable,
         AcpStatusOnDecline, acpVars
<1>3. \A r \in Sessions : \/ acpStatus'[r] = acpStatus[r]
                          \/ /\ acpStatus[r] # "none"
                             /\ acpStatus'[r] # "ready_for_payment"
  BY <1>0, <1>1, <1>2 DEF AcpTypeOK
<1>4. \A x \in Slots : \/ session'[x] = None
                       \/ session'[x] = session[x] /\ address'[x] = address[x]
  BY <1>0, <1>1 DEF TypeOK
<1>5. AddressesAgree'
  <2> SUFFICES ASSUME NEW x \in Slots, session'[x] # None
               PROVE  /\ acpStatus'[session'[x]] # "none" =>
                           x # None /\ proto[x] = "acp" /\ HasAcp
                      /\ /\ acpStatus'[session'[x]] = "ready_for_payment"
                         /\ address'[x] # None
                         => acpShipTo[session'[x]] = address'[x]
    BY <1>1 DEF AddressesAgree
  <2>1. session'[x] = session[x] /\ address'[x] = address[x] /\ session[x] \in Sessions
    BY <1>0, <1>4 DEF TypeOK, MaybeSession
  <2> QED
    BY <1>3, <2>1 DEF AddressInv, AddressesAgree
<1> QED
  BY <1>1, <1>4, <1>5 DEF AddressInv, UndiscoveredIsBlank, SessionsAreApart

\* No step of a process that is not restarted lets agent and ACP merchant disagree.
LEMMA AddressKept ==
  ASSUME ~Lossy, ~MayCrash, SystemInv, SavedAtRest, CartsMatchSessions, AddressInv,
         [Next]_vars
  PROVE  AddressInv'
<1>0. TypeOK
  BY DEF SystemInv
<1>1. ASSUME UNCHANGED <<active, protocol, proto, session, address, acpStatus, acpShipTo>>
      PROVE  AddressInv'
  BY <1>1 DEF AddressInv, UndiscoveredIsBlank, SessionsAreApart, AddressesAgree
<1>2. CASE ToolCall
  <2>1. ASSUME \/ NoEffectCall \/ DiscoverNothing
               \/ \E p \in Products : AddToCart(p) \/ RemoveFromCart(p)
        PROVE  UNCHANGED <<active, protocol, proto, session, address, acpStatus, acpShipTo>>
    BY <2>1 DEF NoEffectCall, DiscoverNothing, AddToCart, RemoveFromCart, EditCart,
                contextVars, merchantVars, acpVars
  <2> QED
    BY <1>0, <1>1, <1>2, <2>1, AddressDiscovery, AddressCheckout, AddressShipping,
       AddressPayment
    DEF ToolCall
<1>3. CASE EndTurn
  BY <1>1, <1>3 DEF EndTurn, contextVars, merchantVars, acpVars
<1>4. CASE Resume
  BY <1>0, <1>1, <1>4, ResumeRestores DEF merchantVars, acpVars
<1>5. CASE UNCHANGED <<contextVars, saved, merchantVars>>
  BY <1>1, <1>5 DEF contextVars, merchantVars, acpVars
<1> QED
  BY <1>2, <1>3, <1>4, <1>5, StepKinds DEF Crash

\* A completed session keeps its address.
LEMMA CompletedKeepsAddress ==
  ASSUME SystemInv, [Next]_vars, NEW s \in Sessions, acpStatus[s] = "completed"
  PROVE  acpShipTo'[s] = acpShipTo[s]
<1>0. AcpTypeOK
  BY DEF SystemInv, AcpInv
<1>1. [AcpNext]_acpVars
  BY SystemInvTypes, AgentStepIsAcpStep
<1> QED
  BY <1>0, <1>1
  DEF AcpNext, AcpCreate, AcpUpdate, AcpComplete, AcpDecline, AcpCancel, AcpUpdatable,
      acpVars, AcpTypeOK

\* An order is recorded with the address its session was paid with.
LEMMA RecordedAddressKept ==
  ASSUME SystemInv, AddressInv, RecordedOrdersExist, RecordedAddressIsUsed, [Next]_vars
  PROVE  RecordedAddressIsUsed'
<1> SUFFICES ASSUME NEW x \in Slots, NEW o \in orders'[x], o.at = AcpHost
             PROVE  acpShipTo'[o.session] = o.shipTo
  BY DEF RecordedAddressIsUsed
<1>1. CASE o \in orders[x]
  <2>1. o.session \in Sessions
    BY <1>1 DEF SystemInv, TypeOK, AgentOrders
  <2> QED
    BY <1>1, <2>1, CompletedKeepsAddress DEF RecordedOrdersExist, RecordedAddressIsUsed
<1>2. CASE o \notin orders[x]
  <2>1. /\ x = active /\ session[active] \in Sessions /\ address[active] \in Addresses
        /\ AcpComplete(session[active])
        /\ o.session = session[active] /\ o.shipTo = address[active]
    BY <1>2, NewOrderIsPlaced, AgentAssumption DEF AgentAssumption, PlacedOrder
  <2>2. acpShipTo[session[active]] = address[active]
    BY <2>1, CommerceAssumption
    DEF AddressInv, AddressesAgree, AcpComplete, AcpPayable, CommerceAssumption
  <2> QED
    BY <2>1, <2>2 DEF AcpComplete
<1> QED
  BY <1>1, <1>2

\* When no request is lost, with run() alone, a storage that works and a process that is
\* not restarted, an order the agent reports for the ACP merchant is sent where it says.
THEOREM ReportedAddressIsUsed ==
  ASSUME ~Lossy, ~MayCrash, ~StorageFails, ~Streaming
  PROVE  Spec => []RecordedAddressIsUsed
<1>1. Init => RecordedAddressIsUsed
  BY DEF Init, NewContexts, RecordedAddressIsUsed
<1>2. SystemInv => TypeOK
  BY DEF SystemInv
<1> QED
  BY <1>1, <1>2, SavedAtRestInit, SavedAtRestKept, AddressInit, AddressKept,
     RecordedAddressKept, ReportedOrdersArePlaced, SessionsKeepTheirCarts,
     SystemInvAlways, PTL DEF Spec
===============================================================================
