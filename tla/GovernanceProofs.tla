--------------------------- MODULE GovernanceProofs ---------------------------
(***************************************************************************)
(* Theorems about the governance plugins, for any chain of them, any       *)
(* merchants, limits and thresholds.                                       *)
(***************************************************************************)
EXTENDS Governance, FiniteSetTheorems, TLAPS

\* The state a save keeps, as one record.
Current ==
  [active |-> active, cart |-> cart, checkout |-> checkout, edited |-> edited,
   requests |-> requests, tag |-> tag, counter |-> counter]

\* The context of a merchant just met is a context.
LEMMA FreshIsContext ==
  ASSUME NEW m \in Merchants PROVE Fresh(m) \in Contexts
BY GovernanceAssumption DEF GovernanceAssumption, Fresh, Contexts, Amounts

\* The fields of a context, one by one.
LEMMA ContextFields ==
  ASSUME NEW c, c \in Contexts
  PROVE  /\ c.active \in Merchants
         /\ c.cart \in [Merchants -> Amounts]
         /\ c.checkout \in [Merchants -> SessionIds \cup {None}]
         /\ c.edited \in [Merchants -> BOOLEAN] /\ c.requests \subseteq Requests
         /\ c.tag \in [Merchants -> Nat \cup {None}] /\ c.counter \in Nat
BY DEF Contexts

\* TypeOK with the fields apart, and finitely many payments.
Typed ==
  /\ active \in Merchants
  /\ cart \in [Merchants -> Amounts]
  /\ checkout \in [Merchants -> SessionIds \cup {None}]
  /\ sessions \in [Merchants -> [SessionIds -> Amounts]]
  /\ edited \in [Merchants -> BOOLEAN] /\ requests \subseteq Requests
  /\ tag \in [Merchants -> Nat \cup {None}] /\ counter \in Nat
  /\ saved \in Contexts
  /\ spent \in Nat
  /\ entries \in (SUBSET {"invocation", "result"}) \cup {None}
  /\ payments \subseteq Payments /\ IsFiniteSet(payments)
  /\ approvals \subseteq Requests

\* The prover's form of the types implies the one that TLC checks.
LEMMA TypedIsTypeOK == Typed => TypeOK
BY DEF Typed, TypeOK, Contexts

\* Agent, plugins and merchants start typed.
LEMMA TypedInit == Init => Typed
<1> SUFFICES ASSUME Init PROVE Typed
  OBVIOUS
<1>1. active \in Merchants /\ Fresh(active) \in Contexts
  BY FreshIsContext DEF Init
<1>2. Fresh(active).cart \in [Merchants -> Amounts]
      /\ Fresh(active).checkout \in [Merchants -> SessionIds \cup {None}]
      /\ Fresh(active).edited \in [Merchants -> BOOLEAN]
      /\ Fresh(active).tag \in [Merchants -> Nat \cup {None}]
  BY <1>1, ContextFields
<1>3. IsFiniteSet({})
  BY FS_EmptySet
<1>4. sessions \in [Merchants -> [SessionIds -> Amounts]]
  BY GovernanceAssumption DEF GovernanceAssumption, Init, Amounts
<1> QED
  BY <1>1, <1>2, <1>3, <1>4 DEF Init, Typed

\* The amount of a payment is one of the session's and the cart's.
LEMMA AmountIsTyped ==
  ASSUME Typed PROVE SessionItems \in Amounts /\ ChargedAmount \in Amounts
<1>1. SessionItems \in Amounts
  BY GovernanceAssumption DEF GovernanceAssumption, SessionItems, Typed, Amounts
<1> QED
  BY <1>1 DEF ChargedAmount, Typed

\* What a payment adds is a payment, within the bound on their number; it closes the
\* session it names.
LEMMA ChargeIsTyped ==
  ASSUME Typed, NEW lost \in BOOLEAN, Charge(lost)
  PROVE  /\ payments' \subseteq Payments /\ IsFiniteSet(payments')
         /\ sessions' \in [Merchants -> [SessionIds -> Amounts]]
         /\ \E p \in Payments :
              /\ payments' = payments \cup {p}
              /\ p.n = Cardinality(payments) + 1
              /\ p.merchant = active /\ p.checked = cart[active]
              /\ p.charged = ChargedAmount
              /\ p.edited = (edited[active] /\ SessionItems > 0)
              /\ p.lost = lost /\ p.po = tag[active]
<1> DEFINE p == [n |-> Cardinality(payments) + 1, merchant |-> active,
                 checked |-> cart[active], charged |-> ChargedAmount,
                 edited |-> edited[active] /\ SessionItems > 0, lost |-> lost,
                 po |-> tag[active]]
<1>1. Cardinality(payments) \in Nat
  BY FS_CardinalityType DEF Typed
<1>2. p \in Payments
  <2>1. Cardinality(payments) + 1 \in 1 .. MaxPayments
    BY <1>1, GovernanceAssumption DEF Charge, GovernanceAssumption
  <2> QED
    BY <2>1, AmountIsTyped DEF Payments, Typed
<1>3. payments' = payments \cup {p}
  BY DEF Charge
<1>4. IsFiniteSet(payments')
  BY <1>3, FS_AddElement DEF Typed
<1>5. sessions' \in [Merchants -> [SessionIds -> Amounts]]
  BY GovernanceAssumption DEF GovernanceAssumption, Charge, Typed, Amounts
<1> QED
  BY <1>2, <1>3, <1>4, <1>5 DEF Typed

\* What audit-trail writes of a call, if it is in the chain, is of the entries' type.
LEMMA LogIsTyped ==
  ASSUME NEW written \in SUBSET {"invocation", "result"}, Log(written)
  PROVE  entries' \in (SUBSET {"invocation", "result"}) \cup {None}
BY DEF Log

\* Every tool call, hook, administrator's action and restart keeps the types.
LEMMA TypedNext == Typed /\ [Next]_vars => Typed'
<1> SUFFICES ASSUME Typed, [Next]_vars PROVE Typed'
  OBVIOUS
<1> USE GovernanceAssumption DEF GovernanceAssumption, SubmitPayment, agentVars
<1>1. CASE BlockedPayment
  <2>1. entries' \in (SUBSET {"invocation", "result"}) \cup {None}
    <3>1. EntriesOfBlockedCall \in SUBSET {"invocation", "result"}
      BY DEF EntriesOfBlockedCall
    <3> QED
      BY <1>1, <3>1, LogIsTyped DEF BlockedPayment
  <2>2. requests' \subseteq Requests
    BY <1>1 DEF BlockedPayment, FileRequest, Requests, Typed
  <2> QED
    BY <1>1, <2>1, <2>2 DEF BlockedPayment, Typed
<1>2. CASE FailedPayment
  <2>1. entries' \in (SUBSET {"invocation", "result"}) \cup {None}
    BY <1>2, LogIsTyped DEF FailedPayment, ResultLogged
  <2> QED
    BY <1>2, <2>1 DEF FailedPayment, Typed
<1>3. CASE MadePayment
  <2>1. entries' \in (SUBSET {"invocation", "result"}) \cup {None}
    BY <1>3, LogIsTyped DEF MadePayment, ResultLogged
  <2>2. /\ payments' \subseteq Payments /\ IsFiniteSet(payments')
        /\ sessions' \in [Merchants -> [SessionIds -> Amounts]]
    BY <1>3, ChargeIsTyped DEF MadePayment
  <2>3. spent' \in Nat
    BY <1>3 DEF MadePayment, Typed
  <2>4. /\ cart' \in [Merchants -> Amounts] /\ edited' \in [Merchants -> BOOLEAN]
        /\ checkout' \in [Merchants -> SessionIds \cup {None}]
    BY <1>3 DEF MadePayment, Typed, Amounts
  <2>5. tag' \in [Merchants -> Nat \cup {None}]
    BY <1>3 DEF MadePayment, Typed, TagAfterPayment
  <2> QED
    BY <1>3, <2>1, <2>2, <2>3, <2>4, <2>5 DEF MadePayment, Typed
<1>13. CASE LostPayment
  <2>1. entries' \in (SUBSET {"invocation", "result"}) \cup {None}
    BY <1>13, LogIsTyped DEF LostPayment, ResultLogged
  <2>2. /\ payments' \subseteq Payments /\ IsFiniteSet(payments')
        /\ sessions' \in [Merchants -> [SessionIds -> Amounts]]
    BY <1>13, ChargeIsTyped DEF LostPayment
  <2> QED
    BY <1>13, <2>1, <2>2 DEF LostPayment, Typed
<1>12. ASSUME NEW m \in Merchants, Discover(m) PROVE Typed'
  BY <1>12 DEF Discover, Typed, Amounts
<1>4. ASSUME NEW m \in Merchants, Switch(m) PROVE Typed'
  BY <1>4 DEF Switch, Typed
<1>5. ASSUME NEW amount \in Amounts, EditCart(amount) PROVE Typed'
  BY <1>5 DEF EditCart, Typed
<1>6. ASSUME NEW id \in SessionIds, OpenCheckout(id) PROVE Typed'
  BY <1>6 DEF OpenCheckout, Typed
<1>7. ASSUME NEW r \in requests, NEW d \in {"approved", "denied"}, Resolve(r, d)
      PROVE  Typed'
  <2>1. [r EXCEPT !.status = d] \in Requests
    BY DEF Typed, Requests
  <2> QED
    BY <1>7, <2>1 DEF Resolve, Typed
<1>8. CASE AssignPo
  BY <1>8 DEF AssignPo, Typed
<1>9. CASE EndTurn
  BY <1>9 DEF EndTurn, Typed, Contexts
<1>10. CASE Restart
  BY <1>10, ContextFields DEF Restart, Typed, RestoredCart
<1>11. CASE UNCHANGED vars
  BY <1>11 DEF vars, Typed
<1> QED
  BY <1>1, <1>2, <1>3, <1>4, <1>5, <1>6, <1>7, <1>8, <1>9, <1>10, <1>11, <1>12, <1>13
  DEF Next

\* The types hold in every reachable state.
LEMMA TypedAlways == Spec => []Typed
BY TypedInit, TypedNext, PTL DEF Spec

\* The state of plugins and purchases is well typed, through crashes and restarts.
THEOREM GovernanceTypeCorrect == Spec => []TypeOK
BY TypedAlways, TypedIsTypeOK, PTL

-------------------------------------------------------------------------------
(* Spending *)

\* A checkout session that is still open is worth its merchant's cart unless the cart
\* was edited: what a payment will be checked for is what it will charge.
Paired(carts, checkouts, edits) ==
  \A m \in Merchants :
    checkouts[m] # None /\ sessions[m][checkouts[m]] > 0 /\ ~edits[m]
      => sessions[m][checkouts[m]] = carts[m]

LimitInv ==
  /\ Paired(cart, checkout, edited)
  /\ Paired(saved.cart, saved.checkout, saved.edited)
  /\ UneditedPurchasesKeepTheLimit

\* Nothing is in a cart or paid at the start.
LEMMA LimitInit == Init => LimitInv
BY DEF Init, LimitInv, Paired, UneditedPurchasesKeepTheLimit, Fresh

\* A charge keeps the limit, and what it does to the merchant's sessions keeps the pairs.
LEMMA ChargeKeepsLimit ==
  ASSUME Typed, LimitInv, ~Blocked, NEW lost \in BOOLEAN, Charge(lost), UNCHANGED saved
  PROVE  /\ UneditedPurchasesKeepTheLimit'
         /\ Paired(saved.cart, saved.checkout, saved.edited)'
         /\ \A m \in Merchants :
              checkout[m] # None /\ sessions'[m][checkout[m]] > 0 /\ ~edited[m]
                => sessions'[m][checkout[m]] = cart[m]
<1> USE DEF LimitInv, Paired
<1>1. PICK p \in Payments :
        /\ payments' = payments \cup {p} /\ p.checked = cart[active]
        /\ p.charged = ChargedAmount /\ p.edited = (edited[active] /\ SessionItems > 0)
  BY ChargeIsTyped
<1>2. Installed("spending") => cart[active] <= PerTransactionLimit
  BY GovernanceAssumption
  DEF Blocked, Installed, Refuses, Typed, Amounts, GovernanceAssumption
<1>3. ~p.edited => p.charged = p.checked
  BY <1>1 DEF Typed, ChargedAmount, SessionItems
<1>4. UneditedPurchasesKeepTheLimit'
  BY <1>1, <1>2, <1>3 DEF UneditedPurchasesKeepTheLimit, Installed
<1>5. \A m \in Merchants, c \in SessionIds :
        sessions'[m][c] = IF m = active /\ c = checkout[active] THEN 0 ELSE sessions[m][c]
  BY DEF Charge, Typed
<1>6. saved.checkout \in [Merchants -> SessionIds \cup {None}]
  BY ContextFields DEF Typed
<1>7. Paired(saved.cart, saved.checkout, saved.edited)'
  BY <1>5, <1>6
<1>8. \A m \in Merchants :
        checkout[m] # None /\ sessions'[m][checkout[m]] > 0 /\ ~edited[m]
          => sessions'[m][checkout[m]] = cart[m]
  BY <1>5 DEF Typed
<1> QED
  BY <1>4, <1>7, <1>8

\* Every step keeps unedited carts worth their sessions.
LEMMA LimitNext == Typed /\ LimitInv /\ [Next]_vars => LimitInv'
<1> SUFFICES ASSUME Typed, LimitInv, [Next]_vars PROVE LimitInv'
  OBVIOUS
<1> USE DEF LimitInv, Paired, SubmitPayment, agentVars
<1>1. CASE BlockedPayment
  BY <1>1 DEF BlockedPayment, UneditedPurchasesKeepTheLimit
<1>2. CASE FailedPayment
  BY <1>2 DEF FailedPayment, UneditedPurchasesKeepTheLimit
<1>3. CASE MadePayment
  <2>1. /\ UNCHANGED <<active, saved>> /\ ~Blocked /\ Charge(FALSE)
        /\ cart' = [cart EXCEPT ![active] = 0] /\ checkout' = [checkout EXCEPT ![active] = None]
        /\ edited' = [edited EXCEPT ![active] = FALSE]
    BY <1>3 DEF MadePayment
  <2>2. UneditedPurchasesKeepTheLimit' /\ Paired(saved.cart, saved.checkout, saved.edited)'
    BY <2>1, ChargeKeepsLimit
  <2>3. Paired(cart, checkout, edited)'
    BY <2>1, ChargeKeepsLimit DEF Typed
  <2> QED
    BY <2>2, <2>3
<1>13. CASE LostPayment
  BY <1>13, ChargeKeepsLimit DEF LostPayment
<1>12. ASSUME NEW m \in Merchants, Discover(m) PROVE LimitInv'
  BY <1>12 DEF Discover, UneditedPurchasesKeepTheLimit, Typed
<1>4. ASSUME NEW m \in Merchants, Switch(m) PROVE LimitInv'
  BY <1>4 DEF Switch, UneditedPurchasesKeepTheLimit
<1>5. ASSUME NEW amount \in Amounts, EditCart(amount) PROVE LimitInv'
  BY <1>5 DEF EditCart, UneditedPurchasesKeepTheLimit, Typed
<1>6. ASSUME NEW id \in SessionIds, OpenCheckout(id) PROVE LimitInv'
  <2>1. \A m \in Merchants, c \in SessionIds :
          sessions'[m][c] = IF m = active /\ c = id THEN cart[active] ELSE sessions[m][c]
    BY <1>6 DEF OpenCheckout, Typed
  <2>2. \A m \in Merchants : checkout'[m] = IF m = active THEN id ELSE checkout[m]
    BY <1>6 DEF OpenCheckout, Typed
  <2>3. \A m \in Merchants : edited'[m] = IF m = active THEN FALSE ELSE edited[m]
    BY <1>6 DEF OpenCheckout, Typed
  <2>4. UNCHANGED <<cart, saved, payments>> /\ id # saved.checkout[active]
    BY <1>6 DEF OpenCheckout
  <2>5. saved.checkout \in [Merchants -> SessionIds \cup {None}]
    BY ContextFields DEF Typed
  <2>6. Paired(cart, checkout, edited)'
    <3> SUFFICES ASSUME NEW m \in Merchants,
                        checkout'[m] # None, sessions'[m][checkout'[m]] > 0, ~edited'[m]
                 PROVE  sessions'[m][checkout'[m]] = cart'[m]
      OBVIOUS
    <3>1. checkout'[m] \in SessionIds
      BY <2>2 DEF Typed
    <3>2. CASE m = active
      BY <2>1, <2>2, <2>4, <3>1, <3>2
    <3>3. CASE m # active
      <4>1. checkout'[m] = checkout[m] /\ edited'[m] = edited[m] /\ cart'[m] = cart[m]
        BY <2>2, <2>3, <2>4, <3>3
      <4>2. sessions'[m][checkout[m]] = sessions[m][checkout[m]]
        BY <2>1, <3>1, <3>3, <4>1
      <4>3. checkout[m] # None /\ sessions[m][checkout[m]] > 0 /\ ~edited[m]
              => sessions[m][checkout[m]] = cart[m]
        OBVIOUS
      <4> QED
        BY <4>1, <4>2, <4>3
    <3> QED
      BY <3>2, <3>3
  <2>7. Paired(saved.cart, saved.checkout, saved.edited)'
    BY <2>1, <2>4, <2>5 DEF Typed
  <2> QED
    BY <2>4, <2>6, <2>7 DEF UneditedPurchasesKeepTheLimit
<1>7. ASSUME NEW r \in requests, NEW d \in {"approved", "denied"}, Resolve(r, d)
      PROVE  LimitInv'
  BY <1>7 DEF Resolve, UneditedPurchasesKeepTheLimit
<1>8. CASE AssignPo
  BY <1>8 DEF AssignPo, UneditedPurchasesKeepTheLimit
<1>9. CASE EndTurn
  BY <1>9 DEF EndTurn, UneditedPurchasesKeepTheLimit
<1>10. CASE Restart
  BY <1>10 DEF Restart, RestoredCart, UneditedPurchasesKeepTheLimit
<1>11. CASE UNCHANGED vars
  BY <1>11 DEF vars, UneditedPurchasesKeepTheLimit
<1> QED
  BY <1>1, <1>2, <1>3, <1>4, <1>5, <1>6, <1>7, <1>8, <1>9, <1>10, <1>11, <1>12, <1>13
  DEF Next

\* What the plugins checked is what the merchant charges, and within the limit per
\* transaction, for every purchase whose cart was left alone after checkout began.
THEOREM CheckedIsCharged == Spec => []UneditedPurchasesKeepTheLimit
<1>1. LimitInv => UneditedPurchasesKeepTheLimit
  BY DEF LimitInv
<1> QED
  BY <1>1, LimitInit, LimitNext, TypedAlways, PTL DEF Spec

-------------------------------------------------------------------------------
(* Approvals *)

\* An approved request is one somebody approved, in memory and in the saved
\* session: PaymentsWereApproved needs it of every request a payment may rest on,
\* those that come back with a restart included.
ApprovedByHand(requested) ==
  \A r \in requested : r.status = "approved" =>
    \E a \in approvals : a.merchant = r.merchant

ApprovalInv ==
  /\ ApprovedByHand(requests)
  /\ ApprovedByHand(saved.requests)
  /\ PaymentsWereApproved

\* Nothing is approved or paid at the start.
LEMMA ApprovalInit == Init => ApprovalInv
BY DEF Init, ApprovalInv, ApprovedByHand, PaymentsWereApproved, Fresh

\* Only a payment and a resolution touch what the invariant relates.
LEMMA ApprovalNext == Typed /\ LimitInv /\ ApprovalInv /\ [Next]_vars => ApprovalInv'
<1> SUFFICES ASSUME Typed, LimitInv, ApprovalInv, [Next]_vars PROVE ApprovalInv'
  OBVIOUS
<1> USE DEF ApprovalInv, ApprovedByHand, SubmitPayment, agentVars
<1>1. CASE BlockedPayment
  BY <1>1 DEF BlockedPayment, FileRequest, PaymentsWereApproved, NeedsApproval
<1>2. CASE FailedPayment
  BY <1>2 DEF FailedPayment, PaymentsWereApproved, NeedsApproval
<1>3. CASE MadePayment \/ LostPayment
  <2>1. UNCHANGED <<requests, saved, approvals>> /\ ~Blocked
        /\ \E lost \in BOOLEAN : Charge(lost)
    BY <1>3 DEF MadePayment, LostPayment
  <2>2. PICK p \in Payments :
          /\ payments' = payments \cup {p} /\ p.merchant = active
          /\ p.checked = cart[active] /\ p.charged = ChargedAmount
          /\ p.edited = (edited[active] /\ SessionItems > 0)
    BY <2>1, ChargeIsTyped
  <2>3. Installed("approval") /\ NeedsApproval(cart[active]) =>
          \E a \in approvals : a.merchant = active
    BY <2>1 DEF Blocked, Installed, Refuses, Approved
  <2>4. ~p.edited => p.charged = p.checked
    BY <2>2 DEF Typed, ChargedAmount, SessionItems, LimitInv, Paired
  <2>5. PaymentsWereApproved'
    BY <2>1, <2>2, <2>3, <2>4 DEF PaymentsWereApproved, NeedsApproval, Installed
  <2> QED
    BY <2>1, <2>5
<1>12. ASSUME NEW m \in Merchants, Discover(m) PROVE ApprovalInv'
  BY <1>12 DEF Discover, PaymentsWereApproved, NeedsApproval
<1>4. ASSUME NEW m \in Merchants, Switch(m) PROVE ApprovalInv'
  BY <1>4 DEF Switch, PaymentsWereApproved, NeedsApproval
<1>5. ASSUME NEW amount \in Amounts, EditCart(amount) PROVE ApprovalInv'
  BY <1>5 DEF EditCart, PaymentsWereApproved, NeedsApproval
<1>6. ASSUME NEW id \in SessionIds, OpenCheckout(id) PROVE ApprovalInv'
  BY <1>6 DEF OpenCheckout, PaymentsWereApproved, NeedsApproval
<1>7. ASSUME NEW r \in requests, NEW d \in {"approved", "denied"}, Resolve(r, d)
      PROVE  ApprovalInv'
  <2>1. [r EXCEPT !.status = d].merchant = r.merchant
        /\ [r EXCEPT !.status = d].status = d
    BY DEF Typed, Requests
  <2>2. approvals \subseteq approvals' /\ (d = "approved" => r \in approvals')
        /\ requests' \subseteq requests \cup {[r EXCEPT !.status = d]}
        /\ UNCHANGED <<saved, payments>>
    BY <1>7 DEF Resolve
  <2>3. ApprovedByHand(requests)' /\ ApprovedByHand(saved.requests)'
    BY <2>1, <2>2
  <2>4. PaymentsWereApproved'
    BY <2>2 DEF PaymentsWereApproved, NeedsApproval
  <2> QED
    BY <2>3, <2>4
<1>8. CASE AssignPo
  BY <1>8 DEF AssignPo, PaymentsWereApproved, NeedsApproval
<1>9. CASE EndTurn
  BY <1>9 DEF EndTurn, PaymentsWereApproved, NeedsApproval
<1>10. CASE Restart
  BY <1>10 DEF Restart, PaymentsWereApproved, NeedsApproval
<1>11. CASE UNCHANGED vars
  BY <1>11 DEF vars, PaymentsWereApproved, NeedsApproval
<1> QED
  BY <1>1, <1>2, <1>3, <1>4, <1>5, <1>6, <1>7, <1>8, <1>9, <1>10, <1>11, <1>12 DEF Next

\* Whatever is denied, switched, lost on its way, forgotten by a crash or brought back
\* by a restart, a merchant for which nobody approved anything charges above the
\* threshold only for a cart that was edited, after its checkout began, to below it.
THEOREM NothingPaidUnapproved == Spec => []PaymentsWereApproved
<1>1. ApprovalInv => PaymentsWereApproved
  BY DEF ApprovalInv
<1> QED
  BY <1>1, ApprovalInit, ApprovalNext, LimitInit, LimitNext, TypedAlways, PTL DEF Spec

-------------------------------------------------------------------------------
(* Purchase orders *)

\* Numbers on carts and on payments were all handed out, each to one purchase: the
\* next number is new, and a payment's number is on no cart any more, unless its
\* answer was lost: then it may still be on its merchant's.
OrderNumbersInv ==
  /\ \A m \in Merchants : tag[m] # None => tag[m] <= counter
  /\ \A m, n \in Merchants : tag[m] # None /\ tag[m] = tag[n] => m = n
  /\ \A p \in payments : p.po # None /\ p.po <= counter
  /\ \A p \in payments, m \in Merchants : tag[m] = p.po => p.lost /\ p.merchant = m
  /\ \A p \in payments : p.n <= Cardinality(payments)
  /\ \A p, q \in payments : p.po = q.po /\ p.n < q.n => p.lost /\ p.merchant = q.merchant

\* No number is handed out at the start.
LEMMA OrderNumbersInit == Init => OrderNumbersInv
BY DEF Init, OrderNumbersInv, Fresh

\* A payment carries the number of its merchant's cart and is the last one.
LEMMA ChargeKeepsNumbers ==
  ASSUME Installed("procurement"), RequirePo, Typed, OrderNumbersInv, ~Blocked,
         NEW lost \in BOOLEAN, Charge(lost), UNCHANGED counter,
         \/ lost /\ tag' = tag
         \/ ~lost /\ tag' = [tag EXCEPT ![active] = None]
  PROVE  OrderNumbersInv'
<1> USE DEF OrderNumbersInv
<1>1. PICK p \in Payments :
        /\ payments' = payments \cup {p} /\ p.n = Cardinality(payments) + 1
        /\ p.merchant = active /\ p.lost = lost /\ p.po = tag[active]
  BY ChargeIsTyped
<1>2. active \in Merchants /\ tag[active] # None
  BY DEF Typed, Blocked, Installed, Refuses
<1>3. \A m \in Merchants : tag'[m] = tag[m] \/ (m = active /\ ~lost /\ tag'[m] = None)
  BY DEF Typed
<1>4. \A m \in Merchants : m = active /\ ~lost => tag'[m] = None
  BY DEF Typed
<1>5. Cardinality(payments) \in Nat /\ \A q \in payments : q.n \in Nat /\ q.n < p.n
  BY <1>1, FS_CardinalityType DEF Typed, Payments
<1>6. Cardinality(payments') = Cardinality(payments) + 1
  <2>1. p \notin payments
    BY <1>5
  <2>2. Cardinality(payments \cup {p}) = Cardinality(payments) + 1
    BY <2>1, FS_AddElement DEF Typed
  <2> QED
    BY <1>1, <2>2
<1>7. \A q \in payments' : q.n <= Cardinality(payments')
  <2>1. \A q \in payments : q.n \in Nat /\ q.n <= Cardinality(payments)
    BY <1>5
  <2> QED
    BY <1>1, <1>5, <1>6, <2>1
<1>8. \A q \in payments', m \in Merchants : tag'[m] = q.po => q.lost /\ q.merchant = m
  BY <1>1, <1>2, <1>3, <1>4
<1>9. \A q, r \in payments' : q.po = r.po /\ q.n < r.n => q.lost /\ q.merchant = r.merchant
  BY <1>1, <1>2, <1>5
<1>10. /\ \A m \in Merchants : tag'[m] # None => tag'[m] <= counter'
       /\ \A m, n \in Merchants : tag'[m] # None /\ tag'[m] = tag'[n] => m = n
       /\ \A q \in payments' : q.po # None /\ q.po <= counter'
  BY <1>1, <1>2, <1>3
<1> QED
  BY <1>7, <1>8, <1>9, <1>10

\* Assigning hands out a new number, paying moves one from the cart to the payment.
LEMMA OrderNumbersNext ==
  ASSUME ~MayCrash, Installed("procurement"), RequirePo,
         Typed, OrderNumbersInv, [Next]_vars
  PROVE  OrderNumbersInv'
<1> USE DEF OrderNumbersInv, SubmitPayment, agentVars
<1>1. CASE BlockedPayment
  BY <1>1 DEF BlockedPayment
<1>2. CASE FailedPayment
  BY <1>2 DEF FailedPayment
<1>3. CASE MadePayment
  BY <1>3, ChargeKeepsNumbers DEF MadePayment, TagAfterPayment
<1>12. CASE LostPayment
  BY <1>12, ChargeKeepsNumbers DEF LostPayment
<1>11. ASSUME NEW m \in Merchants, Discover(m) PROVE OrderNumbersInv'
  BY <1>11 DEF Discover
<1>4. ASSUME NEW m \in Merchants, Switch(m) PROVE OrderNumbersInv'
  BY <1>4 DEF Switch
<1>5. ASSUME NEW amount \in Amounts, EditCart(amount) PROVE OrderNumbersInv'
  BY <1>5 DEF EditCart
<1>6. ASSUME NEW id \in SessionIds, OpenCheckout(id) PROVE OrderNumbersInv'
  BY <1>6 DEF OpenCheckout
<1>7. ASSUME NEW r \in requests, NEW d \in {"approved", "denied"}, Resolve(r, d)
      PROVE  OrderNumbersInv'
  BY <1>7 DEF Resolve
<1>8. CASE AssignPo
  <2>1. counter' = counter + 1 /\ tag' = [tag EXCEPT ![active] = counter + 1]
        /\ payments' = payments
    BY <1>8 DEF AssignPo
  <2>2. \A m \in Merchants :
          (m = active /\ tag'[m] = counter + 1) \/ (m # active /\ tag'[m] = tag[m])
    BY <2>1 DEF Typed
  <2>3. \A p \in payments : p.po \in Nat
    BY DEF Typed, Payments
  <2>4. counter \in Nat /\ counter + 1 # None
        /\ \A m \in Merchants : tag[m] \in Nat \cup {None}
    BY GovernanceAssumption DEF GovernanceAssumption, Typed
  <2> QED
    BY <2>1, <2>2, <2>3, <2>4
<1>9. CASE EndTurn \/ Restart
  BY <1>9 DEF EndTurn, Restart
<1>10. CASE UNCHANGED vars
  BY <1>10 DEF vars
<1> QED
  BY <1>1, <1>2, <1>3, <1>4, <1>5, <1>6, <1>7, <1>8, <1>9, <1>10, <1>11, <1>12 DEF Next

\* In a process that does not crash, every payment has a purchase order, and only a
\* payment whose answer was lost leaves its number to a later one, at its own merchant,
\* whatever is assigned, switched and refused between them.
THEOREM OrderNumbersAreUnique ==
  ASSUME ~MayCrash
  PROVE  Spec => []PurchaseOrdersAreUnique
<1>1. CASE Installed("procurement") /\ RequirePo
  <2>1. Typed /\ OrderNumbersInv /\ [Next]_vars => OrderNumbersInv'
    BY <1>1, OrderNumbersNext
  <2>2. OrderNumbersInv => PurchaseOrdersAreUnique
    BY DEF OrderNumbersInv, PurchaseOrdersAreUnique
  <2> QED
    BY <2>1, <2>2, OrderNumbersInit, TypedAlways, PTL DEF Spec
<1>2. CASE ~(Installed("procurement") /\ RequirePo)
  <2>1. PurchaseOrdersAreUnique
    BY <1>2 DEF PurchaseOrdersAreUnique
  <2> QED
    BY <2>1, PTL
<1> QED
  BY <1>1, <1>2

-------------------------------------------------------------------------------
(* The audit trail *)

\* The entries of a call are complete when the plugins keep their order.
LEMMA AuditNext ==
  ASSUME Chain # <<>>, Chain[1] = "audit", AuditIsComplete, [Next]_vars
  PROVE  AuditIsComplete'
<1> USE DEF AuditIsComplete, SubmitPayment, agentVars
<1>1. HookRuns("audit")
  BY GovernanceAssumption DEF GovernanceAssumption, HookRuns
<1>2. CASE BlockedPayment
  BY <1>1, <1>2 DEF BlockedPayment, Log, EntriesOfBlockedCall, Installed
<1>3. CASE FailedPayment \/ LostPayment \/ MadePayment
  BY <1>3 DEF FailedPayment, LostPayment, MadePayment, ResultLogged, Log, Installed
<1>4. CASE Restart
  BY <1>4 DEF Restart
<1>5. CASE UNCHANGED entries
  BY <1>5 DEF Installed
<1>6. CASE UNCHANGED vars
  BY <1>5, <1>6 DEF vars
<1>7. CASE \/ \E m \in Merchants : Discover(m) \/ Switch(m)
           \/ \E amount \in Amounts : EditCart(amount)
           \/ \E id \in SessionIds : OpenCheckout(id)
           \/ AssignPo \/ EndTurn
           \/ \E r \in requests, d \in {"approved", "denied"} : Resolve(r, d)
  BY <1>5, <1>7 DEF Discover, Switch, EditCart, OpenCheckout, Resolve, AssignPo, EndTurn
<1> QED
  BY <1>2, <1>3, <1>4, <1>6, <1>7 DEF Next

\* With audit-trail configured first, every payment call leaves an entry, those that any
\* plugin refuses included.  Behind a plugin that refuses it misses them (README, 5).
THEOREM AuditFirstIsComplete ==
  ASSUME Chain # <<>>, Chain[1] = "audit"
  PROVE  Spec => []AuditIsComplete
<1>1. Init => AuditIsComplete
  BY DEF Init, AuditIsComplete
<1>2. AuditIsComplete /\ [Next]_vars => AuditIsComplete'
  BY AuditNext
<1> QED
  BY <1>1, <1>2, PTL DEF Spec
===============================================================================
