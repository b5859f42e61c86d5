------------------------------ MODULE Governance ------------------------------
(***************************************************************************)
(* The governance plugins around submit_payment: spending-controls,        *)
(* approval-workflow, procurement and audit-trail.                         *)
(*                                                                         *)
(* executeTool asks every plugin in the order they were configured; the    *)
(* first that refuses ends the call, those after it are not asked.  After  *)
(* the tool has returned every plugin is told its result.  A purchase is   *)
(* its amount; the plugins see the amount of the agent's cart, while the   *)
(* merchant charges the amount of the checkout session it holds, or, when  *)
(* it holds none any more, of the cart the payment request carries.        *)
(*                                                                         *)
(* The daily limit of spending-controls is left out: it sums the amounts   *)
(* recorded for the session limit over a window of time.                   *)
(***************************************************************************)
EXTENDS Integers, Sequences, FiniteSets, FiniteSetsExt

CONSTANTS
  Merchants,
  None,
  Chain,                  \* options.plugins, in order
  MaxAmount,              \* bound: value of a cart
  PerTransactionLimit, SessionLimit,        \* spending-controls
  RequireApprovalAbove, AutoApproveBelow,   \* approval-workflow
  RequirePo,              \* procurement: requirePoOnCheckout
  MayCrash,               \* the process may stop and be started again
  MaxPayments,            \* bound: payments merchants take
  RequestIds,             \* identifiers of approval requests
  SessionIds,             \* identifiers of one merchant's checkout sessions
  MaxPos                  \* bound: purchase-order numbers of one process

Plugins == {"spending", "approval", "procurement", "audit"}

ASSUME GovernanceAssumption ==
  /\ None \notin Nat /\ None \notin Merchants /\ None \notin SessionIds
  /\ Chain \in Seq(Plugins)
  /\ MaxAmount \in Nat /\ PerTransactionLimit \in Nat /\ SessionLimit \in Nat
  /\ RequireApprovalAbove \in Int /\ AutoApproveBelow \in Int
  /\ {RequirePo, MayCrash} \subseteq BOOLEAN
  /\ MaxPayments \in Nat /\ MaxPos \in Nat

VARIABLES
  active,        \* the active merchant
  cart,          \* value of each merchant's cart
  checkout,      \* the checkout session the agent has with each merchant, or None
  sessions,      \* the sessions each merchant holds: their value, 0 if not open
  spent,         \* spending-controls: totalSpent
  requests,      \* approval-workflow: pendingApprovals and resolvedApprovals
  tag,           \* procurement: the PO number of each merchant's cart
  counter,       \* procurement: sequentialCounter
  entries,       \* audit-trail: its entries for the last submit_payment call
  saved,         \* the session in storage
  edited,        \* history: the cart changed after its checkout was opened
  payments,      \* history: what merchants charged
  approvals      \* history: the requests that were ever approved

agentVars == <<active, cart, checkout, edited>>
vars == <<agentVars, sessions, spent, requests, tag, counter, entries, saved, payments,
          approvals>>

Amounts == 0 .. MaxAmount

Requests ==
  [id : RequestIds, merchant : Merchants, amount : Amounts,
   status : {"pending", "approved", "denied"}]

Payments ==
  [n : 1 .. MaxPayments, merchant : Merchants, checked : Amounts, charged : Amounts,
   edited : BOOLEAN, lost : BOOLEAN, po : Nat \cup {None}]

\* A new process, and what a session without a save resumes from.  The history
\* variable `edited` is kept beside the cart it is about.
Fresh(m) ==
  [active |-> m, cart |-> [x \in Merchants |-> 0],
   checkout |-> [x \in Merchants |-> None], edited |-> [x \in Merchants |-> FALSE],
   requests |-> {}, tag |-> [x \in Merchants |-> None], counter |-> 0]

Init ==
  /\ active \in Merchants
  /\ cart = Fresh(active).cart /\ checkout = Fresh(active).checkout
  /\ edited = Fresh(active).edited
  /\ sessions = [m \in Merchants |-> [id \in SessionIds |-> 0]]
  /\ spent = 0 /\ requests = {} /\ tag = Fresh(active).tag /\ counter = 0
  /\ entries = None
  /\ saved = Fresh(active)
  /\ payments = {} /\ approvals = {}

-------------------------------------------------------------------------------
(* Faulty variants, see AcpMerchant. *)

Approved_AnyMerchant(m) == \E r \in requests : r.status = "approved"
TagAfterPayment_Kept == tag
EntriesOfBlockedCall_None == {}
RestoredCart_Empty == [m \in Merchants |-> 0]
ChargedAmount_Both == cart[active] + sessions[active][checkout[active]]

-------------------------------------------------------------------------------
(* The hooks before a payment. *)

Installed(p) == \E i \in DOMAIN Chain : Chain[i] = p

\* "Check if there's an approved request for this session"
Approved(m) == \E r \in requests : r.status = "approved" /\ r.merchant = m

NeedsApproval(amount) == amount > AutoApproveBelow /\ amount > RequireApprovalAbove

\* onBeforeToolCall of a plugin returns { allow: false }.
Refuses(p) ==
  \/ p = "spending"
     /\ (cart[active] > PerTransactionLimit \/ spent + cart[active] > SessionLimit)
  \/ p = "approval" /\ NeedsApproval(cart[active]) /\ ~Approved(active)
  \/ p = "procurement" /\ RequirePo /\ tag[active] = None

\* A plugin's hook runs unless one before it refused.
HookRuns(p) ==
  \E i \in DOMAIN Chain : Chain[i] = p /\ \A j \in 1 .. i - 1 : ~Refuses(Chain[j])

Blocked == \E i \in DOMAIN Chain : Refuses(Chain[i])

\* audit-trail writes its first entry when asked, whatever the others will say.
EntriesOfBlockedCall == IF HookRuns("audit") THEN {"invocation"} ELSE {}

Log(written) == entries' = IF Installed("audit") THEN written ELSE None

SubmitPayment == UNCHANGED <<active, counter, saved, approvals>>

\* approval-workflow files a request for the purchase it refuses, a new one
\* every time; an identifier is never used twice.
FileRequest(id) ==
  /\ \A r \in requests \cup saved.requests \cup approvals : r.id # id
  /\ requests' = requests \cup
       {[id |-> id, merchant |-> active, amount |-> cart[active], status |-> "pending"]}

BlockedPayment ==
  /\ SubmitPayment
  /\ Blocked
  /\ Log(EntriesOfBlockedCall)
  /\ IF HookRuns("approval") /\ Refuses("approval")
     THEN \E id \in RequestIds : FileRequest(id)
     ELSE UNCHANGED requests
  /\ UNCHANGED <<cart, checkout, edited, sessions, spent, tag, payments>>

-------------------------------------------------------------------------------
(* The payment, and the hooks after it. *)

\* audit-trail writes its second entry when the tool has returned.
ResultLogged == Log({"invocation", "result"})

\* What the merchant still has of the session the agent names: 0 once it is paid.
SessionItems == IF checkout[active] = None THEN 0 ELSE sessions[active][checkout[active]]

\* "session?.items ?? req.body.items": the agent sends its cart with every payment.
ChargedAmount == IF SessionItems > 0 THEN SessionItems ELSE cart[active]

\* The merchant charges, and closes the session.
Charge(lost) ==
  /\ checkout[active] # None /\ ChargedAmount > 0
  /\ Cardinality(payments) < MaxPayments
  /\ payments' = payments \cup
       {[n |-> Cardinality(payments) + 1, merchant |-> active,
         checked |-> cart[active], charged |-> ChargedAmount,
         edited |-> edited[active] /\ SessionItems > 0, lost |-> lost,
         po |-> tag[active]]}
  /\ sessions' = [sessions EXCEPT ![active][checkout[active]] = 0]

\* The tool returns an error and nothing was charged: there is no session, the
\* payment is declined, or an ACP merchant refuses a session that is paid already.
FailedPayment ==
  /\ SubmitPayment
  /\ ~Blocked
  /\ ResultLogged
  /\ UNCHANGED <<cart, checkout, edited, sessions, spent, requests, tag, payments>>

\* The tool returns an error although the merchant charged: its answer was lost.
\* Cart, session and order number stay, and no plugin records a purchase.
LostPayment ==
  /\ SubmitPayment
  /\ ~Blocked
  /\ Charge(TRUE)
  /\ ResultLogged
  /\ UNCHANGED <<cart, checkout, edited, spent, requests, tag>>

\* procurement: "Reset the tag after a successful checkout"
TagAfterPayment == IF Installed("procurement") THEN [tag EXCEPT ![active] = None] ELSE tag

\* spending-controls adds the value the cart has now: the payment emptied it.
MadePayment ==
  /\ SubmitPayment
  /\ ~Blocked
  /\ Charge(FALSE)
  /\ cart' = [cart EXCEPT ![active] = 0]
  /\ checkout' = [checkout EXCEPT ![active] = None]
  /\ edited' = [edited EXCEPT ![active] = FALSE]
  /\ spent' = IF Installed("spending") THEN spent + cart'[active] ELSE spent
  /\ tag' = TagAfterPayment
  /\ ResultLogged
  /\ UNCHANGED requests

-------------------------------------------------------------------------------
(* The other tools. *)

Switch(m) ==
  /\ m # active
  /\ active' = m
  /\ UNCHANGED <<cart, checkout, edited, sessions, spent, requests, tag, counter,
                 entries, saved, payments, approvals>>

\* discover_merchant: a context of its own, new even for a merchant known before.
\* The plugins' state stays.
Discover(m) ==
  /\ active' = m
  /\ cart' = [cart EXCEPT ![m] = 0]
  /\ checkout' = [checkout EXCEPT ![m] = None]
  /\ edited' = [edited EXCEPT ![m] = FALSE]
  /\ UNCHANGED <<sessions, spent, requests, tag, counter, entries, saved, payments,
                 approvals>>

\* add_to_cart and remove_from_cart: the session that is open stays as it is.
EditCart(amount) ==
  /\ amount # cart[active]
  /\ cart' = [cart EXCEPT ![active] = amount]
  /\ edited' = [edited EXCEPT ![active] = checkout[active] # None]
  /\ UNCHANGED <<active, checkout, sessions, spent, requests, tag, counter, entries,
                 saved, payments, approvals>>

\* initiate_checkout and submit_shipping: a session with an identifier of its own.
\* One that neither the agent nor the session in storage can name any more is as new.
OpenCheckout(id) ==
  /\ cart[active] > 0
  /\ id # saved.checkout[active]
  /\ checkout' = [checkout EXCEPT ![active] = id]
  /\ sessions' = [sessions EXCEPT ![active][id] = cart[active]]
  /\ edited' = [edited EXCEPT ![active] = FALSE]
  /\ UNCHANGED <<active, cart, spent, requests, tag, counter, entries, saved,
                 payments, approvals>>

\* The approval_workflow tool, "approve" and "deny".
Resolve(r, decision) ==
  /\ r.status = "pending"
  /\ requests' = (requests \ {r}) \cup {[r EXCEPT !.status = decision]}
  /\ approvals' = IF decision = "approved" THEN approvals \cup {r} ELSE approvals
  /\ UNCHANGED <<agentVars, sessions, spent, tag, counter, entries, saved, payments>>

\* The procurement tool, "assign_po_number" with the sequential strategy.
AssignPo ==
  /\ Installed("procurement") /\ counter < MaxPos
  /\ counter' = counter + 1
  /\ tag' = [tag EXCEPT ![active] = counter + 1]
  /\ UNCHANGED <<agentVars, sessions, spent, requests, entries, saved, payments,
                 approvals>>

\* After a turn the agent saves its contexts and every plugin's getState();
\* where nothing crashes nobody reads them, so the bound there is no save.
EndTurn ==
  /\ MayCrash
  /\ saved' = [active |-> active, cart |-> cart, checkout |-> checkout,
               edited |-> edited, requests |-> requests, tag |-> tag, counter |-> counter]
  /\ UNCHANGED <<agentVars, sessions, spent, requests, tag, counter, entries, payments,
                 approvals>>

RestoredCart == saved.cart

\* A crash and the next run(), which hydrates approval-workflow and procurement;
\* spending-controls and audit-trail have no hydrate().  The merchants go on: a
\* session that comes back may have been paid since the save.
Restart ==
  /\ MayCrash
  /\ active' = saved.active /\ cart' = RestoredCart
  /\ checkout' = saved.checkout /\ edited' = saved.edited
  /\ requests' = saved.requests /\ tag' = saved.tag /\ counter' = saved.counter
  /\ spent' = 0 /\ entries' = None
  /\ UNCHANGED <<sessions, saved, payments, approvals>>

Next ==
  \/ BlockedPayment \/ FailedPayment \/ LostPayment \/ MadePayment
  \/ \E m \in Merchants : Discover(m) \/ Switch(m)
  \/ \E amount \in Amounts : EditCart(amount)
  \/ \E id \in SessionIds : OpenCheckout(id)
  \/ \E r \in requests, d \in {"approved", "denied"} : Resolve(r, d)
  \/ AssignPo
  \/ EndTurn
  \/ Restart

Spec == Init /\ [][Next]_vars

-------------------------------------------------------------------------------
(* Properties *)

Contexts ==
  [active : Merchants, cart : [Merchants -> Amounts],
   checkout : [Merchants -> SessionIds \cup {None}], edited : [Merchants -> BOOLEAN],
   requests : SUBSET Requests, tag : [Merchants -> Nat \cup {None}], counter : Nat]

\* Type invariant of the plugins' state and of the purchases they watch.
TypeOK ==
  /\ [active |-> active, cart |-> cart, checkout |-> checkout, edited |-> edited,
      requests |-> requests, tag |-> tag, counter |-> counter] \in Contexts
  /\ saved \in Contexts
  /\ sessions \in [Merchants -> [SessionIds -> Amounts]]
  /\ spent \in Nat
  /\ entries \in (SUBSET {"invocation", "result"}) \cup {None}
  /\ payments \subseteq Payments
  /\ approvals \subseteq Requests

\* A merchant charges above the threshold without any approval for it only where the
\* agent edited the cart after checkout began, down to what needs none: there
\* the plugin asks about the cart, and the merchant charges the session.  Denials,
\* requests for other merchants, requests that a crash forgot, payments repeated
\* after a lost answer and sessions that come back paid open no gate.
PaymentsWereApproved ==
  Installed("approval") =>
    \A p \in payments :
      NeedsApproval(p.charged) /\ (\A a \in approvals : a.merchant # p.merchant)
        => p.edited /\ ~NeedsApproval(p.checked)

\* With requirePoOnCheckout every payment carries a purchase order.  A number is used
\* up by the payment it was assigned for: it names a second one only at the same
\* merchant, and only if the answer to the first was lost.
PurchaseOrdersAreUnique ==
  Installed("procurement") /\ RequirePo =>
    /\ \A p \in payments : p.po # None
    /\ \A p, q \in payments :
         p.po = q.po /\ p.n < q.n => p.lost /\ p.merchant = q.merchant

\* A purchase whose cart was left alone after checkout began costs what the
\* plugins checked, so it keeps the limit per transaction: no switch, payment,
\* lost answer, crash or resumption pairs a session with another cart's value.
UneditedPurchasesKeepTheLimit ==
  \A p \in payments : ~p.edited =>
    /\ p.charged = p.checked
    /\ Installed("spending") => p.charged <= PerTransactionLimit

\* audit-trail has an entry for every payment call, refused ones included.
AuditIsComplete ==
  Installed("audit") => entries = None \/ "invocation" \in entries

\* sessionLimit: "Maximum total spend for the agent session"
SessionKeepsItsLimit ==
  Installed("spending") => MapThenSumSet(LAMBDA p : p.charged, payments) <= SessionLimit
===============================================================================
