------------------------------ MODULE ClientProofs ------------------------------
(***************************************************************************)
(* Theorems about the clients of the outside world, for any calls, stores, *)
(* versions, mandates and delays: signed payments, the UCP transport, the  *)
(* merchant adapters and the session storage.                              *)
(***************************************************************************)
EXTENDS SignedRequests, UcpTransport, UcpProfile, Adapters, SessionStorage,
  FiniteSetTheorems, SequenceTheorems, WellFoundedInduction, TLAPS

-------------------------------------------------------------------------------
(* Signed payments: what a caller of Ap2Client may conclude from its own clock *)
(* and from an answer.                                                         *)

\* A mandate that is under way or was taken is signed, so that it expires when it
\* did then, and it was taken before it expired.
SignedTakenInTime ==
  /\ \A r \in signedSent : signedPayment[r.payment].at \notin {"idle", "made"}
  /\ \A x \in signedPaid :
       /\ signedPayment[x.payment].at \notin {"idle", "made"}
       /\ x.time <= signedPayment[x.payment].expires

SignedGivenUpLate ==
  \A p \in SignedPayments : signedPayment[p].at = "gaveUp" =>
    signedPayment[p].gaveUp > signedPayment[p].expires

SignedGoodNewsIsTrue ==
  \A answer \in signedAnswers : answer.ok =>
    \E x \in signedPaid : x.payment = answer.payment

SignedInv ==
  /\ SignedTypeOK /\ SignedTakenInTime /\ SignedGivenUpLate
  /\ SignedGoodNewsIsTrue /\ KnownPaymentWasTaken

-------------------------------------------------------------------------------
\* The mandates there can be, as SignedTypeOK has them.
SignedMandates ==
  [at : {"idle", "made", "signed", "waiting", "paid", "refused", "gaveUp"},
   amount : SignedAmounts \cup {0}, lines : SignedAmounts \cup {0},
   total : SignedAmounts \cup {0}, expires : 0 .. (SignedEnd + SignedTtl),
   stamp : SignedTimes, gaveUp : SignedTimes]

\* Before anything is signed or sent the invariant holds.
LEMMA SignedInvInit == SignedInit => SignedInv
BY SignedAssumption
DEF SignedInit, SignedInv, SignedTypeOK, SignedTakenInTime, SignedGivenUpLate,
    SignedGoodNewsIsTrue, KnownPaymentWasTaken, SignedIdle, SignedTimes

\* A step of the caller that keeps the expiry of a mandate that is out of its hands.
LEMMA SignedSetKeepsInv ==
  ASSUME SignedInv, NEW p \in SignedPayments, NEW payment \in SignedMandates,
         SignedSet(p, payment),
         signedPayment[p].at \notin {"idle", "made"} =>
           /\ payment.at \notin {"idle", "made"}
           /\ payment.expires = signedPayment[p].expires,
         payment.at = "gaveUp" => payment.gaveUp > payment.expires,
         payment.at = "paid" => \E x \in signedPaid : x.payment = p,
         signedAnswers' \subseteq signedAnswers,
         UNCHANGED <<signedClock, signedPaid>>,
         signedSent' \subseteq signedSent
           \cup {[payment |-> p, stamp |-> t] : t \in SignedTimes},
         signedSent' \subseteq signedSent \/ payment.at \notin {"idle", "made"}
  PROVE  SignedInv'
<1> USE DEF SignedInv
<1>1. /\ signedPayment' \in [SignedPayments -> SignedMandates]
      /\ signedPayment'[p] = payment
      /\ \A q \in SignedPayments \ {p} : signedPayment'[q] = signedPayment[q]
  BY DEF SignedTypeOK, SignedSet, SignedMandates
<1>2. SignedTypeOK'
  BY <1>1 DEF SignedTypeOK, SignedMandates
<1>3. SignedTakenInTime'
  <2>1. \A r \in signedSent' : signedPayment'[r.payment].at \notin {"idle", "made"}
    BY <1>1 DEF SignedTypeOK, SignedTakenInTime
  <2>2. \A x \in signedPaid' :
          /\ signedPayment'[x.payment].at \notin {"idle", "made"}
          /\ x.time <= signedPayment'[x.payment].expires
    BY <1>1 DEF SignedTypeOK, SignedTakenInTime
  <2> QED
    BY <2>1, <2>2 DEF SignedTakenInTime
<1>4. SignedGivenUpLate'
  BY <1>1 DEF SignedGivenUpLate
<1>5. SignedGoodNewsIsTrue'
  BY DEF SignedGoodNewsIsTrue
<1>6. KnownPaymentWasTaken'
  BY <1>1 DEF KnownPaymentWasTaken
<1> QED
  BY <1>2, <1>3, <1>4, <1>5, <1>6

\* The caller makes, signs, submits and gives up mandates: none changes one that is under way.
LEMMA SignedCallerKeepsInv ==
  ASSUME SignedInv, NEW p \in SignedPayments,
         \/ SignedMake(p) \/ SignedAttachCart(p) \/ SignedSign(p) \/ SignedSubmit(p)
         \/ SignedAnswer(p) \/ SignedRejects(p) \/ SignedGiveUp(p)
  PROVE  SignedInv'
<1> DEFINE now == signedPayment[p]
<1>0. /\ now \in SignedMandates /\ signedClock \in SignedTimes
      /\ SignedTimes \subseteq Nat /\ signedClock + SignedTtl \in 0 .. (SignedEnd + SignedTtl)
      /\ signedSent \subseteq [payment : SignedPayments, stamp : SignedTimes]
  BY SignedAssumption DEF SignedInv, SignedTypeOK, SignedMandates, SignedTimes
<1>1. CASE SignedMake(p)
  <2>1. PICK amount \in SignedAmounts :
          SignedSet(p, [SignedIdle EXCEPT !.at = "made", !.amount = amount,
                                          !.expires = signedClock + SignedTtl])
    BY <1>1 DEF SignedMake
  <2>2. [SignedIdle EXCEPT !.at = "made", !.amount = amount,
                           !.expires = signedClock + SignedTtl] \in SignedMandates
    <3>1. 0 \in SignedTimes
      BY SignedAssumption DEF SignedTimes
    <3> QED
      BY <1>0, <3>1 DEF SignedMandates, SignedIdle
  <2> QED
    BY <1>1, <2>1, <2>2, SignedSetKeepsInv DEF SignedMake, SignedIdle
<1>2. CASE SignedAttachCart(p)
  <2>1. PICK lines \in SignedAmounts :
          SignedSet(p, [now EXCEPT !.lines = lines, !.total = lines])
    BY <1>2 DEF SignedAttachCart
  <2>2. [now EXCEPT !.lines = lines, !.total = lines] \in SignedMandates
    BY <1>0 DEF SignedMandates
  <2> QED
    BY <1>0, <1>2, <2>1, <2>2, SignedSetKeepsInv DEF SignedAttachCart, SignedMandates
<1>3. CASE SignedSign(p)
  <2>1. [now EXCEPT !.at = "signed"] \in SignedMandates
    BY <1>0 DEF SignedMandates
  <2> QED
    BY <1>0, <1>3, <2>1, SignedSetKeepsInv DEF SignedSign, SignedMandates
<1>4. CASE SignedSubmit(p)
  <2>1. [now EXCEPT !.at = "waiting", !.stamp = signedClock] \in SignedMandates
    BY <1>0 DEF SignedMandates
  <2>2. signedSent' \subseteq signedSent
          \cup {[payment |-> p, stamp |-> t] : t \in SignedTimes}
    BY <1>0, <1>4 DEF SignedSubmit
  <2> QED
    BY <1>0, <1>4, <2>1, <2>2, SignedSetKeepsInv DEF SignedSubmit, SignedMandates
<1>5. CASE SignedAnswer(p)
  <2>1. PICK answer \in signedAnswers :
          /\ answer.payment = p
          /\ signedAnswers' = signedAnswers \ {answer}
          /\ SignedSet(p, [now EXCEPT
               !.at = IF SignedSuccess(answer) THEN "paid" ELSE "refused"])
    BY <1>5 DEF SignedAnswer
  <2>2. [now EXCEPT !.at = IF SignedSuccess(answer) THEN "paid" ELSE "refused"]
          \in SignedMandates
    BY <1>0 DEF SignedMandates
  <2>3. SignedSuccess(answer) => \E x \in signedPaid : x.payment = p
    BY <2>1 DEF SignedSuccess, SignedInv, SignedGoodNewsIsTrue
  <2> QED
    BY <1>0, <1>5, <2>1, <2>2, <2>3, SignedSetKeepsInv DEF SignedAnswer, SignedMandates
<1>6. CASE SignedRejects(p)
  <2>1. [now EXCEPT !.at = "signed"] \in SignedMandates
    BY <1>0 DEF SignedMandates
  <2> QED
    BY <1>0, <1>6, <2>1, SignedSetKeepsInv DEF SignedRejects, SignedMandates
<1>7. CASE SignedGiveUp(p)
  <2>1. [now EXCEPT !.at = "gaveUp", !.gaveUp = signedClock] \in SignedMandates
    BY <1>0 DEF SignedMandates
  <2> QED
    BY <1>0, <1>7, <2>1, SignedSetKeepsInv
    DEF SignedGiveUp, SignedIsExpired, SignedMandates
<1> QED
  BY <1>1, <1>2, <1>3, <1>4, <1>5, <1>6, <1>7

\* The endpoint takes or refuses a message, and its answer tells which.
LEMMA SignedArriveKeepsInv == SignedInv /\ SignedArrive => SignedInv'
<1> SUFFICES ASSUME SignedInv, SignedArrive PROVE SignedInv'
  OBVIOUS
<1> USE DEF SignedInv
<1>1. PICK request \in signedSent :
        LET p == request.payment
            ok == SignedFresh(request) /\ SignedShape(signedPayment[p]) IN
          /\ SignedRespond(p, ok)
          /\ signedPaid' = IF ok THEN signedPaid \cup {[payment |-> p, time |-> signedClock]}
                           ELSE signedPaid
          /\ signedSent' \in {signedSent, signedSent \ {request}}
  BY DEF SignedArrive
<1> DEFINE p == request.payment
           ok == SignedFresh(request) /\ SignedShape(signedPayment[p])
<1>2. /\ p \in SignedPayments /\ ok \in BOOLEAN /\ signedSent' \subseteq signedSent
      /\ signedPayment' = signedPayment /\ signedClock' = signedClock
      /\ signedAnswers' \subseteq signedAnswers \cup {[payment |-> p, ok |-> ok]}
      /\ signedPaid \subseteq signedPaid'
      /\ signedPaid' \subseteq signedPaid \cup {[payment |-> p, time |-> signedClock]}
  BY <1>1 DEF SignedTypeOK, SignedArrive, SignedRespond, SignedFresh, SignedShape
<1>3. SignedTypeOK'
  <2>1. [payment |-> p, time |-> signedClock] \in [payment : SignedPayments, time : SignedTimes]
    BY <1>2 DEF SignedTypeOK
  <2>2. [payment |-> p, ok |-> ok] \in [payment : SignedPayments, ok : BOOLEAN]
    BY <1>2
  <2> HIDE DEF p, ok
  <2>3. signedPaid' \subseteq [payment : SignedPayments, time : SignedTimes]
    BY <1>2, <2>1 DEF SignedTypeOK
  <2>4. signedAnswers' \subseteq [payment : SignedPayments, ok : BOOLEAN]
    BY <1>2, <2>2 DEF SignedTypeOK
  <2> QED
    BY <1>2, <2>3, <2>4 DEF SignedTypeOK
<1>4. ASSUME NEW x \in signedPaid'
      PROVE  /\ signedPayment[x.payment].at \notin {"idle", "made"}
             /\ x.time <= signedPayment[x.payment].expires
  <2>1. CASE x \in signedPaid
    BY <2>1 DEF SignedTakenInTime
  <2>2. CASE x \notin signedPaid
    <3>1. ok /\ x = [payment |-> p, time |-> signedClock]
      BY <1>1, <2>2
    <3>2. signedPayment[p].expires \in Int /\ signedClock \in Int
      BY <1>2 DEF SignedTypeOK, SignedTimes
    <3> QED
      BY <3>1, <3>2 DEF SignedShape, SignedTakenInTime
  <2> QED
    BY <2>1, <2>2
<1>5. SignedTakenInTime'
  BY <1>2, <1>4 DEF SignedTakenInTime
<1>6. SignedGoodNewsIsTrue'
  <2> SUFFICES ASSUME NEW answer \in signedAnswers', answer.ok
               PROVE  \E x \in signedPaid' : x.payment = answer.payment
    BY DEF SignedGoodNewsIsTrue
  <2>1. CASE answer \in signedAnswers
    BY <1>2, <2>1 DEF SignedGoodNewsIsTrue
  <2>2. CASE answer = [payment |-> p, ok |-> ok]
    <3>1. ok /\ answer.payment = p
      BY <2>2
    <3>2. [payment |-> p, time |-> signedClock] \in signedPaid'
      BY <1>1, <3>1
    <3> QED
      BY <3>1, <3>2
  <2> QED
    BY <1>2, <2>1, <2>2
<1>7. SignedGivenUpLate' /\ KnownPaymentWasTaken'
  BY <1>2 DEF SignedGivenUpLate, KnownPaymentWasTaken
<1> QED
  BY <1>3, <1>5, <1>6, <1>7

\* Every step keeps the invariant, the clock and the network included.
LEMMA SignedInvNext == SignedInv /\ [SignedNext]_signedVars => SignedInv'
<1> SUFFICES ASSUME SignedInv, [SignedNext]_signedVars PROVE SignedInv'
  OBVIOUS
<1>1. CASE SignedArrive
  BY <1>1, SignedArriveKeepsInv
<1>2. CASE SignedLost
  <2>1. PICK request \in signedSent :
          /\ signedSent' = signedSent \ {request}
          /\ SignedRespond(request.payment, FALSE)
    BY <1>2 DEF SignedLost
  <2>2. request.payment \in SignedPayments
    BY DEF SignedInv, SignedTypeOK
  <2>3. /\ UNCHANGED <<signedClock, signedPayment, signedPaid>>
        /\ signedSent' \subseteq signedSent
        /\ signedAnswers' \subseteq
             signedAnswers \cup {[payment |-> request.payment, ok |-> FALSE]}
    BY <1>2, <2>1 DEF SignedLost, SignedRespond
  <2>4. SignedTypeOK'
    <3>1. [payment |-> request.payment, ok |-> FALSE]
            \in [payment : SignedPayments, ok : BOOLEAN]
      BY <2>2
    <3> DEFINE refusal == [payment |-> request.payment, ok |-> FALSE]
    <3>2. signedAnswers' \subseteq signedAnswers \cup {refusal}
      BY <2>3
    <3> HIDE DEF refusal
    <3>3. signedAnswers' \subseteq [payment : SignedPayments, ok : BOOLEAN]
      BY <3>1, <3>2 DEF SignedInv, SignedTypeOK, refusal
    <3> QED
      BY <2>3, <3>3 DEF SignedInv, SignedTypeOK
  <2>5. SignedGoodNewsIsTrue'
    BY <2>3 DEF SignedInv, SignedGoodNewsIsTrue
  <2> QED
    BY <2>3, <2>4, <2>5
    DEF SignedInv, SignedTakenInTime, SignedGivenUpLate, KnownPaymentWasTaken
<1>3. CASE SignedTick
  BY <1>3, SignedAssumption
  DEF SignedTick, SignedInv, SignedTypeOK, SignedTimes, SignedTakenInTime,
      SignedGivenUpLate, SignedGoodNewsIsTrue, KnownPaymentWasTaken
<1>4. CASE UNCHANGED signedVars
  BY <1>4
  DEF signedVars, SignedInv, SignedTypeOK, SignedTakenInTime, SignedGivenUpLate,
      SignedGoodNewsIsTrue, KnownPaymentWasTaken
<1> QED
  BY <1>1, <1>2, <1>3, <1>4, SignedCallerKeepsInv DEF SignedNext

\* A payment that the caller gave up because isExpired() said so is not taken from
\* then on, and one whose answer said success was taken, for any mandates, skew,
\* lifetime and delays, although requests are repeated and answers late or mixed up.
THEOREM SignedPaymentsAreKnown ==
  SignedSpec => [](SignedTypeOK /\ GivenUpIsNotPaid /\ KnownPaymentWasTaken)
<1>1. SignedInv => SignedTypeOK /\ GivenUpIsNotPaid /\ KnownPaymentWasTaken
  <2> SUFFICES ASSUME SignedInv, NEW x \in signedPaid,
                      signedPayment[x.payment].at = "gaveUp"
               PROVE  x.time < signedPayment[x.payment].gaveUp
    BY DEF SignedInv, GivenUpIsNotPaid
  <2>1. /\ x.payment \in SignedPayments /\ x.time \in Int
        /\ signedPayment[x.payment].gaveUp \in Int
        /\ signedPayment[x.payment].expires \in Int
    BY DEF SignedInv, SignedTypeOK, SignedTimes
  <2> QED
    BY <2>1 DEF SignedInv, SignedTakenInTime, SignedGivenUpLate
<1> QED
  BY <1>1, SignedInvInit, SignedInvNext, PTL DEF SignedSpec

-------------------------------------------------------------------------------
(* Session storage. *)

\* Where an operation is tells what it did: the temporary file that is renamed holds
\* the latest version, and so does the document that awaits its entry in the index;
\* the entry that is removed is one of a session nothing is kept of.
StoreProgress ==
  /\ storeAt \in {"writing", "written"} => storeKind = "file"
  /\ storeAt \in {"indexing", "deleting", "unindexing"} => storeKind = "redis"
  /\ storeAt = "written" => storeTmp = storeVersion
  /\ storeAt = "indexing" => storeDoc = storeVersion
  /\ storeAt = "unindexing" => storeKept = Nothing
  /\ storeKept <= storeVersion
  /\ storeKind = "none" => storeKept = Nothing /\ storeDoc = Nothing

StoreInv == StoreTypeOK /\ StoreProgress /\ LoadedIsWhole /\ SavedIsListed

\* An empty store satisfies the invariant.
LEMMA StoreInvInit == StoreInit => StoreInv
<1> SUFFICES ASSUME StoreInit PROVE StoreInv
  OBVIOUS
<1> USE StoreAssumption DEF StoreAssumption, StoreInit, Nothing, Torn
<1>1. StoreTypeOK
  <2>1. {storeTmp, storeDoc} \subseteq Versions \cup {Nothing, Torn}
    OBVIOUS
  <2>2. storeIndex \in BOOLEAN /\ storeFound \in BOOLEAN
    OBVIOUS
  <2>3. storeVersion \in 0 .. StoreMaxVersion
    OBVIOUS
  <2>4. storeKept \in Versions \cup {Nothing}
    OBVIOUS
  <2> QED
    BY <2>1, <2>2, <2>3, <2>4 DEF StoreTypeOK
<1>2. StoreProgress
  BY DEF StoreProgress
<1>3. LoadedIsWhole /\ SavedIsListed
  BY DEF LoadedIsWhole, SavedIsListed
<1> QED
  BY <1>1, <1>2, <1>3 DEF StoreInv

\* Every command of every backend keeps it, and so does a crash.
LEMMA StoreInvNext == StoreInv /\ [StoreNext]_storeVars => StoreInv'
<1> SUFFICES ASSUME StoreInv, [StoreNext]_storeVars PROVE StoreInv'
  OBVIOUS
<1> USE StoreAssumption
    DEF StoreAssumption, StoreInv, StoreTypeOK, StoreProgress, LoadedIsWhole,
        SavedIsListed, StoreListed, Versions, Nothing, Torn, StoreSaves
<1>1. CASE StoreOpen
  BY <1>1 DEF StoreOpen
<1>2. CASE StoreSaveMemory
  BY <1>2 DEF StoreSaveMemory
<1>3. CASE StoreWriteFile
  BY <1>3 DEF StoreWriteFile
<1>4. CASE StoreFileWritten
  BY <1>4 DEF StoreFileWritten
<1>5. CASE StoreRename
  BY <1>5 DEF StoreRename
<1>6. CASE StoreSet
  BY <1>6 DEF StoreSet
<1>7. CASE StoreAddToIndex
  BY <1>7 DEF StoreAddToIndex
<1>8. CASE StoreDeleteAtOnce
  BY <1>8 DEF StoreDeleteAtOnce
<1>9. CASE StoreDeleteLoads
  BY <1>9 DEF StoreDeleteLoads
<1>10. CASE StoreDelete
  BY <1>10 DEF StoreDelete
<1>11. CASE StoreRemoveFromIndex
  BY <1>11 DEF StoreRemoveFromIndex
<1>12. CASE StoreExpire
  BY <1>12 DEF StoreExpire
<1>13. CASE StoreCrash
  BY <1>13 DEF StoreCrash
<1>14. CASE UNCHANGED storeVars
  BY <1>14 DEF storeVars
<1> HIDE DEF StoreInv
<1> QED
  BY <1>1, <1>2, <1>3, <1>4, <1>5, <1>6, <1>7, <1>8, <1>9, <1>10, <1>11, <1>12,
     <1>13, <1>14
  DEF StoreNext

\* Whatever a crash cuts short, a session whose save completed loads whole, no older
\* than that save, and is listed under its customer.
THEOREM StoreKeepsSessions ==
  StoreSpec => [](StoreTypeOK /\ LoadedIsWhole /\ SavedIsListed)
<1>1. StoreInv => StoreTypeOK /\ LoadedIsWhole /\ SavedIsListed
  BY DEF StoreInv
<1> QED
  BY <1>1, StoreInvInit, StoreInvNext, PTL DEF StoreSpec

-------------------------------------------------------------------------------
(* The merchant adapters. *)

\* How far a purchase at BigCommerce is: the order is posted once the address is
\* there, and its status asked for once there is an order.
ShopPlacingInOrder ==
  /\ shopPlacing # "no" => shopType = "bigcommerce" /\ shopStore.lines # {}
  /\ shopPlacing = "ordering" => shopStore.billed
  /\ shopPlacing = "asking" => shopStore.order # "none"

\* Every order has lines, and there is none before there is an adapter.
ShopOrdersHaveLines ==
  /\ shopStore.order # "none" => shopStore.lines # {}
  /\ shopType = "none" =>
       shopStore.items = {} /\ shopStore.lines = {} /\ shopStore.order = "none"

ShopInv ==
  /\ ShopTypeOK /\ ShopPlacingInOrder /\ ShopOrdersHaveLines
  /\ OrdersAreBilled /\ ReportedPurchaseExists

\* Before there is an adapter the invariant holds.
LEMMA ShopInvInit == ShopInit => ShopInv
<1> SUFFICES ASSUME ShopInit PROVE ShopInv
  OBVIOUS
<1>1. ShopTypeOK
  BY DEF ShopInit, ShopTypeOK, ShopTypes
<1>2. ShopPlacingInOrder /\ ShopOrdersHaveLines /\ OrdersAreBilled
  BY DEF ShopInit, ShopPlacingInOrder, ShopOrdersHaveLines, OrdersAreBilled
<1>3. ReportedPurchaseExists
  BY DEF ShopInit, ReportedPurchaseExists
<1> QED
  BY <1>1, <1>2, <1>3 DEF ShopInv

\* The lines that a Shopify store accepts are the variants of the products in the
\* cart: a product that is not known by its variant is refused.
LEMMA ShopAcceptedLines ==
  ASSUME ShopTypeOK, shopType = "shopify", ShopAccepts(ShopLines)
  PROVE  ShopLines = {ShopVariantOf(p) : p \in shopCart}
<1>1. ASSUME NEW p \in shopCart PROVE p \in shopSeen
  <2>1. p \in ShopProducts
    BY DEF ShopTypeOK
  <2>2. p \notin ShopVariants
    BY <2>1, ShopAssumption DEF ShopAssumption, ShopVariants
  <2>3. (IF p \in shopSeen THEN ShopVariantOf(p) ELSE p) \in ShopVariants
    BY DEF ShopAccepts, ShopLines
  <2> QED
    BY <2>2, <2>3
<1>2. ShopLines = {IF p \in shopSeen THEN ShopVariantOf(p) ELSE p : p \in shopCart}
  BY DEF ShopLines
<1>3. ASSUME NEW x
      PROVE  x \in ShopLines <=> x \in {ShopVariantOf(p) : p \in shopCart}
  <2>1. x \in ShopLines <=>
          \E p \in shopCart : x = (IF p \in shopSeen THEN ShopVariantOf(p) ELSE p)
    BY <1>2
  <2>2. x \in ShopLines <=> \E p \in shopCart : x = ShopVariantOf(p)
    BY <1>1, <2>1
  <2> QED
    BY <2>2
<1> QED
  BY <1>3

\* Opening a checkout leaves an order that waits for its payment, or none.
LEMMA ShopOpensKeepsInv ==
  ASSUME ShopInv, NEW order \in {"none", "pending"}, ShopOpens(order),
         shopType \in ShopTypes,
         shopType = "shopify" => ShopAccepts(ShopLines),
         order = "pending" => shopType = "woocommerce"
  PROVE  ShopInv'
<1> USE DEF ShopInv
<1>1. /\ UNCHANGED <<shopType, shopKeys, shopOffers, shopSeen, shopCart, shopPlacing>>
      /\ shopPlacing = "no" /\ shopReport' = "none" /\ shopCart # {}
      /\ shopStore' = [items |-> shopCart, lines |-> ShopLines, billed |-> FALSE,
                       order |-> order]
  BY DEF ShopOpens
<1>2. ShopLines = IF shopType = "shopify" THEN {ShopVariantOf(p) : p \in shopCart}
                  ELSE shopCart
  <2>1. CASE shopType = "shopify"
    BY <2>1, ShopAcceptedLines
  <2>2. CASE shopType # "shopify"
    BY <2>2 DEF ShopLines
  <2> QED
    BY <2>1, <2>2
<1>3. ShopLines # {} /\ ShopLines \subseteq ShopProducts \cup ShopVariants
  <2>1. shopCart \subseteq ShopProducts
    BY DEF ShopTypeOK
  <2> QED
    BY <1>1, <1>2, <2>1 DEF ShopVariants
<1>4. ShopTypeOK'
  BY <1>1, <1>3 DEF ShopTypeOK, ShopTypes
<1>5. ShopPlacingInOrder' /\ ShopOrdersHaveLines' /\ OrdersAreBilled'
  BY <1>1, <1>3 DEF ShopPlacingInOrder, ShopOrdersHaveLines, OrdersAreBilled, ShopTypes
<1>6. ReportedPurchaseExists'
  BY <1>1, <1>2 DEF ReportedPurchaseExists
<1> QED
  BY <1>4, <1>5, <1>6

\* Every request of every adapter keeps the invariant, whether it fails, its answer
\* is lost, or the adapter starts anew in between.
LEMMA ShopInvNext == ShopInv /\ [ShopNext]_shopVars => ShopInv'
<1> SUFFICES ASSUME ShopInv, [ShopNext]_shopVars PROVE ShopInv'
  OBVIOUS
<1>1. ASSUME NEW shown \in SUBSET ShopProducts, ShopPicks(shown),
             shopSeen' \subseteq shopSeen \cup shown
      PROVE  ShopInv'
  BY <1>1 DEF ShopPicks, ShopInv, ShopTypeOK, ShopPlacingInOrder, ShopOrdersHaveLines,
              OrdersAreBilled, ReportedPurchaseExists
<1>2. CASE ShopShowShopify \/ ShopShowWoo \/ ShopShowBigCommerce
  BY <1>1, <1>2 DEF ShopShowShopify, ShopShowWoo, ShopShowBigCommerce
<1>3. CASE ShopCreateShopify \/ ShopCreateWoo \/ ShopCreateBigCommerce
  BY <1>3, ShopOpensKeepsInv
  DEF ShopCreateShopify, ShopCreateWoo, ShopCreateBigCommerce, ShopTypes
<1> USE DEF ShopInv, ShopTypeOK, ShopPlacingInOrder, ShopOrdersHaveLines,
            OrdersAreBilled, ReportedPurchaseExists, ShopTypes
<1>4. CASE ShopConstruct
  BY <1>4 DEF ShopConstruct
<1>5. CASE ShopDiscover
  BY <1>5 DEF ShopDiscover, ShopWriteOffers, ShopReads
<1>6. CASE ShopTakesOut
  BY <1>6 DEF ShopTakesOut
<1>7. CASE ShopCompleteWoo
  BY <1>7 DEF ShopCompleteWoo, ShopTakesPayment
<1>8. CASE ShopBilling
  BY <1>8 DEF ShopBilling, ShopTakesPayment
<1>9. CASE ShopBilled
  BY <1>9 DEF ShopBilled
<1>10. CASE ShopBillingFails
  BY <1>10 DEF ShopBillingFails
<1>11. CASE ShopOrdered
  BY <1>11 DEF ShopOrdered
<1>12. CASE ShopAsked
  BY <1>12 DEF ShopAsked
<1>13. CASE ShopShips
  BY <1>13 DEF ShopShips
<1>14. CASE UNCHANGED shopVars
  BY <1>14 DEF shopVars
<1> HIDE DEF ShopInv
<1> QED
  BY <1>2, <1>3, <1>4, <1>5, <1>6, <1>7, <1>8, <1>9, <1>10, <1>11, <1>12, <1>13, <1>14
  DEF ShopNext

\* Whichever request fails or is cut short, an order has the buyer's address, and a
\* purchase that was reported is in the store with the lines of its checkout.
THEOREM ShopPurchasesAreReal ==
  ShopSpec => [](ShopTypeOK /\ OrdersAreBilled /\ ReportedPurchaseExists)
<1>1. ShopInv => ShopTypeOK /\ OrdersAreBilled /\ ReportedPurchaseExists
  BY DEF ShopInv
<1> QED
  BY <1>1, ShopInvInit, ShopInvNext, PTL DEF ShopSpec

-------------------------------------------------------------------------------
(* The profile of a UCP merchant. *)

\* A set of natural numbers that is not empty has a least element.  The library has
\* this for a predicate, which no prover instantiates; here it is one of a set.
LEMMA LeastNatural ==
  ASSUME NEW S, S \subseteq Nat, S # {}
  PROVE  \E m \in S : \A k \in S : m <= k
<1>1. \E R : /\ \E x \in S : \A y \in S : ~(<<y, x>> \in R)
             /\ \A x, y \in Nat : y < x => <<y, x>> \in R
  <2>1. \E x \in S : \A y \in S : ~(<<y, x>> \in OpToRel(<, Nat))
    BY NatLessThanWellFounded, WFMin
  <2>2. \A x, y \in Nat : y < x => <<y, x>> \in OpToRel(<, Nat)
    BY DEF OpToRel
  <2> QED
    BY <2>1, <2>2, Zenon
<1>2. PICK R : /\ \E x \in S : \A y \in S : ~(<<y, x>> \in R)
               /\ \A x, y \in Nat : y < x => <<y, x>> \in R
  BY <1>1
<1>3. PICK m \in S : \A y \in S : ~(<<y, m>> \in R)
  BY <1>2
<1>4. \A k \in S : ~(k < m)
  BY <1>2, <1>3
<1> QED
  BY <1>3, <1>4

\* The capability found under a name has that name, in any profile.
LEMMA CapabilityHasItsName ==
  ASSUME ProfileTypeOK, NEW name
  PROVE  \/ CapabilityNamed(name) = NoCapability
         \/ CapabilityNamed(name) \in Capabilities /\ CapabilityNamed(name).name = name
<1>1. profileCaps \in Seq(Capabilities)
  BY ProfileAssumption, EmptySeq DEF ProfileAssumption, ProfileTypeOK
<1>2. DOMAIN profileCaps = 1 .. Len(profileCaps) /\ Len(profileCaps) \in Nat
  BY <1>1
<1> DEFINE Named == {i \in DOMAIN profileCaps : profileCaps[i].name = name}
<1>3. CASE Named = {}
  BY <1>3 DEF CapabilityNamed
<1>4. CASE Named # {}
  <2> HIDE DEF Named
  <2>0. Named \subseteq Nat
    BY <1>2 DEF Named
  <2>1. PICK m \in Named : \A k \in Named : m <= k
    BY <2>0, <1>4, LeastNatural
  <2>2. \E i \in DOMAIN profileCaps :
          /\ profileCaps[i].name = name
          /\ \A j \in 1 .. i - 1 : profileCaps[j].name # name
    BY <1>2, <2>1 DEF Named
  <2>3. PICK i \in DOMAIN profileCaps :
          CapabilityNamed(name) = profileCaps[i] /\ profileCaps[i].name = name
    BY <2>2 DEF CapabilityNamed
  <2> QED
    BY <1>1, <1>2, <2>3
<1> QED
  BY <1>3, <1>4

\* During and after the walk seen holds the names of the lineage, each once, and the
\* capability to go on with is the next of the chain.
LineageInOrder ==
  /\ lineageAt = "idle" => lineageOut = <<>>
  /\ lineageAt # "idle" =>
       /\ lineageSeen = {lineageOut[i].name : i \in DOMAIN lineageOut}
       /\ Cardinality(lineageSeen) = Len(lineageOut)
  /\ lineageAt = "walking" =>
       lineageNext = IF lineageOut = <<>> THEN CapabilityNamed(lineageOf)
                     ELSE CapabilityNamed(LineageLast.extends)

ProfileInv == ProfileTypeOK /\ LineageInOrder /\ LineageClimbs /\ LineageIsWhole

\* Without a profile the invariant holds.
LEMMA ProfileInvInit == ProfileInit => ProfileInv
<1> SUFFICES ASSUME ProfileInit PROVE ProfileInv
  OBVIOUS
<1>1. Cardinality(CapNames) \in Nat
  BY ProfileAssumption, FS_CardinalityType DEF ProfileAssumption
<1>2. ProfileTypeOK
  BY DEF ProfileInit, ProfileTypeOK, ProfilePlaces
<1>3. LineageInOrder /\ LineageIsWhole
  BY DEF ProfileInit, LineageInOrder, LineageIsWhole
<1>4. LineageClimbs
  BY <1>1 DEF ProfileInit, LineageClimbs
<1> QED
  BY <1>2, <1>3, <1>4 DEF ProfileInv

\* Every capability of a lineage is the first of its name.
LEMMA LineageIsOfFirsts ==
  ASSUME ProfileInv, NEW i \in DOMAIN lineageOut
  PROVE  /\ lineageOut[i] \in Capabilities
         /\ lineageOut[i] = CapabilityNamed(lineageOut[i].name)
<1>1. lineageOut[i] \in Capabilities /\ lineageOut[i].name # "none"
  <2>1. lineageOut \in Seq(Capabilities)
    BY DEF ProfileInv, ProfileTypeOK
  <2>2. lineageOut[i] \in Capabilities
    BY <2>1
  <2> QED
    BY <2>2, ProfileAssumption DEF ProfileAssumption, Capabilities
<1>2. lineageOut[i] # NoCapability
  BY <1>1 DEF NoCapability
<1>3. PICK name : lineageOut[i] = CapabilityNamed(name)
  <2>1. CASE i = 1
    BY <2>1 DEF ProfileInv, LineageClimbs
  <2>2. CASE i # 1
    <3>1. i \in 2 .. Len(lineageOut)
      BY <2>2 DEF ProfileInv, ProfileTypeOK
    <3> QED
      BY <3>1 DEF ProfileInv, LineageClimbs
  <2> QED
    BY <2>1, <2>2
<1>4. ProfileTypeOK
  BY DEF ProfileInv
<1>5. CapabilityNamed(name).name = name
  BY <1>2, <1>3, <1>4, CapabilityHasItsName
<1> QED
  BY <1>1, <1>3, <1>5

\* One capability more.
LEMMA LineageVisitKeepsInv ==
  ASSUME ProfileInv, LineageVisit
  PROVE  ProfileInv'
<1> USE DEF ProfileInv
<1> DEFINE n == Len(lineageOut)
<1>1. /\ lineageAt = "walking" /\ lineageNext # NoCapability
      /\ lineageNext.name \notin lineageSeen
      /\ lineageSeen' = lineageSeen \cup {lineageNext.name}
      /\ lineageOut' = Append(lineageOut, lineageNext)
      /\ UNCHANGED <<probeVars, profileVars, lineageOf>>
  BY DEF LineageVisit, LineageMayVisit
<1>2. lineageNext \in Capabilities /\ lineageOut \in Seq(Capabilities) /\ n \in Nat
  BY <1>1 DEF ProfileTypeOK
<1>3. /\ lineageOut' \in Seq(Capabilities) /\ Len(lineageOut') = n + 1
      /\ DOMAIN lineageOut' = 1 .. (n + 1) /\ DOMAIN lineageOut = 1 .. n
      /\ \A i \in 1 .. n : lineageOut'[i] = lineageOut[i]
      /\ lineageOut'[n + 1] = lineageNext
      /\ lineageOut' # <<>>
  BY <1>1, <1>2
<1>4. \A name : CapabilityNamed(name)' = CapabilityNamed(name)
  BY <1>1 DEF CapabilityNamed, profileVars
<1>5. /\ lineageSeen' = {lineageOut'[i].name : i \in DOMAIN lineageOut'}
      /\ Cardinality(lineageSeen') = n + 1 /\ lineageSeen' \subseteq CapNames
  <2>1. lineageSeen = {lineageOut[i].name : i \in 1 .. n} /\ Cardinality(lineageSeen) = n
    BY <1>1, <1>3 DEF LineageInOrder
  <2>2. ASSUME NEW x
        PROVE  x \in lineageSeen' <=> \E i \in DOMAIN lineageOut' : x = lineageOut'[i].name
    BY <1>1, <1>2, <1>3, <2>1
  <2>3. lineageSeen' = {lineageOut'[i].name : i \in DOMAIN lineageOut'}
    BY <2>2
  <2>4. IsFiniteSet(lineageSeen)
    BY ProfileAssumption, FS_Subset DEF ProfileAssumption, ProfileTypeOK
  <2>5. Cardinality(lineageSeen') = n + 1
    BY <1>1, <2>1, <2>4, FS_AddElement
  <2>6. lineageSeen' \subseteq CapNames
    BY <1>1, <1>2 DEF ProfileTypeOK, Capabilities
  <2> QED
    BY <2>3, <2>5, <2>6
<1>6. n + 1 <= Cardinality(CapNames)
  BY <1>5, ProfileAssumption, FS_Subset DEF ProfileAssumption
<1>7. lineageNext.extends = "none" \/ lineageNext' = CapabilityNamed(lineageNext.extends)
  BY DEF LineageVisit
<1>8. lineageNext' \in Capabilities \cup {NoCapability}
  BY <1>2, CapabilityHasItsName DEF LineageVisit
<1>9. ProfileTypeOK'
  BY <1>1, <1>3, <1>5, <1>8 DEF ProfileTypeOK, probeVars, profileVars, LineageVisit
<1>10. LineageInOrder'
  <2>1. lineageAt' \in {"walking", "done"}
    BY <1>1 DEF LineageVisit
  <2>2. ASSUME lineageAt' = "walking"
        PROVE  lineageNext' = CapabilityNamed(lineageOut'[n + 1].extends)
    BY <1>1, <1>3, <2>2 DEF LineageVisit
  <2> QED
    BY <1>3, <1>4, <1>5, <2>1, <2>2 DEF LineageInOrder, LineageLast
<1>11. LineageClimbs'
  <2>1. lineageOut'[1] = CapabilityNamed(lineageOf)'
    <3>1. CASE n = 0
      BY <1>1, <1>2, <1>3, <1>4, <3>1 DEF LineageInOrder
    <3>2. CASE n # 0
      BY <1>1, <1>2, <1>3, <1>4, <3>2 DEF LineageClimbs
    <3> QED
      BY <3>1, <3>2
  <2>2. ASSUME NEW i \in 2 .. (n + 1)
        PROVE  lineageOut'[i] = CapabilityNamed(lineageOut'[i - 1].extends)
    <3>1. CASE i = n + 1
      <4>1. lineageOut # <<>> /\ LineageLast = lineageOut'[i - 1]
        BY <1>2, <1>3, <3>1 DEF LineageLast
      <4> QED
        BY <1>1, <1>3, <3>1, <4>1 DEF LineageInOrder
    <3>2. CASE i \in 2 .. n
      BY <1>2, <1>3, <3>2 DEF LineageClimbs
    <3> QED
      BY <1>2, <3>1, <3>2
  <2>3. ASSUME NEW i \in 1 .. (n + 1), NEW j \in 1 .. (n + 1),
               lineageOut'[i].name = lineageOut'[j].name
        PROVE  i = j
    <3>1. \A k \in 1 .. n : lineageOut[k].name # lineageNext.name
      BY <1>1, <1>3 DEF LineageInOrder
    <3>2. \A k, m \in 1 .. n : lineageOut[k].name = lineageOut[m].name => k = m
      BY <1>3 DEF LineageClimbs
    <3>3. lineageOut'[n + 1].name = lineageNext.name
      BY <1>3
    <3>4. CASE i \in 1 .. n /\ j \in 1 .. n
      BY <1>3, <2>3, <3>2, <3>4
    <3>5. CASE i = n + 1 /\ j \in 1 .. n
      BY <1>3, <2>3, <3>1, <3>3, <3>5
    <3>6. CASE i \in 1 .. n /\ j = n + 1
      BY <1>3, <2>3, <3>1, <3>3, <3>6
    <3> QED
      BY <1>2, <3>4, <3>5, <3>6
  <2> QED
    BY <1>3, <1>4, <1>6, <2>1, <2>2, <2>3 DEF LineageClimbs
<1>12. LineageIsWhole'
  <2>1. SUFFICES ASSUME lineageAt' = "done" PROVE CapabilityNamed("none") = NoCapability
    BY <1>1, <1>3, <1>4 DEF LineageIsWhole, LineageLast, LineageVisit
  <2> QED
    BY CapabilityHasItsName, ProfileAssumption DEF ProfileAssumption, Capabilities
<1> QED
  BY <1>9, <1>10, <1>11, <1>12

\* The walk stops where the invariant says.
LEMMA LineageStopKeepsInv ==
  ASSUME ProfileInv, LineageStop
  PROVE  ProfileInv'
<1> USE DEF ProfileInv
<1>1. /\ lineageAt = "walking" /\ lineageAt' = "done"
      /\ lineageNext = NoCapability \/ lineageNext.name \in lineageSeen
      /\ UNCHANGED <<probeInput, probeNext, profileGiven, profileScheme, profileCaps,
                    lineageOf, lineageNext, lineageSeen, lineageOut>>
  BY DEF LineageStop, LineageMayVisit, probeVars, profileVars
<1>2. \A name : CapabilityNamed(name)' = CapabilityNamed(name)
  BY <1>1 DEF CapabilityNamed
<1>3. ProfileTypeOK'
  BY <1>1 DEF ProfileTypeOK
<1>4. LineageInOrder'
  BY <1>1 DEF LineageInOrder
<1>5. LineageClimbs'
  BY <1>1, <1>2 DEF LineageClimbs
<1>6. LineageIsWhole'
  <2>1. CASE lineageOut = <<>>
    <3>1. DOMAIN lineageOut = {}
      BY <2>1
    <3>2. lineageSeen = {}
      BY <1>1, <3>1 DEF LineageInOrder
    <3> QED
      BY <1>1, <1>2, <2>1, <3>2 DEF LineageInOrder, LineageIsWhole
  <2>2. CASE lineageOut # <<>> /\ lineageNext # NoCapability
    <3>1. PICK i \in DOMAIN lineageOut : lineageOut[i].name = lineageNext.name
      BY <1>1, <2>2 DEF LineageInOrder
    <3>2. PICK name : lineageNext = CapabilityNamed(name)
      BY <1>1 DEF LineageInOrder
    <3>3. CapabilityNamed(name).name = name
      BY <2>2, <3>2, CapabilityHasItsName
    <3>4. lineageOut[i] = lineageNext
      BY <3>1, <3>2, <3>3, LineageIsOfFirsts
    <3>5. lineageNext = CapabilityNamed(LineageLast.extends)
      BY <1>1, <2>2 DEF LineageInOrder
    <3> QED
      BY <1>1, <1>2, <2>2, <3>4, <3>5 DEF LineageIsWhole, LineageLast
  <2>3. CASE lineageOut # <<>> /\ lineageNext = NoCapability
    BY <1>1, <1>2, <2>3 DEF LineageInOrder, LineageIsWhole, LineageLast
  <2> QED
    BY <2>1, <2>2, <2>3
<1> QED
  BY <1>3, <1>4, <1>5, <1>6

\* Discoveries do not touch a lineage, and a walk starts with none.
LEMMA ProfileInvNext == ProfileInv /\ [ProfileNext]_profilesVars => ProfileInv'
<1> SUFFICES ASSUME ProfileInv, [ProfileNext]_profilesVars PROVE ProfileInv'
  OBVIOUS
<1> USE DEF ProfileInv, profilesVars, probeVars, profileVars, lineageVars
<1>1. ASSUME ProfileTypeOK', lineageOut' = <<>>, lineageAt' \in {"idle", "walking"},
             lineageAt' = "walking" =>
               /\ lineageSeen' = {} /\ lineageNext' = CapabilityNamed(lineageOf)'
      PROVE  ProfileInv'
  <2>1. Cardinality(CapNames) \in Nat
    BY ProfileAssumption, FS_CardinalityType DEF ProfileAssumption
  <2>2. Len(lineageOut') = 0 /\ DOMAIN lineageOut' = {}
    BY <1>1
  <2>3. LineageInOrder'
    BY <1>1, <2>2, FS_EmptySet DEF LineageInOrder
  <2>4. LineageClimbs'
    BY <1>1, <2>1, <2>2 DEF LineageClimbs
  <2>5. LineageIsWhole'
    BY <1>1 DEF LineageIsWhole
  <2> QED
    BY <1>1, <2>3, <2>4, <2>5
<1>2. ASSUME UNCHANGED <<profileVars, lineageVars>>, ProfileTypeOK' PROVE ProfileInv'
  <2>1. \A name : CapabilityNamed(name)' = CapabilityNamed(name)
    BY <1>2 DEF CapabilityNamed
  <2>2. LineageInOrder'
    BY <1>2, <2>1 DEF LineageInOrder, LineageLast
  <2>3. LineageClimbs' /\ LineageIsWhole'
    BY <1>2, <2>1 DEF LineageClimbs, LineageIsWhole, LineageLast
  <2> QED
    BY <1>2, <2>2, <2>3
<1>3. ASSUME NEW input \in ProfileInputs, ProfileDiscover(input) PROVE ProfileInv'
  <2>1. ProfileTypeOK'
    BY <1>3 DEF ProfileDiscover, ProfileTypeOK, ProfilePlaces
  <2> QED
    BY <1>2, <1>3, <2>1 DEF ProfileDiscover
<1>4. CASE ProfileMissing
  <2>1. ProfileTypeOK'
    BY <1>4 DEF ProfileMissing, ProfileTypeOK, ProfilePlaces
  <2> QED
    BY <1>2, <1>4, <2>1 DEF ProfileMissing
<1>5. CASE ProfileFound
  <2>1. CASE UNCHANGED <<profileVars, lineageVars>>
    <3>1. ProfileTypeOK'
      BY <1>5, <2>1 DEF ProfileFound, ProfileTypeOK, ProfilePlaces
    <3> QED
      BY <1>2, <2>1, <3>1
  <2>2. CASE ~UNCHANGED <<profileVars, lineageVars>>
    <3>1. ProfilePlaces(probeInput)[probeNext] \in ProfileSchemes
      BY <1>5 DEF ProfileFound, ProfileTypeOK, ProfilePlaces, ProfileSchemes
    <3>2. /\ profileCaps' \in Profiles /\ profileScheme' \in ProfileSchemes
          /\ profileGiven' = probeInput /\ probeInput # "none"
          /\ lineageAt' = "idle" /\ lineageOut' = <<>>
          /\ UNCHANGED <<lineageOf, lineageNext, lineageSeen>>
          /\ probeInput' = "none" /\ probeNext' = 1
      BY <1>5, <2>2, <3>1 DEF ProfileFound
    <3>3. ProfileTypeOK'
      BY <3>2 DEF ProfileTypeOK, ProfilePlaces
    <3> QED
      BY <1>1, <3>2, <3>3
  <2> QED
    BY <2>1, <2>2
<1>6. ASSUME NEW name \in CapNames, LineageAsk(name) PROVE ProfileInv'
  <2>1. \A other : CapabilityNamed(other)' = CapabilityNamed(other)
    BY <1>6 DEF LineageAsk, CapabilityNamed
  <2>2. CapabilityNamed(name) \in Capabilities \cup {NoCapability}
    BY CapabilityHasItsName
  <2>3. ProfileTypeOK'
    BY <1>6, <2>2 DEF LineageAsk, ProfileTypeOK
  <2> QED
    BY <1>1, <1>6, <2>1, <2>3 DEF LineageAsk
<1>7. CASE LineageReturn
  <2>1. ProfileTypeOK'
    BY <1>7 DEF LineageReturn, ProfileTypeOK
  <2> QED
    BY <1>1, <1>7, <2>1 DEF LineageReturn
<1>8. CASE UNCHANGED profilesVars
  <2>1. ProfileTypeOK'
    BY <1>8 DEF ProfileTypeOK
  <2> QED
    BY <1>2, <1>8, <2>1
<1> HIDE DEF ProfileInv
<1>9. CASE ProfileNext
  BY <1>3, <1>4, <1>5, <1>6, <1>7, <1>9, LineageVisitKeepsInv, LineageStopKeepsInv
  DEF ProfileNext
<1> QED
  BY <1>8, <1>9

\* In any profile, with whatever circles, repetitions and missing parents, the walk of
\* a lineage ends, and what it returns is the whole chain, each capability once.
THEOREM LineageIsTheChain ==
  ProfileSpec => [](ProfileTypeOK /\ LineageClimbs /\ LineageIsWhole)
<1>1. ProfileInv => ProfileTypeOK /\ LineageClimbs /\ LineageIsWhole
  BY DEF ProfileInv
<1> QED
  BY <1>1, ProfileInvInit, ProfileInvNext, PTL DEF ProfileSpec

-------------------------------------------------------------------------------
(* The transport of the UCP client. *)

\* What was sent of a call, under way or carried out: one request over a transport, of
\* which REST is the last, and, unless the call is in auto, one over the one it prefers.
WireRequestsAre ==
  \A r \in wireNet \cup wireOrders :
    /\ wireCall[r[1]].at # "idle"
    /\ r[2] = "rest" => wireCall[r[1]].via = "rest"
    /\ wireCall[r[1]].transport # "auto" => r[2] = wireCall[r[1]].transport
    /\ \A s \in wireNet \cup wireOrders : s[1] = r[1] /\ s[2] = r[2] => s = r

\* The merchant that is current counts as current during every call under way.
WireCurrentIsKnown ==
  \A c \in WireCalls : wireCall[c].at = "sent" =>
    wireCurrent # "none" /\ wireCurrent \in wireSince[c]

\* A call that was not made goes to nobody.
WireIdleGoesNowhere ==
  \A c \in WireCalls : wireCall[c].at = "idle" => wireCall[c].to = "none"

WireInv ==
  /\ WireTypeOK /\ WireIdleGoesNowhere /\ WireRequestsAre /\ WireCurrentIsKnown
  /\ CallsReachDiscovered /\ SuccessIsReal

\* The states of a call, as WireTypeOK has them.
WireCallStates ==
  [at : {"idle", "sent", "ok", "failed"}, transport : WirePreferences,
   via : WireTransports \cup {"none"}, to : WireMerchants \cup {"none"}]

\* Before any call the invariant holds.
LEMMA WireInvInit == WireInit => WireInv
BY WireAssumption
DEF WireAssumption, WireInit, WireInv, WireTypeOK, WireIdleGoesNowhere, WireRequestsAre,
    WireCurrentIsKnown, CallsReachDiscovered, SuccessIsReal, WireIdle, WirePreferences

\* A discovery makes its merchant current for the calls under way.
LEMMA WireDiscoverKeepsInv ==
  ASSUME WireInv, NEW m \in WireMerchants, WireDiscover(m)
  PROVE  WireInv'
BY WireAssumption
DEF WireAssumption, WireInv, WireTypeOK, WireIdleGoesNowhere, WireRequestsAre,
    WireCurrentIsKnown, CallsReachDiscovered, SuccessIsReal, WireDiscover

\* What a call does at its client: it is sent, to the merchant that is current, and
\* keeps its preference if it was sent before; or it fails.
WireGoes(c, q) ==
  /\ q \in WireCallStates /\ wireCall' = [wireCall EXCEPT ![c] = q]
  /\ wireMcpClient' \in WireMerchants \cup {"none"}
  /\ \/ /\ q.at = "sent" /\ q.to = wireCurrent /\ q.via \in WireTransports
        /\ wireNet' = wireNet \cup {<<c, q.via, q.to>>}
        /\ q.transport # "auto" => q.via = q.transport
        /\ wireCall[c].at = "sent" =>
             wireCall[c].via = "mcp" /\ wireCall[c].transport = "auto" /\ q.transport = "auto"
             /\ q.via = "rest"
     \/ /\ q.at = "failed" /\ q.to = wireCall[c].to /\ q.via = wireCall[c].via
        /\ q.transport = wireCall[c].transport /\ UNCHANGED wireNet

\* A call that is given up fails.
LEMMA WireFailGoes ==
  ASSUME WireTypeOK, NEW c \in WireCalls, WireFail(c)
  PROVE  \E q : WireGoes(c, q)
<1>1. wireCall[c] \in WireCallStates /\ wireCall \in [WireCalls -> WireCallStates]
  BY DEF WireTypeOK, WireCallStates
<1>2. PICK q : q = [wireCall[c] EXCEPT !.at = "failed"]
  OBVIOUS
<1>3. /\ q \in WireCallStates /\ q.at = "failed" /\ q.to = wireCall[c].to
      /\ q.via = wireCall[c].via /\ q.transport = wireCall[c].transport
  BY <1>1, <1>2 DEF WireCallStates
<1>4. wireCall' = [wireCall EXCEPT ![c] = q]
  BY <1>1, <1>2 DEF WireFail
<1> QED
  BY <1>3, <1>4 DEF WireFail, WireGoes, WireTypeOK

\* A call that is sent is sent to the merchant that is current.
LEMMA WireSendGoes ==
  ASSUME WireTypeOK, wireCurrent # "none", NEW c \in WireCalls,
         NEW transport \in WirePreferences, NEW via \in WireTransports,
         transport # "auto" => via = transport,
         WireSend(c, transport, via, wireCurrent),
         wireMcpClient' \in WireMerchants \cup {"none"},
         wireCall[c].at = "sent" =>
           wireCall[c].via = "mcp" /\ wireCall[c].transport = "auto" /\ transport = "auto"
           /\ via = "rest"
  PROVE  \E q : WireGoes(c, q)
<1>1. wireCurrent \in WireMerchants
  BY DEF WireTypeOK
<1>2. PICK q : q = [at |-> "sent", transport |-> transport, via |-> via, to |-> wireCurrent]
  OBVIOUS
<1>3. /\ q \in WireCallStates /\ q.at = "sent" /\ q.to = wireCurrent /\ q.via = via
      /\ q.transport = transport
  BY <1>1, <1>2 DEF WireCallStates
<1>4. wireCall' = [wireCall EXCEPT ![c] = q] /\ wireNet' = wireNet \cup {<<c, via, wireCurrent>>}
  BY <1>2 DEF WireSend
<1> QED
  BY <1>3, <1>4 DEF WireGoes

\* Each step of a call at its client is one of these.
LEMMA WireStepGoes ==
  ASSUME WireInv, NEW c \in WireCalls, WireStep(c)
  PROVE  /\ wireCurrent # "none" /\ \E q : WireGoes(c, q)
         /\ UNCHANGED <<wireCurrent, wireDiscoveries, wireOrders>>
         /\ \/ /\ wireCall[c].at = "idle"
               /\ wireSince' = [wireSince EXCEPT ![c] = {wireCurrent}]
            \/ wireCall[c].at = "sent" /\ UNCHANGED wireSince
<1> USE DEF WireInv
<1>1. wireCurrent # "none" => wireCurrent \in WireMerchants
  BY DEF WireTypeOK
<1>2. /\ "auto" \in WirePreferences /\ "mcp" \in WireTransports /\ "rest" \in WireTransports
      /\ \A t \in WirePreferences : t \in {"auto", "mcp", "rest"}
  BY DEF WirePreferences, WireTransports
<1>3. CASE WireCallApi(c)
  <2>1. PICK transport \in WirePreferences :
          \/ transport # "rest" /\ WireSendMcp(c, transport)
          \/ transport \in {"rest", "auto"} /\ WireSendRest(c, transport)
          \/ WireFail(c)
    BY <1>3 DEF WireCallApi
  <2>2. /\ wireCall[c].at = "idle" /\ wireCurrent # "none"
        /\ UNCHANGED <<wireCurrent, wireDiscoveries, wireOrders>>
        /\ wireSince' = [wireSince EXCEPT ![c] = {wireCurrent}]
    BY <1>3 DEF WireCallApi
  <2>3. CASE transport # "rest" /\ WireSendMcp(c, transport)
    <3>1. transport # "auto" => "mcp" = transport
      BY <1>2, <2>3
    <3> QED
      BY <1>1, <1>2, <2>2, <2>3, <3>1, WireSendGoes DEF WireSendMcp, WireMcpTarget
  <2>4. CASE transport \in {"rest", "auto"} /\ WireSendRest(c, transport)
    BY <1>2, <2>2, <2>4, WireSendGoes DEF WireSendRest, WireTypeOK
  <2>5. CASE WireFail(c)
    BY <2>2, <2>5, WireFailGoes
  <2> QED
    BY <2>1, <2>2, <2>3, <2>4, <2>5
<1>4. CASE WireMcpError(c)
  <2>1. /\ wireCall[c].at = "sent" /\ wireCall[c].via = "mcp" /\ wireCurrent # "none"
        /\ UNCHANGED <<wireCurrent, wireDiscoveries, wireOrders, wireSince>>
    BY <1>4 DEF WireMcpError, WireCurrentIsKnown
  <2>2. CASE wireCall[c].transport = "auto" /\ WireSendRest(c, "auto")
    BY <1>2, <2>1, <2>2, WireSendGoes DEF WireSendRest, WireTypeOK
  <2>3. CASE WireFail(c)
    BY <2>1, <2>3, WireFailGoes
  <2> QED
    BY <1>4, <2>1, <2>2, <2>3 DEF WireMcpError, WireFallsBack
<1>5. CASE WireRestError(c)
  BY <1>5, WireFailGoes DEF WireRestError, WireCurrentIsKnown
<1> QED
  BY <1>3, <1>4, <1>5 DEF WireStep

\* A call that starts or goes on keeps the invariant.
LEMMA WireStepKeepsInv ==
  ASSUME WireInv, NEW c \in WireCalls, WireStep(c)
  PROVE  WireInv'
<1>1. /\ wireCurrent # "none"
      /\ UNCHANGED <<wireCurrent, wireDiscoveries, wireOrders>>
      /\ \/ /\ wireCall[c].at = "idle"
            /\ wireSince' = [wireSince EXCEPT ![c] = {wireCurrent}]
         \/ wireCall[c].at = "sent" /\ UNCHANGED wireSince
  BY WireStepGoes
<1>2. PICK q : WireGoes(c, q)
  BY WireStepGoes
<1> USE DEF WireInv
<1>3. /\ wireCall' \in [WireCalls -> WireCallStates] /\ wireCall'[c] = q
      /\ \A d \in WireCalls \ {c} : wireCall'[d] = wireCall[d]
  BY <1>2 DEF WireGoes, WireTypeOK, WireCallStates
<1>4. /\ wireSince' \in [WireCalls -> SUBSET WireMerchants]
      /\ wireCurrent \in wireSince'[c]
      /\ wireCall[c].at = "sent" => wireSince'[c] = wireSince[c]
      /\ \A d \in WireCalls \ {c} : wireSince'[d] = wireSince[d]
  BY <1>1 DEF WireTypeOK, WireCurrentIsKnown
<1>5. WireTypeOK'
  <2>1. wireNet' \subseteq WireCalls \X WireTransports \X WireMerchants
    BY <1>1, <1>2 DEF WireTypeOK, WireGoes
  <2>2. wireMcpClient' \in WireMerchants \cup {"none"}
    BY <1>2 DEF WireGoes
  <2> QED
    BY <1>1, <1>3, <1>4, <2>1, <2>2 DEF WireTypeOK, WireCallStates
<1>6. WireRequestsAre'
  <2>1. CASE q.at = "sent"
    <3> DEFINE n == <<c, q.via, q.to>>
    <3>1. /\ wireNet' = wireNet \cup {n} /\ wireOrders' = wireOrders
          /\ q.transport # "auto" => q.via = q.transport
      BY <1>1, <1>2, <2>1 DEF WireGoes
    <3>2. \A r \in wireNet \cup wireOrders : r[1] = c =>
            r[2] = "mcp" /\ q.transport = "auto" /\ q.via = "rest"
      <4> SUFFICES ASSUME NEW r \in wireNet \cup wireOrders, r[1] = c
                   PROVE  r[2] = "mcp" /\ q.transport = "auto" /\ q.via = "rest"
        OBVIOUS
      <4>1. wireCall[c].at = "sent"
        BY <1>1 DEF WireRequestsAre
      <4>2. wireCall[c].via = "mcp" /\ q.transport = "auto" /\ q.via = "rest"
        BY <1>2, <2>1, <4>1 DEF WireGoes
      <4>3. r[2] \in WireTransports /\ r[2] # "rest"
        BY <4>2 DEF WireRequestsAre, WireTypeOK
      <4> QED
        BY <4>2, <4>3 DEF WireTransports
    <3>3. ASSUME NEW r \in wireNet \cup wireOrders
          PROVE  /\ wireCall'[r[1]].at # "idle"
                 /\ r[2] = "rest" => wireCall'[r[1]].via = "rest"
                 /\ wireCall'[r[1]].transport # "auto" => r[2] = wireCall'[r[1]].transport
                 /\ \A s \in wireNet \cup wireOrders : s[1] = r[1] /\ s[2] = r[2] => s = r
                 /\ n[1] = r[1] /\ n[2] = r[2] => n = r
      <4>1. r[1] \in WireCalls
        BY DEF WireTypeOK
      <4>2. CASE r[1] = c
        BY <1>3, <2>1, <3>2, <4>2 DEF WireRequestsAre
      <4>3. CASE r[1] # c
        BY <1>3, <4>1, <4>3 DEF WireRequestsAre
      <4> QED
        BY <4>2, <4>3
    <3>4. /\ wireCall'[n[1]].at # "idle" /\ (n[2] = "rest" => wireCall'[n[1]].via = "rest")
          /\ wireCall'[n[1]].transport # "auto" => n[2] = wireCall'[n[1]].transport
      BY <1>3, <2>1, <3>1
    <3> HIDE DEF n
    <3> QED
      BY <3>1, <3>3, <3>4 DEF WireRequestsAre
  <2>2. CASE q.at = "failed"
    <3>1. UNCHANGED <<wireNet, wireOrders>> /\ q.via = wireCall[c].via
          /\ q.transport = wireCall[c].transport
      BY <1>1, <1>2, <2>2 DEF WireGoes
    <3>2. \A r \in wireNet \cup wireOrders : r[1] \in WireCalls
      BY DEF WireTypeOK
    <3>3. ASSUME NEW d \in WireCalls
          PROVE  /\ wireCall'[d].via = wireCall[d].via
                 /\ wireCall'[d].transport = wireCall[d].transport
                 /\ wireCall'[d].at = "idle" => wireCall[d].at = "idle"
      BY <1>3, <2>2, <3>1
    <3> QED
      BY <3>1, <3>2, <3>3 DEF WireRequestsAre
  <2> QED
    BY <1>2, <2>1, <2>2 DEF WireGoes
<1>7. WireCurrentIsKnown'
  BY <1>1, <1>3, <1>4 DEF WireCurrentIsKnown
<1>8. CallsReachDiscovered'
  <2>1. ASSUME NEW d \in WireCalls PROVE wireCall'[d].to \in wireSince'[d] \cup {"none"}
    <3>1. CASE d # c
      BY <1>3, <1>4, <3>1 DEF CallsReachDiscovered
    <3>2. CASE d = c /\ q.to = wireCurrent
      BY <1>3, <1>4, <3>2
    <3>3. CASE d = c /\ q.to = wireCall[c].to /\ wireCall[c].at = "sent"
      BY <1>3, <1>4, <3>3 DEF CallsReachDiscovered
    <3>4. CASE d = c /\ q.to = wireCall[c].to /\ wireCall[c].at = "idle"
      BY <1>3, <3>4 DEF WireIdleGoesNowhere
    <3>5. q.to \in {wireCurrent, wireCall[c].to}
      BY <1>2 DEF WireGoes
    <3> QED
      BY <1>1, <3>1, <3>2, <3>3, <3>4, <3>5
  <2> QED
    BY <2>1 DEF CallsReachDiscovered
<1>9. SuccessIsReal' /\ WireIdleGoesNowhere'
  <2>1. q.at \in {"sent", "failed"}
    BY <1>2 DEF WireGoes
  <2> QED
    BY <1>1, <1>3, <2>1 DEF SuccessIsReal, WireIdleGoesNowhere
<1> QED
  BY <1>5, <1>6, <1>7, <1>8, <1>9

\* A request that is carried out is one no longer, but an order.
LEMMA WireCarryOutKeepsInv ==
  ASSUME WireInv, NEW r \in wireNet, WireCarryOut(r)
  PROVE  WireInv'
<1> USE DEF WireInv
<1>0. PICK c : c = r[1]
  OBVIOUS
<1>1. /\ c \in WireCalls /\ r[2] \in WireTransports /\ r[3] \in WireMerchants
      /\ r = <<c, r[2], r[3]>>
  BY <1>0 DEF WireTypeOK
<1>2. /\ wireOrders' = wireOrders \cup {r} /\ wireNet' = wireNet \ {r}
      /\ wireNet' \cup wireOrders' = wireNet \cup wireOrders
      /\ UNCHANGED <<wireCurrent, wireDiscoveries, wireMcpClient, wireSince>>
  BY DEF WireCarryOut, WirePlaceOrder
<1>3. \/ UNCHANGED wireCall
      \/ /\ wireCall[c].at = "sent" /\ wireCall[c].via = r[2] /\ wireCall[c].to = r[3]
         /\ wireCall' = [wireCall EXCEPT ![c].at = "ok"]
  BY <1>0 DEF WireCarryOut
<1>4. /\ wireCall' \in [WireCalls -> WireCallStates]
      /\ \A d \in WireCalls :
           /\ wireCall'[d].to = wireCall[d].to /\ wireCall'[d].via = wireCall[d].via
           /\ wireCall'[d].transport = wireCall[d].transport
           /\ \/ wireCall'[d].at = wireCall[d].at
              \/ /\ d = c /\ wireCall'[d].at = "ok"
                 /\ wireCall[d].via = r[2] /\ wireCall[d].to = r[3]
  <2>1. wireCall \in [WireCalls -> WireCallStates]
    BY DEF WireTypeOK, WireCallStates
  <2>2. CASE UNCHANGED wireCall
    BY <2>1, <2>2
  <2>3. CASE wireCall' = [wireCall EXCEPT ![c].at = "ok"]
    BY <1>1, <1>3, <2>1, <2>3 DEF WireCallStates
  <2> QED
    BY <1>3, <2>2, <2>3
<1>5. WireTypeOK'
  BY <1>1, <1>2, <1>4 DEF WireTypeOK, WireCallStates
<1>6. WireRequestsAre'
  <2>1. \A s \in wireNet \cup wireOrders : s[1] \in WireCalls
    BY DEF WireTypeOK
  <2>2. \A d \in WireCalls : wireCall'[d].at = "idle" => wireCall[d].at = "idle"
    BY <1>4
  <2> QED
    BY <1>2, <1>4, <2>1, <2>2 DEF WireRequestsAre
<1>7. WireCurrentIsKnown' /\ CallsReachDiscovered' /\ WireIdleGoesNowhere'
  <2>1. wireCall[c].at # "idle"
    BY <1>0 DEF WireRequestsAre
  <2> QED
    BY <1>1, <1>2, <1>4, <2>1
    DEF WireCurrentIsKnown, CallsReachDiscovered, WireIdleGoesNowhere
<1>8. SuccessIsReal'
  BY <1>1, <1>2, <1>4 DEF SuccessIsReal
<1> QED
  BY <1>5, <1>6, <1>7, <1>8

\* Every step of clients and merchants keeps the invariant.
LEMMA WireInvNext == WireInv /\ [WireNext]_wireVars => WireInv'
<1> SUFFICES ASSUME WireInv, [WireNext]_wireVars PROVE WireInv'
  OBVIOUS
<1>1. ASSUME NEW r \in wireNet, WireDrop(r) PROVE WireInv'
  BY <1>1 DEF WireDrop, WireInv, WireTypeOK, WireIdleGoesNowhere, WireRequestsAre,
              WireCurrentIsKnown, CallsReachDiscovered, SuccessIsReal
<1>2. CASE UNCHANGED wireVars
  BY <1>2 DEF wireVars, WireInv, WireTypeOK, WireIdleGoesNowhere, WireRequestsAre,
              WireCurrentIsKnown, CallsReachDiscovered, SuccessIsReal
<1>3. CASE WireNext
  BY <1>1, <1>3, WireDiscoverKeepsInv, WireStepKeepsInv, WireCarryOutKeepsInv
  DEF WireNext
<1> QED
  BY <1>2, <1>3

\* Two orders of a call are of the two transports, so REST was the last.
LEMMA WireTwoOrders == WireInv => OnlyFallbackOrdersTwice
<1> SUFFICES ASSUME WireInv, NEW c \in WireCalls,
                    NEW r \in WirePlaced(c), NEW s \in WirePlaced(c), r # s
             PROVE  /\ wireCall[c].transport = "auto" /\ wireCall[c].via = "rest"
                    /\ {r[2], s[2]} = WireTransports
  BY DEF OnlyFallbackOrdersTwice
<1>1. /\ r \in wireOrders /\ s \in wireOrders /\ r[1] = c /\ s[1] = c
      /\ r[2] \in {"mcp", "rest"} /\ s[2] \in {"mcp", "rest"}
  BY DEF WireInv, WireTypeOK, WirePlaced, WireTransports
<1>2. r[2] # s[2]
  BY <1>1 DEF WireInv, WireRequestsAre
<1>3. {r[2], s[2]} = WireTransports
  BY <1>1, <1>2 DEF WireTransports
<1>4. wireCall[c].via = "rest" /\ wireCall[c].transport = "auto"
  BY <1>1, <1>2 DEF WireInv, WireRequestsAre
<1> QED
  BY <1>3, <1>4

\* However answers are lost, late or repeated over the other transport, a call orders
\* twice only by the fallback of auto, goes only to merchants that were discovered,
\* and reports what was done.
THEOREM WireCallsAreSound ==
  WireSpec => [](WireTypeOK /\ OnlyFallbackOrdersTwice /\ CallsReachDiscovered /\ SuccessIsReal)
<1>1. WireInv => WireTypeOK /\ OnlyFallbackOrdersTwice /\ CallsReachDiscovered /\ SuccessIsReal
  BY WireTwoOrders DEF WireInv
<1> QED
  BY <1>1, WireInvInit, WireInvNext, PTL DEF WireSpec

===============================================================================
