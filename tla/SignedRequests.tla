----------------------------- MODULE SignedRequests -----------------------------
(***************************************************************************)
(* Paying with AP2 mandates over attested requests.  Ap2Client makes a     *)
(* mandate that expires, puts a cart to it, signs it and submits it through *)
(* AgentAttestation.wrapFetch, which stamps the request.  Requests and     *)
(* answers are lost or late, and a fetch that retries within the wrapper   *)
(* repeats a request with its stamp.  The endpoint, which is not in the    *)
(* repository, takes what both of its verifiers let pass.  Signatures and  *)
(* hashes are left out: a message arrives as it was sent.                  *)
(***************************************************************************)
EXTENDS Integers

CONSTANTS
  SignedPayments,
  SignedAmounts,     \* that can be declared, or add up from line items
  SignedTtl,         \* mandateTtlMs
  SignedSkew,        \* clockSkewSec
  SignedEnd          \* bound: the clock

ASSUME SignedAssumption ==
  /\ SignedAmounts \subseteq Nat \ {0}
  /\ SignedTtl \in Nat /\ SignedSkew \in Nat /\ SignedEnd \in Nat

VARIABLES
  signedClock,
  signedPayment,     \* the caller's side of each payment
  signedSent,        \* requests under way, with their stamps
  signedAnswers,     \* answers under way
  signedPaid         \* history: what the endpoint took, and when

signedVars == <<signedClock, signedPayment, signedSent, signedAnswers, signedPaid>>

SignedTimes == 0 .. SignedEnd

\* lines and total are 0 without a cart; stamp is the last submission's.
SignedIdle == [at |-> "idle", amount |-> 0, lines |-> 0, total |-> 0, expires |-> 0,
               stamp |-> 0, gaveUp |-> 0]

SignedInit ==
  /\ signedClock = 0
  /\ signedPayment = [p \in SignedPayments |-> SignedIdle]
  /\ signedSent = {} /\ signedAnswers = {} /\ signedPaid = {}

SignedTypeOK ==
  /\ signedClock \in SignedTimes
  /\ signedPayment \in [SignedPayments ->
       [at : {"idle", "made", "signed", "waiting", "paid", "refused", "gaveUp"},
        amount : SignedAmounts \cup {0}, lines : SignedAmounts \cup {0},
        total : SignedAmounts \cup {0}, expires : 0 .. (SignedEnd + SignedTtl),
        stamp : SignedTimes, gaveUp : SignedTimes]]
  /\ signedSent \subseteq [payment : SignedPayments, stamp : SignedTimes]
  /\ signedAnswers \subseteq [payment : SignedPayments, ok : BOOLEAN]
  /\ signedPaid \subseteq [payment : SignedPayments, time : SignedTimes]

-------------------------------------------------------------------------------
(* Faulty variants, see AcpMerchant. *)

SignedIsExpired_Early(p) == signedClock >= signedPayment[p].expires
SignedSuccess_AnyAnswer(answer) == TRUE

-------------------------------------------------------------------------------
(* The caller. *)

SignedSet(p, payment) == signedPayment' = [signedPayment EXCEPT ![p] = payment]

\* An intent, or a refund, which is signed and submitted in the same way.
SignedMake(p) ==
  /\ signedPayment[p].at = "idle"
  /\ \E amount \in SignedAmounts :
       SignedSet(p, [SignedIdle EXCEPT !.at = "made", !.amount = amount,
                                       !.expires = signedClock + SignedTtl])
  /\ UNCHANGED <<signedClock, signedSent, signedAnswers, signedPaid>>

\* The total is that of the lines, whatever amount was declared.
SignedAttachCart(p) ==
  /\ signedPayment[p].at = "made"
  /\ \E lines \in SignedAmounts :
       SignedSet(p, [signedPayment[p] EXCEPT !.lines = lines, !.total = lines])
  /\ UNCHANGED <<signedClock, signedSent, signedAnswers, signedPaid>>

SignedSign(p) ==
  /\ signedPayment[p].at = "made"
  /\ SignedSet(p, [signedPayment[p] EXCEPT !.at = "signed"])
  /\ UNCHANGED <<signedClock, signedSent, signedAnswers, signedPaid>>

\* submitPayment(), stamped by the fetch it is given; again, if it threw before.
SignedSubmit(p) ==
  /\ signedPayment[p].at = "signed"
  /\ SignedSet(p, [signedPayment[p] EXCEPT !.at = "waiting", !.stamp = signedClock])
  /\ signedSent' = signedSent \cup {[payment |-> p, stamp |-> signedClock]}
  /\ UNCHANGED <<signedClock, signedAnswers, signedPaid>>

SignedSuccess(answer) == answer.ok

\* An answer arrives, perhaps one to an earlier submission,
SignedAnswer(p) ==
  /\ signedPayment[p].at = "waiting"
  /\ \E answer \in signedAnswers :
       /\ answer.payment = p
       /\ signedAnswers' = signedAnswers \ {answer}
       /\ SignedSet(p, [signedPayment[p] EXCEPT
            !.at = IF SignedSuccess(answer) THEN "paid" ELSE "refused"])
  /\ UNCHANGED <<signedClock, signedSent, signedPaid>>

\* or the fetch rejects, whatever became of the request.
SignedRejects(p) ==
  /\ signedPayment[p].at = "waiting"
  /\ SignedSet(p, [signedPayment[p] EXCEPT !.at = "signed"])
  /\ UNCHANGED <<signedClock, signedSent, signedAnswers, signedPaid>>

\* The caller asks isExpired(), and lets go of a mandate that is.
SignedIsExpired(p) == signedClock > signedPayment[p].expires

SignedGiveUp(p) ==
  /\ signedPayment[p].at \in {"made", "signed"} /\ SignedIsExpired(p)
  /\ SignedSet(p, [signedPayment[p] EXCEPT !.at = "gaveUp", !.gaveUp = signedClock])
  /\ UNCHANGED <<signedClock, signedSent, signedAnswers, signedPaid>>

-------------------------------------------------------------------------------
(* The network and the endpoint. *)

\* verifyAttestation(): the clocks agree; SignedEnd bounds how late a request comes.
SignedFresh(request) == signedClock - request.stamp <= SignedSkew

\* verifyMandateShape(): the declared amount is only compared if there is no total.
SignedShape(mandate) ==
  /\ mandate.expires >= signedClock
  /\ mandate.lines # 0 => mandate.lines = mandate.total

SignedRespond(p, ok) ==
  signedAnswers' \in {signedAnswers, signedAnswers \cup {[payment |-> p, ok |-> ok]}}

\* A request arrives and may stay under way, to come again.
SignedArrive ==
  /\ \E request \in signedSent :
       LET p == request.payment
           ok == SignedFresh(request) /\ SignedShape(signedPayment[p]) IN
         /\ SignedRespond(p, ok)
         /\ signedPaid' = IF ok THEN signedPaid \cup {[payment |-> p, time |-> signedClock]}
                          ELSE signedPaid
         /\ signedSent' \in {signedSent, signedSent \ {request}}
  /\ UNCHANGED <<signedClock, signedPayment>>

\* The agent is not known to the endpoint, or the request goes astray.
SignedLost ==
  /\ \E request \in signedSent :
       /\ signedSent' = signedSent \ {request}
       /\ SignedRespond(request.payment, FALSE)
  /\ UNCHANGED <<signedClock, signedPayment, signedPaid>>

SignedTick ==
  /\ signedClock < SignedEnd
  /\ signedClock' = signedClock + 1
  /\ UNCHANGED <<signedPayment, signedSent, signedAnswers, signedPaid>>

SignedNext ==
  \/ \E p \in SignedPayments :
       \/ SignedMake(p) \/ SignedAttachCart(p) \/ SignedSign(p) \/ SignedSubmit(p)
       \/ SignedAnswer(p) \/ SignedRejects(p) \/ SignedGiveUp(p)
  \/ SignedArrive \/ SignedLost \/ SignedTick

SignedSpec == SignedInit /\ [][SignedNext]_signedVars

-------------------------------------------------------------------------------
(* Properties. *)

\* A payment the caller gave up because isExpired() said so is not taken from then
\* on, whatever is still under way: the caller may pay in another way.
GivenUpIsNotPaid ==
  \A x \in signedPaid : signedPayment[x.payment].at = "gaveUp" =>
    x.time < signedPayment[x.payment].gaveUp

\* A payment the caller knows to be made was taken by the endpoint, although the
\* answer may be that to another submission.
KnownPaymentWasTaken ==
  \A p \in SignedPayments : signedPayment[p].at = "paid" =>
    \E x \in signedPaid : x.payment = p
===============================================================================
