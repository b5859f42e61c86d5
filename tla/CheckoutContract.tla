--------------------------- MODULE CheckoutContract ---------------------------
(***************************************************************************)
(* What a buyer is promised of a checkout session, whichever protocol      *)
(* carries it: a session is opened, and then either charges the buyer, or  *)
(* is closed without charging; a session that charged never does again.    *)
(***************************************************************************)
EXTENDS Integers

CONSTANT Sessions

VARIABLES
  phase,     \* [Sessions -> {"none", "open", "paid", "closed"}]
  charged    \* [Sessions -> Nat]: how often the session charged the buyer

contractVars == <<phase, charged>>

Init ==
  /\ phase = [s \in Sessions |-> "none"]
  /\ charged = [s \in Sessions |-> 0]

Open(s) ==
  /\ phase[s] = "none"
  /\ phase' = [phase EXCEPT ![s] = "open"]
  /\ UNCHANGED charged

Pay(s) ==
  /\ phase[s] = "open"
  /\ phase' = [phase EXCEPT ![s] = "paid"]
  /\ charged' = [charged EXCEPT ![s] = @ + 1]

Close(s) ==
  /\ phase[s] = "open"
  /\ phase' = [phase EXCEPT ![s] = "closed"]
  /\ UNCHANGED charged

Next == \E s \in Sessions : Open(s) \/ Pay(s) \/ Close(s)

Spec == Init /\ [][Next]_contractVars
===============================================================================
