------------------------------- MODULE Commerce -------------------------------
(***************************************************************************)
(* The data every part of the SDK's checkout path exchanges: carts of      *)
(* products, shipping addresses and checkout-session identifiers.  Prices, *)
(* names and currencies are abstracted away: a cart is how many of each    *)
(* product it holds, an address is an opaque value.                        *)
(***************************************************************************)
EXTENDS Integers

CONSTANTS
  Products,    \* product identifiers
  Addresses,   \* shipping addresses
  Sessions,    \* identifiers a merchant may give a checkout session
  None,        \* JavaScript's null and undefined
  MaxQty       \* bound: quantity of one product in one cart

ASSUME CommerceAssumption ==
  /\ Products # {}
  /\ MaxQty \in Nat \ {0}
  /\ None \notin Addresses
  /\ None \notin Sessions

\* CartItem[]: the quantity of each product, zero when no item names it.
Carts == [Products -> 0 .. MaxQty]

EmptyCart == [p \in Products |-> 0]

MaybeAddress == Addresses \cup {None}

MaybeSession == Sessions \cup {None}

\* What a merchant knows of an order: the session it came from, the how-manieth
\* order placed under that session it is, its items and where they are sent.
Orders == [session : Sessions, n : Nat, items : Carts, shipTo : MaybeAddress]
===============================================================================
