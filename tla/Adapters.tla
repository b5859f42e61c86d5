------------------------------- MODULE Adapters -------------------------------
(***************************************************************************)
(* The merchant adapters: one purchase at a Shopify, WooCommerce or        *)
(* BigCommerce store.  Every request may fail, before the store does what  *)
(* it asks or after.  Shopify takes variants, which the adapter remembers  *)
(* from the products it has shown; a restart forgets them while the cart   *)
(* survives in the saved session.  WooCommerce keeps a checkout as a       *)
(* pending order; BigCommerce completes one in three requests.             *)
(***************************************************************************)
EXTENDS FiniteSets, Naturals

CONSTANTS
  ShopProducts,
  ShopVariantOf(_)    \* the first variant of a product

ASSUME ShopAssumption ==
  \A p \in ShopProducts : ShopVariantOf(p) \notin ShopProducts

VARIABLES
  shopType,      \* the adapter, "none" before there is one
  shopKeys,      \* it has the credentials that writing takes
  shopOffers,    \* the capabilities of its last discovery
  shopSeen,      \* Shopify: productVariantMap, as the products it knows
  shopCart,      \* products in the buyer's cart
  shopPlacing,   \* BigCommerce: how far completeCheckout() is
  shopStore,     \* the store: lines, billing address and order of the last checkout,
                 \* and, for history, the products that were in the cart then
  shopReport     \* what completeCheckout() last returned, "none" or the status

shopVars == <<shopType, shopKeys, shopOffers, shopSeen, shopCart, shopPlacing,
              shopStore, shopReport>>

ShopTypes == {"shopify", "woocommerce", "bigcommerce"}
ShopReads == {"products.list", "products.search", "products.get"}
ShopVariants == {ShopVariantOf(p) : p \in ShopProducts}

ShopInit ==
  /\ shopType = "none" /\ shopKeys = FALSE /\ shopOffers = {}
  /\ shopSeen = {} /\ shopCart = {}
  /\ shopPlacing = "no" /\ shopReport = "none"
  /\ shopStore = [items |-> {}, lines |-> {}, billed |-> FALSE, order |-> "none"]

ShopTypeOK ==
  /\ shopType \in ShopTypes \cup {"none"} /\ shopKeys \in BOOLEAN
  /\ shopOffers \subseteq ShopReads \cup
       {"cart.create", "checkout.redirect", "checkout.create", "checkout.complete",
        "orders.track"}
  /\ shopSeen \subseteq ShopProducts /\ shopCart \subseteq ShopProducts
  /\ shopPlacing \in {"no", "billing", "ordering", "asking"}
  /\ shopStore \in [items : SUBSET ShopProducts,
                    lines : SUBSET (ShopProducts \cup ShopVariants),
                    billed : BOOLEAN,
                    order : {"none", "pending", "processing", "shipped"}]
  /\ shopReport \in {"none", "pending", "processing", "shipped"}

-------------------------------------------------------------------------------
(* Faulty variants, see AcpMerchant. *)

ShopBillingFails_GoesOn ==
  /\ shopPlacing = "billing"
  /\ shopPlacing' = "ordering"
  /\ UNCHANGED <<shopType, shopKeys, shopOffers, shopSeen, shopCart,
                 shopStore, shopReport>>
ShopLines_ProductIds == shopCart
ShopAsked_InsteadOfOrdering ==
  /\ shopPlacing = "billing"
  /\ shopPlacing' = "no" /\ shopReport' = "pending"
  /\ UNCHANGED <<shopType, shopKeys, shopOffers, shopSeen, shopCart, shopStore>>

-------------------------------------------------------------------------------
(* Discovery and products. *)

\* Also a new adapter after a restart: the buyer's cart and checkout survive.
ShopConstruct ==
  /\ \/ shopType = "none" /\ shopType' \in ShopTypes /\ shopKeys' \in BOOLEAN
     \/ shopType # "none" /\ UNCHANGED <<shopType, shopKeys>>
  /\ shopSeen' = {} /\ shopOffers' = {} /\ shopPlacing' = "no"
  /\ UNCHANGED <<shopCart, shopStore, shopReport>>

ShopWriteOffers ==
  CASE shopType = "shopify" -> {"cart.create", "checkout.redirect"}
    [] shopType = "woocommerce" -> {"checkout.create", "orders.track"}
    [] shopType = "bigcommerce" ->
         IF shopKeys THEN {"checkout.create", "checkout.complete", "orders.track"} ELSE {}

\* A Shopify store with a UCP profile has the capabilities of the profile.
ShopDiscover ==
  /\ shopType # "none"
  /\ \/ shopOffers' = ShopReads \cup ShopWriteOffers
     \/ shopType = "shopify" /\ shopOffers' = {"checkout.create", "orders.track"}
  /\ UNCHANGED <<shopType, shopKeys, shopSeen, shopCart, shopPlacing,
                 shopStore, shopReport>>

\* A list, a search or a single product is shown, and the buyer picks one of them.
ShopPicks(shown) ==
  /\ shopCart' \in {shopCart} \cup {shopCart \cup {p} : p \in shown}
  /\ UNCHANGED <<shopType, shopKeys, shopOffers, shopPlacing, shopStore, shopReport>>

\* Shopify's adapter remembers the first variant of every product it shows,
ShopShowShopify ==
  /\ shopType = "shopify"
  /\ \E shown \in SUBSET ShopProducts :
       shopSeen' = shopSeen \cup shown /\ ShopPicks(shown)

\* the others have nothing to remember.
ShopShowWoo ==
  /\ shopType = "woocommerce"
  /\ \E shown \in SUBSET ShopProducts : ShopPicks(shown)
  /\ UNCHANGED shopSeen

ShopShowBigCommerce ==
  /\ shopType = "bigcommerce"
  /\ \E shown \in SUBSET ShopProducts : ShopPicks(shown)
  /\ UNCHANGED shopSeen

\* The buyer has second thoughts, also while a checkout is open.
ShopTakesOut ==
  /\ \E p \in shopCart : shopCart' = shopCart \ {p}
  /\ UNCHANGED <<shopType, shopKeys, shopOffers, shopSeen, shopPlacing,
                 shopStore, shopReport>>

-------------------------------------------------------------------------------
(* Checkout. *)

\* An unknown product is sent as if its id were that of a variant.
ShopLines ==
  IF shopType = "shopify"
  THEN {IF p \in shopSeen THEN ShopVariantOf(p) ELSE p : p \in shopCart}
  ELSE shopCart

\* userErrors, when a line is no variant.
ShopAccepts(lines) == lines \subseteq ShopVariants

\* A checkout whose answer is lost stays behind in the store.
ShopOpens(order) ==
  /\ shopPlacing = "no" /\ shopCart # {}
  /\ shopStore' = [items |-> shopCart, lines |-> ShopLines, billed |-> FALSE,
                   order |-> order]
  /\ shopReport' = "none"
  /\ UNCHANGED <<shopType, shopKeys, shopOffers, shopSeen, shopCart, shopPlacing>>

ShopCreateShopify ==
  shopType = "shopify" /\ ShopAccepts(ShopLines) /\ ShopOpens("none")

\* An order that waits for its payment, billed to a placeholder.
ShopCreateWoo == shopType = "woocommerce" /\ shopKeys /\ ShopOpens("pending")

\* A cart, whose id is the checkout's.
ShopCreateBigCommerce == shopType = "bigcommerce" /\ shopKeys /\ ShopOpens("none")

ShopTakesPayment == shopKeys /\ shopPlacing = "no" /\ shopStore.lines # {}

\* One request updates the pending order's address and status.
ShopCompleteWoo ==
  /\ shopType = "woocommerce" /\ ShopTakesPayment
  /\ shopStore' = [shopStore EXCEPT !.billed = TRUE, !.order = "processing"]
  /\ shopReport' \in {shopReport, "processing"}
  /\ UNCHANGED <<shopType, shopKeys, shopOffers, shopSeen, shopCart, shopPlacing>>

ShopBilling ==
  /\ shopType = "bigcommerce" /\ ShopTakesPayment /\ shopStore.order = "none"
  /\ shopPlacing' = "billing"
  /\ UNCHANGED <<shopType, shopKeys, shopOffers, shopSeen, shopCart,
                 shopStore, shopReport>>

\* The address is put; the order is posted next, unless the answer is lost.
ShopBilled ==
  /\ shopPlacing = "billing"
  /\ shopStore' = [shopStore EXCEPT !.billed = TRUE]
  /\ shopPlacing' \in {"ordering", "no"}
  /\ UNCHANGED <<shopType, shopKeys, shopOffers, shopSeen, shopCart, shopReport>>

ShopBillingFails ==
  /\ shopPlacing = "billing"
  /\ shopPlacing' = "no"
  /\ UNCHANGED <<shopType, shopKeys, shopOffers, shopSeen, shopCart,
                 shopStore, shopReport>>

ShopOrdered ==
  /\ shopPlacing = "ordering"
  /\ \/ /\ shopStore' = [shopStore EXCEPT !.order = "pending"]
        /\ shopPlacing' \in {"asking", "no"}
     \/ shopPlacing' = "no" /\ UNCHANGED shopStore
  /\ UNCHANGED <<shopType, shopKeys, shopOffers, shopSeen, shopCart, shopReport>>

\* The status is asked for, and is "pending" when that fails.
ShopAsked ==
  /\ shopPlacing = "asking"
  /\ shopPlacing' = "no"
  /\ shopReport' \in {shopStore.order, "pending"}
  /\ UNCHANGED <<shopType, shopKeys, shopOffers, shopSeen, shopCart, shopStore>>

\* The store goes on with an order; WooCommerce's pending ones are unpaid.
ShopShips ==
  /\ \/ shopStore.order = "processing"
     \/ shopType = "bigcommerce" /\ shopStore.order = "pending"
  /\ shopStore' = [shopStore EXCEPT !.order = "shipped"]
  /\ UNCHANGED <<shopType, shopKeys, shopOffers, shopSeen, shopCart,
                 shopPlacing, shopReport>>

ShopNext ==
  \/ ShopConstruct \/ ShopDiscover
  \/ ShopShowShopify \/ ShopShowWoo \/ ShopShowBigCommerce \/ ShopTakesOut
  \/ ShopCreateShopify \/ ShopCreateWoo \/ ShopCreateBigCommerce
  \/ ShopCompleteWoo \/ ShopBilling \/ ShopBilled \/ ShopBillingFails
  \/ ShopOrdered \/ ShopAsked \/ ShopShips

ShopSpec == ShopInit /\ [][ShopNext]_shopVars

-------------------------------------------------------------------------------
(* Properties. *)

\* An order the store processes, and at BigCommerce every order, has the address
\* the buyer gave, whichever of the requests failed or were cut short.
OrdersAreBilled ==
  (shopStore.order \in {"processing", "shipped"}
     \/ (shopType = "bigcommerce" /\ shopStore.order # "none")) => shopStore.billed

\* A purchase that was reported complete has its order in the store, with the
\* lines of the checkout: the products that were in the cart, at Shopify the variant
\* of each, also when the adapter restarted or the cart has changed since.
ReportedPurchaseExists ==
  /\ shopReport # "none" => shopStore.order # "none" /\ shopStore.lines # {}
  /\ shopStore.lines =
       IF shopType = "shopify" THEN {ShopVariantOf(p) : p \in shopStore.items}
       ELSE shopStore.items
===============================================================================
