------------------------------- MODULE MCShop -------------------------------
(* What sells: stock with two variants to allocate, prices, carts, coupons,*)
(* discounts, and two checkouts over one cart, one coupon and the last     *)
(* unit.  Each keeps its own rows here, so a behavior is about one of them. *)
EXTENDS Inventory, Pricing, Shopping, Promotions, Discounts, Checkout, TLC

VARIABLE about   \* the component a behavior is about

\* o1 wants one of each; o2 one of a.
TwoVariants == ("o1" :> ("a" :> 1 @@ "b" :> 1)) @@ ("o2" :> ("a" :> 1 @@ "b" :> 0))
NoFiles == <<>>

\* Two price files: two variants, one of them from later on; and one variant twice.
P(amount) == [amount |-> amount, compareAt |-> 0]
PriceRow(v, amount, from) == [v |-> v, price |-> P(amount), effectiveFrom |-> from]
SaleFiles == {<<PriceRow(1, 1, 0), PriceRow(2, 1, 2)>>, <<PriceRow(1, 2, 0), PriceRow(1, 1, 2)>>}

\* Amounts and percentages, with and without a minimum, for all the lines or some.
Offer(type, value, minimum, since, lines) ==
  [type |-> type, value |-> value, minimum |-> minimum, start |-> since, applies |-> lines]
SomeOffers == {Offer("AMOUNT", 1, 0, 1, {1, 2, 3}), Offer("AMOUNT", 7, 0, 2, {1, 2, 3}), Offer("AMOUNT", 20, 6, 1, {1, 3}),
               Offer("PERCENTAGE", 33, 0, 3, {1, 2, 3}), Offer("PERCENTAGE", 50, 0, 2, {2, 3}),
               Offer("PERCENTAGE", 100, 12, 1, {1, 2, 3})}

Online(from, customer, contact, useIt, saved) ==
  [channel |-> "ONLINE", basket |-> from, customer |-> customer, contact |-> contact, quantity |-> 0, coupon |-> useIt,
   ships |-> TRUE, saved |-> saved]
Store(contact, quantity, useIt, ships) ==
  [channel |-> "STORE", basket |-> NoBasket, customer |-> FALSE, contact |-> contact, quantity |-> quantity, coupon |-> useIt,
   ships |-> ships, saved |-> FALSE]

\* A customer with the coupon, a guest with the same contact, and the staff, with and without a buyer.
ShopRequests ==
  {Online("c1", TRUE, NoContact, TRUE, TRUE), Online("c2", FALSE, AccountContact, TRUE, FALSE),
   Store("m2", 1, FALSE, TRUE), Store(NoContact, 1, TRUE, FALSE)}

\* Where the behavior is not about a component, one of its initial states is enough.
ShopInit ==
  /\ about \in {"stock", "prices", "carts", "coupons", "discounts", "checkouts"}
  /\ Init /\ (about = "stock" \/ \A w \in Warehouses : warehouse[w].priority = 1)
  /\ PromotionsInit /\ (about = "coupons" \/ coupon.terms.usageLimit = 1)
  /\ PricingInit /\ ShoppingInit /\ DiscountsInit /\ CheckoutInit

\* The other components stand still.
Rest ==
  /\ about # "stock" => UNCHANGED vars
  /\ about # "prices" => UNCHANGED pricingVars
  /\ about # "carts" => UNCHANGED shoppingVars
  /\ about # "coupons" => UNCHANGED promoVars
  /\ about # "discounts" => UNCHANGED discountVars
  /\ about # "checkouts" => UNCHANGED checkoutVars
  /\ UNCHANGED about

ShopNext ==
  \/ about = "stock" /\ Next /\ Rest
  \/ about = "prices" /\ PricingNext /\ Rest
  \/ about = "carts" /\ ShoppingNext /\ Rest
  \/ about = "coupons" /\ PromotionsNext /\ Rest
  \/ about = "discounts" /\ DiscountsNext /\ Rest
  \/ about = "checkouts" /\ CheckoutNext /\ Rest

shopVars == <<vars, pricingVars, shoppingVars, promoVars, discountVars, checkoutVars, about>>
ShopSpec == ShopInit /\ [][ShopNext]_shopVars
=============================================================================
