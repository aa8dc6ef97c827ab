------------------------------ MODULE Checkout ------------------------------
(***************************************************************************)
(* The checkout of src/modules/ordering: a buyer, or the staff in the      *)
(* store, asks for a quote, accepts its total and places the order.  A     *)
(* quote reads without locks.  Placing is one READ COMMITTED transaction   *)
(* of several statements: each sees what is committed when it runs, the    *)
(* prices and promotions in force when the transaction began, and the      *)
(* account, the cart, the coupon and the stock stay locked from the        *)
(* statement that reads them to the end.  What it writes shows only once   *)
(* it commits, so it is applied there.                                     *)
(*                                                                         *)
(* A line is a quantity of one variant: the arithmetic of several lines is *)
(* in Discounts, and their stock by warehouse in Inventory.                *)
(***************************************************************************)
EXTENDS Integers, FiniteSets, FiniteSetsExt

CONSTANTS
  Requests,          \* what may be asked: see RequestType
  Checkouts,         \* quotes, with the orders they may lead to, numbered as they were asked for
  Baskets, NoBasket, \* the carts; the first quantity of each is 1
  Contacts, NoContact, AccountContact,
  UnitPrices,        \* amounts of the variant, more than any discount
  ShippingFees,
  UsageLimit,        \* of the coupon
  InitialStock,
  MAX_ORDER_LINE_QUANTITY,
  PublicCodes,
  MaxShopTime,       \* bound: instants 0..MaxShopTime
  MaxChanges         \* bound: changes of the shop by others

ShopTimes == 0..MaxShopTime
Unpriced == 0
DISCOUNT == 1      \* of the coupon, and of an automatic promotion

RequestType ==
  [channel : {"ONLINE", "STORE"}, basket : Baskets \cup {NoBasket}, customer : BOOLEAN,
   contact : Contacts \cup {NoContact}, quantity : Nat, coupon : BOOLEAN, ships : BOOLEAN, saved : BOOLEAN]

ASSUME CheckoutAssumption ==
  /\ UnitPrices \subseteq Nat \ {0, 1} /\ UnitPrices # {} /\ ShippingFees \subseteq Nat /\ ShippingFees # {}
  /\ Checkouts \subseteq Nat /\ UsageLimit \in Nat \ {0} /\ InitialStock \in Nat /\ MaxShopTime \in Nat /\ MaxChanges \in Nat
  /\ NoBasket \notin Baskets /\ AccountContact \in Contacts /\ NoContact \notin Contacts
  /\ Requests \subseteq RequestType /\ Requests # {}

VARIABLES
  goods,     \* what is committed of the variant, the shipping, the promotions and the stock, with the units the
             \* staff supplied so far
  baskets,
  account,   \* of the customer: whether it is ACTIVE with its email verified, and whether it has a saved address
  checkout,  \* how far each one is, and what it read so far
  placed,    \* the orders
  shopClock, changes

checkoutVars == <<goods, baskets, account, checkout, placed, shopClock, changes>>

\* What a transaction read is gone when it ends.
Unread(c) == [c EXCEPT !.at = 0, !.quantity = 0, !.sellable = FALSE, !.price = Unpriced, !.off = 0, !.total = 0]
Unasked ==
  [asked |-> CHOOSE r \in Requests : TRUE, phase |-> "none", step |-> "none", accepted |-> 0, ready |-> FALSE, calm |-> TRUE,
   reason |-> "none", at |-> 0, quantity |-> 0, sellable |-> FALSE, price |-> Unpriced, off |-> 0, total |-> 0]

CheckoutInit ==
  /\ goods = [price |-> [t \in ShopTimes |-> IF t = 0 THEN Min(UnitPrices) ELSE Unpriced], onSale |-> TRUE, storeOnly |-> FALSE,
               fee |-> Min(ShippingFees), auto |-> 0, couponOn |-> TRUE, uses |-> 0, stock |-> InitialStock,
               supply |-> InitialStock]
  /\ baskets = [b \in Baskets |-> [status |-> "ACTIVE", quantity |-> 1]]
  /\ account = [active |-> TRUE, saved |-> TRUE]
  /\ checkout = [k \in Checkouts |-> Unasked]
  /\ placed = [k \in {} |-> Unasked]
  /\ shopClock = 0 /\ changes = 0

Wanted(k) == checkout[k].asked
At(k, phase, step) == checkout[k].phase = phase /\ checkout[k].step = step
Only(k, c) == checkout' = [checkout EXCEPT ![k] = c] /\ UNCHANGED <<goods, baskets, account, placed, shopClock, changes>>
Moves(k, step) == Only(k, [checkout[k] EXCEPT !.step = step])
Ended(c, why) == [Unread(c) EXCEPT !.phase = "ended", !.step = "none", !.reason = why]
\* Why is only kept where it may break the quote.
Refuse(k, why) ==
  Only(k, IF checkout[k].calm /\ checkout[k].ready THEN Ended(checkout[k], why) ELSE Ended(Unasked, "refused"))

-----------------------------------------------------------------------------
(* The locks of a transaction, from the statement that takes each to the end. *)

Rank ==
  [buyer |-> 1, basket |-> 2, address |-> 3, variants |-> 4, prices |-> 5, discount |-> 6, shipping |-> 7, coupon |-> 8,
   stock |-> 9, insert |-> 10]
Past(k, step) == checkout[k].phase = "place" /\ Rank[checkout[k].step] > Rank[step]

sharesAccount(k) == Wanted(k).customer /\ Past(k, "buyer")
\* Mutant: the cart is read without a lock.
locksBasketNot(k, b) == FALSE
locksBasket(k, b) == Wanted(k).basket = b /\ Past(k, "basket")
locksCoupon(k) == Wanted(k).coupon /\ Past(k, "coupon")
locksStock(k) == Past(k, "stock")

BasketFree(k, b) == \A j \in Checkouts \ {k} : ~locksBasket(j, b)
CouponFree(k) == \A j \in Checkouts \ {k} : ~locksCoupon(j)
StockFree(k) == \A j \in Checkouts \ {k} : ~locksStock(j)

-----------------------------------------------------------------------------
(* Of the request. *)

\* assertLines and assertDelivery of the staff; online, the DTO and the address of every order.
valid(r) ==
  /\ r.channel = "ONLINE" => r.basket \in Baskets /\ r.ships /\ (r.customer \/ r.contact # NoContact)
  /\ r.channel = "STORE" => r.basket = NoBasket /\ r.quantity \in 1..MAX_ORDER_LINE_QUANTITY
  /\ r.ships => r.customer \/ r.contact # NoContact

\* The contact of a customer is the one of the account.
contactOf(r) == IF r.customer THEN AccountContact ELSE r.contact

ask(k, r) ==
  /\ checkout[k].phase = "none" /\ valid(r) /\ \A j \in Checkouts : j < k => checkout[j].phase # "none"
  /\ Only(k, [checkout[k] EXCEPT !.asked = r, !.phase = "quote", !.step = "basket", !.at = shopClock])

\* The buyer accepts the total of the quote.
accept(k) ==
  /\ At(k, "quoted", "none")
  /\ Only(k, [checkout[k] EXCEPT !.phase = "place", !.step = "buyer", !.at = shopClock])

\* buyer: a customer that is ACTIVE and verified, locked for share.
buyer(k) ==
  /\ At(k, "place", "buyer")
  /\ IF Wanted(k).customer /\ ~account.active THEN Refuse(k, "customer")
     ELSE Moves(k, "basket")

\* toQuote, and lockToOrder, which waits for the cart; the staff gives the lines.
cartToQuote(k) ==
  LET b == Wanted(k).basket
      place == checkout[k].phase = "place"
      next == IF place THEN "address" ELSE "variants" IN
  /\ checkout[k].phase \in {"quote", "place"} /\ checkout[k].step = "basket"
  /\ IF b = NoBasket THEN Only(k, [checkout[k] EXCEPT !.step = next, !.quantity = Wanted(k).quantity])
     ELSE /\ place => BasketFree(k, b)
          /\ IF baskets[b].status # "ACTIVE" \/ baskets[b].quantity = 0 THEN Refuse(k, "basket")
             ELSE Only(k, [checkout[k] EXCEPT !.step = next, !.quantity = baskets[b].quantity])

\* shippingAddress: a saved one of the customer, or one written for the order.
shippingAddress(k) ==
  /\ At(k, "place", "address")
  /\ IF Wanted(k).ships /\ Wanted(k).saved /\ ~(Wanted(k).customer /\ account.saved) THEN Refuse(k, "address")
     ELSE Moves(k, "variants")

-----------------------------------------------------------------------------
(* assess, for a quote and for an order. *)

Assessing(k, step) == checkout[k].phase \in {"quote", "place"} /\ checkout[k].step = step

readVariants(k) ==
  /\ Assessing(k, "variants")
  /\ Only(k, [checkout[k] EXCEPT !.step = "prices",
                             !.sellable = goods.onSale /\ (Wanted(k).channel = "STORE" \/ ~goods.storeOnly)])

\* The price in force at an instant: the last one that began.
current(at) ==
  LET begun == {t \in 0..at : goods.price[t] # Unpriced} IN IF begun = {} THEN Unpriced ELSE goods.price[Max(begun)]

readPrices(k) ==
  /\ Assessing(k, "prices")
  /\ LET price == current(checkout[k].at) IN
     Only(k, [checkout[k] EXCEPT !.step = "discount", !.price = price, !.sellable = @ /\ price # Unpriced])

\* couponFor and couponDiscount.
couponRefusal(k) ==
  IF ~goods.couponOn THEN "unavailable"
  ELSE IF goods.uses >= UsageLimit THEN "exhausted"
  ELSE IF ~checkout[k].sellable THEN "noEligibleLines"
  ELSE "none"

\* discountOf: the coupon replaces the automatic promotions.  What cannot be sold stops an order, not a quote.
discountOf(k) ==
  LET line == checkout[k]  coupon == Wanted(k).coupon
      off == IF coupon THEN DISCOUNT ELSE IF line.sellable THEN goods.auto ELSE 0 IN
  /\ Assessing(k, "discount")
  /\ IF coupon /\ couponRefusal(k) # "none" THEN Refuse(k, couponRefusal(k))
     ELSE IF line.phase = "place" /\ ~line.sellable THEN Refuse(k, "unsellable")
     ELSE Only(k, [line EXCEPT !.step = IF line.phase = "quote" THEN "once" ELSE "shipping", !.off = off])

couponUsedBy(contact) == \E k \in DOMAIN placed : placed[k].coupon /\ placed[k].contact = contact

\* The quote of a customer tells that the coupon was used, and every quote whether the stock is there.
quoteCoupon(k) ==
  /\ At(k, "quote", "once")
  /\ IF Wanted(k).channel = "ONLINE" /\ Wanted(k).customer /\ Wanted(k).coupon /\ account.active /\ couponUsedBy(AccountContact)
     THEN Refuse(k, "alreadyUsed")
     ELSE Moves(k, "fulfil")

canFulfill(k) ==
  /\ At(k, "quote", "fulfil")
  /\ Only(k, [checkout[k] EXCEPT !.step = "shipping",
                             !.ready = checkout[k].sellable /\ goods.stock >= checkout[k].quantity])

\* orderTotals, with the shipping as it is now.
total(k) ==
  LET line == checkout[k] IN
  (IF line.sellable THEN line.quantity * line.price - line.off ELSE 0) + (IF Wanted(k).ships THEN goods.fee ELSE 0)

\* quoteShipping: a quote is answered here, and an order refused unless its total is the one accepted.
quoteShipping(k) ==
  /\ Assessing(k, "shipping")
  /\ IF checkout[k].phase = "quote" THEN Only(k, [Unread(checkout[k]) EXCEPT !.phase = "quoted", !.step = "none", !.accepted = total(k)])
     ELSE IF total(k) # checkout[k].accepted THEN Refuse(k, "total")
     ELSE Only(k, [checkout[k] EXCEPT !.step = "coupon", !.total = total(k)])

-----------------------------------------------------------------------------
(* The order. *)

\* useCoupon: it waits for the row of the coupon, counts the use, and then looks for another of the contact.
countCoupon(k) ==
  LET contact == contactOf(Wanted(k)) IN
  /\ At(k, "place", "coupon")
  /\ IF ~Wanted(k).coupon THEN Moves(k, "stock")
     ELSE IF contact = NoContact THEN Refuse(k, "buyerRequired")
     ELSE /\ CouponFree(k)
          /\ IF goods.uses >= UsageLimit THEN Refuse(k, "exhausted")
             ELSE IF couponUsedBy(contact) THEN Refuse(k, "alreadyUsed")
             ELSE Moves(k, "stock")

reserveStock(k) ==
  /\ At(k, "place", "stock") /\ StockFree(k)
  /\ IF goods.stock < checkout[k].quantity THEN Refuse(k, "stock") ELSE Moves(k, "insert")

TakenCodes == {placed[k].code : k \in DOMAIN placed}

\* Order.place and placeInStore.
newOrder(k, code) ==
  [code |-> code, basket |-> Wanted(k).basket, contact |-> contactOf(Wanted(k)), quantity |-> checkout[k].quantity,
   price |-> checkout[k].price, off |-> checkout[k].off, coupon |-> Wanted(k).coupon, total |-> checkout[k].total]
checkOutBasket(b) == [c \in Baskets |-> IF c = b THEN [baskets[c] EXCEPT !.status = "CHECKED_OUT"] ELSE baskets[c]]
\* addUse, and what reserve took.
redeemed(k) == [goods EXCEPT !.stock = @ - checkout[k].quantity, !.uses = IF Wanted(k).coupon THEN @ + 1 ELSE @]

\* insert, with a free public code, and checkOut: the transaction commits.  Drawing only taken codes fails.
insert(k) ==
  /\ At(k, "place", "insert")
  /\ \/ \E code \in PublicCodes \ TakenCodes :
          /\ placed' = [j \in DOMAIN placed \cup {k} |-> IF j = k THEN newOrder(k, code) ELSE placed[j]]
          /\ goods' = redeemed(k) /\ baskets' = checkOutBasket(Wanted(k).basket)
          /\ checkout' = [j \in Checkouts |-> IF j = k THEN Ended(checkout[k], "placed")
                                              ELSE [checkout[j] EXCEPT !.calm = FALSE]]
          /\ UNCHANGED <<account, shopClock, changes>>
     \/ TakenCodes # {} /\ Refuse(k, "code")

\* The transaction fails, or its process stops: nothing of it stays.
fail(k) == checkout[k].phase = "place" /\ Refuse(k, "failed")

-----------------------------------------------------------------------------
(* The others, each committing one change. *)

Changed ==
  /\ changes < MaxChanges /\ changes' = changes + 1
  /\ checkout' = [k \in Checkouts |-> [checkout[k] EXCEPT !.calm = FALSE]]
  /\ UNCHANGED <<placed, shopClock>>
Sells(new) == Changed /\ goods' = new /\ new # goods /\ UNCHANGED <<baskets, account>>

\* A price from now, from the instant its change began, or from later on.
setPrice(amount, from) == from + 1 >= shopClock /\ Sells([goods EXCEPT !.price[from] = amount])
setOnSale(on) == Sells([goods EXCEPT !.onSale = on])
setStoreOnly(only) == Sells([goods EXCEPT !.storeOnly = only])
setShipping(fee) == Sells([goods EXCEPT !.fee = fee])
setPromotion(off) == Sells([goods EXCEPT !.auto = off])
\* It writes the row of the coupon, and that of the stock, so it waits for them.
endCoupon == (\A k \in Checkouts : ~locksCoupon(k)) /\ Sells([goods EXCEPT !.couponOn = FALSE])
adjustStock(n) == (\A k \in Checkouts : ~locksStock(k)) /\ Sells([goods EXCEPT !.stock = n, !.supply = (@ + n) - goods.stock])

changeBasket(b, quantity) ==
  /\ (\A k \in Checkouts : ~locksBasket(k, b)) /\ baskets[b].status = "ACTIVE" /\ baskets[b].quantity # quantity
  /\ baskets' = [baskets EXCEPT ![b].quantity = quantity]
  /\ Changed /\ UNCHANGED <<goods, account>>

\* suspendCustomer waits for the orders being placed; an address is deleted any time.
suspendCustomer ==
  /\ (\A k \in Checkouts : ~sharesAccount(k)) /\ account.active
  /\ account' = [account EXCEPT !.active = FALSE] /\ Changed /\ UNCHANGED <<goods, baskets>>
deleteAddress ==
  /\ account.saved /\ account' = [account EXCEPT !.saved = FALSE] /\ Changed /\ UNCHANGED <<goods, baskets>>

ShopTick ==
  /\ shopClock < MaxShopTime /\ shopClock' = shopClock + 1
  /\ checkout' = [k \in Checkouts |-> [checkout[k] EXCEPT !.calm = FALSE]]
  /\ UNCHANGED <<goods, baskets, account, placed, changes>>

goOn(k) ==
  \/ accept(k) \/ buyer(k) \/ cartToQuote(k) \/ shippingAddress(k) \/ readVariants(k) \/ readPrices(k) \/ discountOf(k)
  \/ quoteCoupon(k) \/ canFulfill(k) \/ quoteShipping(k) \/ countCoupon(k) \/ reserveStock(k) \/ insert(k)

Others ==
  \/ \E a \in UnitPrices, t \in ShopTimes : setPrice(a, t)
  \/ \E on \in BOOLEAN : setOnSale(on) \/ setStoreOnly(on)
  \/ \E fee \in ShippingFees : setShipping(fee)
  \/ \E off \in {0, DISCOUNT} : setPromotion(off)
  \/ endCoupon
  \/ \E n \in 0..InitialStock : adjustStock(n)
  \/ \E b \in Baskets, q \in 0..2 : changeBasket(b, q)
  \/ suspendCustomer \/ deleteAddress \/ ShopTick

CheckoutNext == (\E k \in Checkouts : (\E r \in Requests : ask(k, r)) \/ goOn(k) \/ fail(k)) \/ Others

CheckoutSpec == CheckoutInit /\ [][CheckoutNext]_checkoutVars

-----------------------------------------------------------------------------
(* Properties. *)

PlacedOrders == DOMAIN placed
OfBasket(b) == {k \in PlacedOrders : placed[k].basket = b}
UnitsPlaced == UNION {{k} \X (1..placed[k].quantity) : k \in PlacedOrders}
WithCoupon == {k \in PlacedOrders : placed[k].coupon}

\* However the checkouts interleave, with each other and with the changes, and wherever they stop: the stock left is
\* what was supplied less what the orders took; the uses of the coupon are the orders that have it, within its limit
\* and once per contact; a cart is checked out by exactly one order, which has what the cart has; and no two orders
\* share a public code.
OrdersAddUp ==
  /\ goods.stock + Cardinality(UnitsPlaced) = goods.supply
  /\ goods.uses = Cardinality(WithCoupon) /\ goods.uses <= UsageLimit
  /\ \A j, k \in WithCoupon : placed[j].contact = placed[k].contact => j = k
  /\ \A b \in Baskets :
       /\ Cardinality(OfBasket(b)) = IF baskets[b].status = "CHECKED_OUT" THEN 1 ELSE 0
       /\ \A k \in OfBasket(b) : placed[k].quantity = baskets[b].quantity
  /\ \A j, k \in PlacedOrders : placed[j].code = placed[k].code => j = k

\* A quote that is ready to place is kept: while nobody changed anything since it was asked for, placing its order is
\* not refused for what the quote looked at.  A coupon of once per customer is the exception: only the quote of a
\* customer online knows who buys.
QuoteIsKept ==
  \A k \in Checkouts :
    checkout[k].phase = "ended" /\ checkout[k].calm /\ checkout[k].ready =>
      /\ checkout[k].reason \notin {"basket", "unsellable", "total", "unavailable", "exhausted", "noEligibleLines", "stock"}
      /\ checkout[k].reason = "alreadyUsed" => Wanted(k).channel = "STORE" \/ ~Wanted(k).customer

\* An order costs what the buyer accepted, for what is in it.
PlacedAsAccepted ==
  /\ OrdersAddUp /\ QuoteIsKept
  /\ \A k \in PlacedOrders : placed[k].total = checkout[k].accepted /\ placed[k].total >= placed[k].quantity * placed[k].price - placed[k].off

Placing == {k \in Checkouts : checkout[k].phase = "place"}
Waits(k) ==
  \/ checkout[k].step = "basket" /\ Wanted(k).basket \in Baskets /\ ~BasketFree(k, Wanted(k).basket)
  \/ checkout[k].step = "coupon" /\ Wanted(k).coupon /\ ~CouponFree(k)
  \/ checkout[k].step = "stock" /\ ~StockFree(k)

\* Of the checkouts being placed, one at least waits for nothing: they never wait in a circle, nor for one that ended.
CheckoutsGoOn == Placing # {} => \E k \in Placing : ~Waits(k)

\* Orders are placed as their buyers accepted, and none keeps the others from it.
CheckoutsHold == PlacedAsAccepted /\ CheckoutsGoOn
=============================================================================
