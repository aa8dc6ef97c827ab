------------------------------ MODULE Shopping ------------------------------
(***************************************************************************)
(* Carts (src/modules/shopping) and what the orders do to them: a checkout *)
(* takes the lines of a cart, an order that expires gives them back when   *)
(* its event arrives, late, repeated or both, and a buyer or the staff     *)
(* buys an order again.  Every operation locks its carts, the one of a     *)
(* customer under a lock of the customer, so it is one action; one that is *)
(* refused changes nothing and is left out.                                *)
(*                                                                         *)
(* The code compares times in one place: whether a cart was used after an  *)
(* order of it expired.  That fact is kept with the order instead of both  *)
(* times.                                                                  *)
(***************************************************************************)
EXTENDS Naturals, FiniteSets

CONSTANTS
  Buyers,            \* customers with an account
  Guest,             \* the owner of the cart of nobody
  MaxCarts,          \* bound: carts, numbered in the order they were opened
  MaxShopOrders,     \* bound: orders
  CartVariants,
  MAX_LINE_QUANTITY, MAX_CART_LINES

CartIds == 1..MaxCarts
ShopOrders == 1..MaxShopOrders
NoCart == 0

ASSUME ShoppingAssumption ==
  /\ MaxCarts \in Nat /\ MaxShopOrders \in Nat /\ Guest \notin Buyers
  /\ MAX_LINE_QUANTITY \in Nat \ {0} /\ MAX_CART_LINES \in Nat \ {0}

VARIABLES
  carts,
  shopOrders   \* with each: whether it expired, whether its cart was used since, whether its event arrived,
               \* how often its lines came back, and whether the staff reopened its cart under it

shoppingVars == <<carts, shopOrders>>

Quantities == 0..MAX_LINE_QUANTITY
CartLines == [CartVariants -> Quantities]
NoLines == [v \in CartVariants |-> 0]
Owners == Buyers \cup {Guest}

ShoppingInit ==
  /\ carts = [c \in CartIds |-> [status |-> "NONE", owner |-> Guest, lines |-> NoLines, into |-> NoCart]]
  /\ shopOrders = [o \in ShopOrders |->
       [status |-> "NONE", cart |-> NoCart, owner |-> Guest, lines |-> NoLines, expired |-> FALSE, usedSince |-> FALSE,
        delivered |-> FALSE, restored |-> 0, reopened |-> FALSE]]

-----------------------------------------------------------------------------
(* Cart. *)

IsActive(c) == carts[c].status = "ACTIVE"
ActiveOf(b) == {c \in CartIds : IsActive(c) /\ carts[c].owner = b}
GuestCart(c) == IsActive(c) /\ carts[c].owner = Guest
Size(lines) == Cardinality({v \in CartVariants : lines[v] > 0})
opened(owner) == [status |-> "ACTIVE", owner |-> owner, lines |-> NoLines, into |-> NoCart]
Unopened(c) == carts[c].status = "NONE" /\ \A d \in 1..(c - 1) : carts[d].status # "NONE"

addCapped(lines, items) ==
  [v \in CartVariants |-> IF lines[v] + items[v] > MAX_LINE_QUANTITY THEN MAX_LINE_QUANTITY ELSE lines[v] + items[v]]

absorb(own, g) ==
  [carts EXCEPT ![own].lines = addCapped(@, carts[g].lines), ![g].status = "MERGED", ![g].into = own]
adoptBy(g, b) == [carts EXCEPT ![g].owner = b]
checkOut(c) == [carts EXCEPT ![c].status = "CHECKED_OUT"]
\* For an order that expired: its cart again, or its lines in another.
reactivate(c) == [carts EXCEPT ![c].status = "ACTIVE"]
absorbOrder(own, source, items) ==
  [carts EXCEPT ![own].lines = addCapped(@, items), ![source].status = "MERGED", ![source].into = own]
\* To buy an order again: its lines on top of others, or instead of those the cart was checked out with.
copyOrderLines(cart, items) == [cart EXCEPT !.lines = addCapped(@, items)]
reopenWith(c, items) == [carts EXCEPT ![c].status = "ACTIVE", ![c].lines = addCapped(NoLines, items)]

\* lastActivityAt moves past the expiries of before.
used(os, touched) == [o \in ShopOrders |-> IF os[o].cart \in touched THEN [os[o] EXCEPT !.usedSince = os[o].expired] ELSE os[o]]
\* The new carts, all of them used now.
saveCart(new, touched) == carts' = new /\ shopOrders' = used(shopOrders, touched)

\* The cart a change is for: an active guest's, or the active one of a customer, opened if there is none.
CartFor(owner, c) ==
  IF owner = Guest THEN GuestCart(c) ELSE c \in ActiveOf(owner) \/ (ActiveOf(owner) = {} /\ Unopened(c))
atHand(owner, c) == IF IsActive(c) THEN carts[c] ELSE opened(owner)

createGuestCart(c) == Unopened(c) /\ saveCart([carts EXCEPT ![c] = opened(Guest)], {})

addLine(owner, c, v, q) ==
  LET cart == atHand(owner, c) IN
  /\ CartFor(owner, c)
  /\ cart.lines[v] = 0 => Size(cart.lines) < MAX_CART_LINES
  /\ cart.lines[v] + q \in Quantities
  /\ saveCart([carts EXCEPT ![c] = [cart EXCEPT !.lines[v] = @ + q]], {c})

changeLine(c, v, q) == IsActive(c) /\ carts[c].lines[v] \notin {0, q} /\ saveCart([carts EXCEPT ![c].lines[v] = q], {c})
removeLine(c, v) == IsActive(c) /\ carts[c].lines[v] > 0 /\ saveCart([carts EXCEPT ![c].lines[v] = 0], {c})

\* At a sign in: the customer without an active cart adopts the guest's, and another's absorbs it.
merge(b, g) ==
  /\ GuestCart(g)
  /\ IF ActiveOf(b) = {} THEN saveCart(adoptBy(g, b), {g})
     ELSE \E own \in ActiveOf(b) : saveCart(absorb(own, g), {own, g})

-----------------------------------------------------------------------------
(* Orders. *)

FreeOrder(o) == shopOrders[o].status = "NONE" /\ \A p \in 1..(o - 1) : shopOrders[p].status # "NONE"

\* placeOrder: the lines of the cart, locked until the end, become an order.
placeCartOrder(o, c) ==
  /\ FreeOrder(o) /\ IsActive(c) /\ carts[c].lines # NoLines
  /\ carts' = checkOut(c)
  /\ shopOrders' = [used(shopOrders, {c}) EXCEPT ![o].status = "PENDING", ![o].cart = c, ![o].owner = carts[c].owner,
                                                 ![o].lines = carts[c].lines]

expireShopOrder(o) ==
  /\ shopOrders[o].status = "PENDING"
  /\ shopOrders' = [shopOrders EXCEPT ![o].status = "EXPIRED", ![o].expired = TRUE] /\ UNCHANGED carts

\* Paid in time, or late, when the order had expired.
payShopOrder(o) ==
  /\ shopOrders[o].status \in {"PENDING", "EXPIRED"}
  /\ shopOrders' = [shopOrders EXCEPT ![o].status = "PAID"] /\ UNCHANGED carts

cancelOrder(o) ==
  /\ shopOrders[o].status \in {"PENDING", "PAID"}
  /\ shopOrders' = [shopOrders EXCEPT ![o].status = "CANCELLED"] /\ UNCHANGED carts

\* Mutants: the times are compared the other way round; only the status of the cart is looked at.
alreadyRestoredBackwards(o) == carts[shopOrders[o].cart].status # "CHECKED_OUT" \/ ~shopOrders[o].usedSince
alreadyRestoredStatus(o) == carts[shopOrders[o].cart].status # "CHECKED_OUT"
alreadyRestored(o) == carts[shopOrders[o].cart].status # "CHECKED_OUT" \/ shopOrders[o].usedSince

unexpected(o) == carts[shopOrders[o].cart].status = "DELETED" \/ carts[shopOrders[o].cart].owner # shopOrders[o].owner

\* The active cart of the customer.
receiver(o) == IF shopOrders[o].owner = Guest THEN {} ELSE ActiveOf(shopOrders[o].owner)

\* restoreExpiredOrder: the event of an expired order arrives, at least once.
restoreExpiredOrder(o) ==
  LET order == shopOrders[o]  source == order.cart  count == [shopOrders EXCEPT ![o].delivered = TRUE, ![o].restored = @ + 1] IN
  /\ order.expired
  /\ IF unexpected(o) \/ alreadyRestored(o)
     THEN shopOrders' = [shopOrders EXCEPT ![o].delivered = TRUE] /\ UNCHANGED carts
     ELSE IF receiver(o) = {}
     THEN carts' = reactivate(source) /\ shopOrders' = used(count, {source})
     ELSE \E own \in receiver(o) :
            /\ carts' = absorbOrder(own, source, order.lines)
            /\ shopOrders' = used(count, {own, source})

\* Only the lines still sold come along.
soldOf(o, sold) == [v \in CartVariants |-> IF v \in sold THEN shopOrders[o].lines[v] ELSE 0]

linesToReorder(o) == shopOrders[o].status = "CANCELLED"

\* toCustomerCart, and toGuestCart with an active cart or a new one.
reorder(o, c, sold) ==
  LET owner == shopOrders[o].owner IN
  /\ linesToReorder(o)
  /\ CartFor(owner, c) \/ (owner = Guest /\ Unopened(c))
  /\ saveCart([carts EXCEPT ![c] = copyOrderLines(atHand(owner, c), soldOf(o, sold))], {c})

\* Waiting for its payment, or expired with its event on the way.
Unsettled(o) == shopOrders[o].status = "PENDING" \/ (shopOrders[o].expired /\ ~shopOrders[o].delivered)

\* toSourceCart: the staff buys the order of a guest again in the cart it came from, reopened with these lines.
reorderForGuest(o, sold) ==
  LET c == shopOrders[o].cart  lines == soldOf(o, sold) IN
  /\ linesToReorder(o) /\ shopOrders[o].owner = Guest
  /\ carts[c].owner = Guest /\ carts[c].status \in {"ACTIVE", "CHECKED_OUT"}
  /\ IF IsActive(c) THEN saveCart([carts EXCEPT ![c] = copyOrderLines(@, lines)], {c})
     ELSE /\ carts' = reopenWith(c, lines)
          /\ shopOrders' = LET os == used(shopOrders, {c}) IN
               [p \in ShopOrders |-> IF os[p].cart = c /\ Unsettled(p) THEN [os[p] EXCEPT !.reopened = TRUE] ELSE os[p]]

-----------------------------------------------------------------------------
(* The end of a cart. *)

\* With those merged into it.
deleteCartsOf(b) ==
  LET own == {c \in CartIds : carts[c].owner = b /\ carts[c].status \notin {"NONE", "DELETED"}}
      gone == own \cup {c \in CartIds : carts[c].status = "MERGED" /\ carts[c].into \in own} IN
  /\ own # {}
  /\ saveCart([c \in CartIds |-> IF c \in gone THEN [carts[c] EXCEPT !.status = "DELETED", !.lines = NoLines] ELSE carts[c]], {})

\* A guest's cart nobody used for months.
deleteInactive(c) ==
  /\ carts[c].owner = Guest /\ carts[c].status \notin {"NONE", "DELETED"}
  /\ saveCart([carts EXCEPT ![c].status = "DELETED", ![c].lines = NoLines], {})

ShoppingNext ==
  \/ \E c \in CartIds :
       \/ createGuestCart(c) \/ deleteInactive(c)
       \/ \E v \in CartVariants : \/ \E q \in 1..MAX_LINE_QUANTITY : \/ \E owner \in Owners : addLine(owner, c, v, q)
                                                                     \/ changeLine(c, v, q)
                                  \/ removeLine(c, v)
       \/ \E b \in Buyers : merge(b, c)
       \/ \E o \in ShopOrders : placeCartOrder(o, c) \/ \E sold \in SUBSET CartVariants : reorder(o, c, sold)
  \/ \E o \in ShopOrders : \/ expireShopOrder(o) \/ payShopOrder(o) \/ cancelOrder(o) \/ restoreExpiredOrder(o)
                           \/ \E sold \in SUBSET CartVariants : reorderForGuest(o, sold)
  \/ \E b \in Buyers : deleteCartsOf(b)
ShoppingSpec == ShoppingInit /\ [][ShoppingNext]_shoppingVars

-----------------------------------------------------------------------------
(* Properties. *)

\* Carts and orders, with no line above its limit after any way of adding up two carts.
ShoppingTypeOK ==
  /\ carts \in [CartIds -> [status : {"NONE", "ACTIVE", "CHECKED_OUT", "MERGED", "DELETED"}, owner : Owners,
                            lines : CartLines, into : CartIds \cup {NoCart}]]
  /\ \A o \in ShopOrders : shopOrders[o].status \in {"NONE", "PENDING", "PAID", "EXPIRED", "CANCELLED"}

\* A customer has one active cart at most, however carts are adopted, absorbed, reopened and given back.
OneActiveCart == \A b \in Buyers : Cardinality(ActiveOf(b)) <= 1

\* A cart that the staff reopened for an older order while another order of it was not settled (toSourceCart).
ReopenedUnder(c) == \E o \in ShopOrders : shopOrders[o].cart = c /\ shopOrders[o].reopened
Excused(c) == ReopenedUnder(c) \/ carts[c].status = "DELETED"

\* The lines of an order are not for sale again while it waits for its payment: its cart stays checked out, whatever
\* events of older orders arrive, unless the staff reopened it for one of those.
PendingKeepsCart ==
  \A o \in ShopOrders : LET c == shopOrders[o].cart IN
    shopOrders[o].status = "PENDING" => carts[c].status = "CHECKED_OUT" \/ Excused(c)

\* However late and however often the event of an expired order arrives, its lines come back once: not again after
\* the buyer ordered them again, and not never (restoreExpiredOrder).
RestoredOnce ==
  \A o \in ShopOrders : LET order == shopOrders[o] IN
    order.restored <= 1 /\ (order.delivered /\ order.restored = 0 => Excused(order.cart))

\* Carts follow the orders made of them, within their limits (checkOut, merge, restoreExpiredOrder, toSourceCart).
CartsFollowOrders == ShoppingTypeOK /\ OneActiveCart /\ PendingKeepsCart /\ RestoredOnce
=============================================================================
