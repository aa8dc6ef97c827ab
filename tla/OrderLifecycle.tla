--------------------------- MODULE OrderLifecycle ---------------------------
(***************************************************************************)
(* The life of an order (src/modules/ordering) with what it moves in other *)
(* modules: its reservation (Inventory), its payment and refund            *)
(* (Payments), its shipment (Shipping) and the use of its coupon           *)
(* (Promotions).                                                           *)
(*                                                                         *)
(* Every change locks the row of the order, or of the payment or shipment, *)
(* until its transaction ends, compares its version and rolls back whole   *)
(* when a call throws: it is one action.  What crosses transactions are    *)
(* the events: the outbox (module Outbox) gives each one to its handler at *)
(* least once, in any order, and again if the API fails before noting it.  *)
(* Whether the stock suffices depends on other orders (module Inventory):  *)
(* here both answers are possible.                                         *)
(***************************************************************************)
EXTENDS Integers, FiniteSets

CONSTANTS
  Orders,
  InStore,     \* the orders handed over in the store: the others ship
  WithCoupon,  \* the orders placed with the coupon
  UsageLimit   \* usage_limit of the coupon

ASSUME LifecycleAssumption ==
  InStore \subseteq Orders /\ WithCoupon \subseteq Orders /\ IsFiniteSet(WithCoupon) /\ UsageLimit \in Nat

VARIABLES
  status, paid,         \* orders: the status, and whether paid_at is set
  concluded, blocked,   \* whether concluded_at and blocked_at are set
  anonymized,
  booking,              \* the last reservation of the order
  taken, back,          \* how many times its stock left the warehouse, and came back in full
  payment, refund,      \* its payment, and the refund of it
  shipment,
  uses,                 \* uses counted of the coupon
  inbox                 \* the events published and not yet noted as delivered

orderVars == <<status, paid, concluded, blocked, anonymized>>
stockVars == <<booking, taken, back>>
moneyVars == <<payment, refund>>
vars == <<orderVars, stockVars, moneyVars, shipment, uses, inbox>>

Statuses == {"NONE", "PENDING_PAYMENT", "PAID", "AWAITING_MANUAL_FULFILLMENT", "SHIPPED", "DELIVERED",
             "CANCELLED", "EXPIRED", "REFUNDED"}
Bookings == {"NONE", "ACTIVE", "COMMITTED", "RELEASED", "EXPIRED"}
Payments == {"NONE", "PENDING", "CAPTURED", "CANCELLED", "REFUNDED"}
Refunds == {"NONE", "PENDING", "COMPLETED"}
Shipments == {"NONE", "PENDING", "DISPATCHED", "DELIVERED", "DELIVERY_FAILED", "RETURNED", "CANCELLED"}
EventTypes == {"PaymentCaptured", "RefundCompleted", "ShipmentDispatched", "ShipmentDelivered", "ShipmentReturned"}

TypeOK ==
  /\ status \in [Orders -> Statuses] /\ paid \in [Orders -> BOOLEAN]
  /\ concluded \in [Orders -> BOOLEAN] /\ blocked \in [Orders -> BOOLEAN] /\ anonymized \in [Orders -> BOOLEAN]
  /\ booking \in [Orders -> Bookings] /\ taken \in [Orders -> Nat] /\ back \in [Orders -> Nat]
  /\ payment \in [Orders -> Payments] /\ refund \in [Orders -> Refunds]
  /\ shipment \in [Orders -> Shipments]
  /\ uses \in Nat
  /\ inbox \subseteq EventTypes \X Orders

Init ==
  /\ status = [o \in Orders |-> "NONE"] /\ paid = [o \in Orders |-> FALSE]
  /\ concluded = [o \in Orders |-> FALSE] /\ blocked = [o \in Orders |-> FALSE] /\ anonymized = [o \in Orders |-> FALSE]
  /\ booking = [o \in Orders |-> "NONE"] /\ taken = [o \in Orders |-> 0] /\ back = [o \in Orders |-> 0]
  /\ payment = [o \in Orders |-> "NONE"] /\ refund = [o \in Orders |-> "NONE"]
  /\ shipment = [o \in Orders |-> "NONE"]
  /\ uses = 0 /\ inbox = {}

-----------------------------------------------------------------------------
(* What the order asks of the other modules.                               *)

publish(type, o) == inbox' = inbox \cup {<<type, o>>}

\* Inventory: reserve and commit at once, for a payment without a reservation.
takeStock(o) == booking' = [booking EXCEPT ![o] = "COMMITTED"] /\ taken' = [taken EXCEPT ![o] = @ + 1]

\* Mutant: an expired order keeps its reservation.
endBookingReleased(o, end) == booking' = [booking EXCEPT ![o] = IF @ = "ACTIVE" /\ end = "RELEASED" THEN end ELSE @]

\* Inventory: an active reservation ends; any other is left as it is.
endBooking(o, end) == booking' = [booking EXCEPT ![o] = IF @ = "ACTIVE" THEN end ELSE @]

\* Inventory: a restock brings back what was sold and has not come back, or is refused.
CanRestock(o) == booking[o] = "COMMITTED" /\ back[o] < 1
restockAll(o) == back' = [back EXCEPT ![o] = @ + 1]

\* Mutants: the refund is not started; a payment already captured is cancelled.
startRefundNot(o) == refund' = refund
cancelCaptured(o) == payment' = [payment EXCEPT ![o] = IF @ \in {"PENDING", "CAPTURED"} THEN "CANCELLED" ELSE @]

\* Payments: startRefund does nothing with a refund in progress or completed, and throws unless captured.
Refundable(o) == refund[o] # "NONE" \/ payment[o] = "CAPTURED"
startRefund(o) == refund' = [refund EXCEPT ![o] = IF @ = "NONE" THEN "PENDING" ELSE @]
cancelPending(o) == payment' = [payment EXCEPT ![o] = IF @ = "PENDING" THEN "CANCELLED" ELSE @]

\* Shipping: a paid order gets its shipment, unless it has one or is handed over in the store.
createShipment(o) ==
  shipment' = [shipment EXCEPT ![o] = IF o \notin InStore /\ @ = "NONE" THEN "PENDING" ELSE @]

\* Mutant: a late payment counts its use again only within the limit.
recountWithinLimit(o) == uses' = IF o \in WithCoupon /\ uses < UsageLimit THEN uses + 1 ELSE uses

\* Promotions: redeem stops at the limit, recount does not, and release goes down to zero.
recountUse(o) == uses' = IF o \in WithCoupon THEN uses + 1 ELSE uses
releaseUse(o) == uses' = IF o \in WithCoupon /\ uses > 0 THEN uses - 1 ELSE uses

-----------------------------------------------------------------------------
(* The order.                                                              *)

move(o, to) == status' = [status EXCEPT ![o] = to]
conclude(o, b) == concluded' = [concluded EXCEPT ![o] = b]

\* Mutant: the data of a reopened order stays blocked.
reopenBlocked(o) ==
  /\ paid' = [paid EXCEPT ![o] = TRUE]
  /\ concluded' = [concluded EXCEPT ![o] = FALSE]
  /\ UNCHANGED blocked

\* A payment reopens an order that had expired or was cancelled.
reopen(o) ==
  /\ paid' = [paid EXCEPT ![o] = TRUE]
  /\ concluded' = [concluded EXCEPT ![o] = FALSE]
  /\ blocked' = [blocked EXCEPT ![o] = FALSE]

\* isConcluded: a SHIPPED order concludes when its shipment comes back.
isConcluded(o) ==
  \/ status[o] \in {"DELIVERED", "EXPIRED", "REFUNDED"}
  \/ status[o] = "CANCELLED" /\ ~paid[o]
  \/ status[o] = "SHIPPED" /\ shipment[o] = "RETURNED"

\* Placing an order, online or in the store: the use of its coupon and its stock, or nothing at all.
placeOrder(o) ==
  /\ status[o] = "NONE"
  /\ o \in WithCoupon => uses < UsageLimit
  /\ recountUse(o)
  /\ booking' = [booking EXCEPT ![o] = "ACTIVE"]
  /\ move(o, "PENDING_PAYMENT")
  /\ UNCHANGED <<paid, concluded, blocked, anonymized, taken, back, moneyVars, shipment, inbox>>

\* Mutant: the reservation of a paid order is released too.
cancelReleasing(o, restock) ==
  /\ restock => status[o] = "PAID" /\ CanRestock(o)
  /\ status[o] \in {"PENDING_PAYMENT", "PAID", "AWAITING_MANUAL_FULFILLMENT"} /\ shipment[o] \in {"NONE", "PENDING"}
  /\ booking' = [booking EXCEPT ![o] = "RELEASED"]
  /\ IF status[o] = "PENDING_PAYMENT" THEN cancelPending(o) /\ UNCHANGED refund
     ELSE Refundable(o) /\ startRefund(o) /\ UNCHANGED payment
  /\ shipment' = [shipment EXCEPT ![o] = IF @ = "PENDING" THEN "CANCELLED" ELSE @]
  /\ releaseUse(o)
  /\ IF restock THEN restockAll(o) ELSE UNCHANGED back
  /\ move(o, "CANCELLED") /\ conclude(o, ~paid[o])
  /\ UNCHANGED <<paid, blocked, anonymized, taken, inbox>>

\* The staff cancels an order that was not shipped; one that is PAID may bring its stock back at once.
cancel(o, restock) ==
  /\ restock => status[o] = "PAID" /\ CanRestock(o)
  /\ \/ /\ status[o] = "PENDING_PAYMENT"
        /\ endBooking(o, "RELEASED") /\ cancelPending(o)
        /\ UNCHANGED <<shipment, refund>>
     \/ /\ status[o] \in {"PAID", "AWAITING_MANUAL_FULFILLMENT"}
        /\ shipment[o] \in {"NONE", "PENDING"} /\ Refundable(o)
        /\ shipment' = [shipment EXCEPT ![o] = IF @ = "PENDING" THEN "CANCELLED" ELSE @]
        /\ startRefund(o)
        /\ UNCHANGED <<booking, payment>>
  /\ releaseUse(o)
  /\ IF restock THEN restockAll(o) ELSE UNCHANGED back
  /\ move(o, "CANCELLED") /\ conclude(o, ~paid[o])
  /\ UNCHANGED <<paid, blocked, anonymized, taken, inbox>>

\* The staff found the stock of an order that waited for it.
retryFulfillment(o) ==
  /\ status[o] = "AWAITING_MANUAL_FULFILLMENT" /\ ~anonymized[o]
  /\ takeStock(o) /\ createShipment(o)
  /\ move(o, "PAID")
  /\ UNCHANGED <<paid, concluded, blocked, anonymized, back, moneyVars, uses, inbox>>

handOver(o) ==
  /\ o \in InStore /\ status[o] = "PAID"
  /\ move(o, "DELIVERED") /\ conclude(o, TRUE)
  /\ UNCHANGED <<paid, blocked, anonymized, stockVars, moneyVars, shipment, uses, inbox>>

\* The job finds its payment due, which may be at any moment, and looks again with the order locked.
expire(o) ==
  /\ status[o] = "PENDING_PAYMENT"
  /\ endBooking(o, "EXPIRED") /\ releaseUse(o)
  /\ move(o, "EXPIRED") /\ conclude(o, TRUE)
  /\ UNCHANGED <<paid, blocked, anonymized, taken, back, moneyVars, shipment, inbox>>

\* The staff brings the stock of an order back.
restock(o) ==
  /\ status[o] \in {"CANCELLED", "REFUNDED"} \/ shipment[o] = "RETURNED"
  /\ CanRestock(o) /\ restockAll(o)
  /\ UNCHANGED <<orderVars, booking, taken, moneyVars, shipment, uses, inbox>>

-----------------------------------------------------------------------------
(* Payments.                                                               *)

startPayment(o) ==
  /\ status[o] = "PENDING_PAYMENT" /\ payment[o] = "NONE"
  /\ payment' = [payment EXCEPT ![o] = "PENDING"]
  /\ UNCHANGED <<orderVars, stockVars, refund, shipment, uses, inbox>>

\* A payment in the store of an unpaid order, or of one that expired.
captureManually(o) ==
  /\ status[o] \in {"PENDING_PAYMENT", "EXPIRED"} /\ payment[o] \in {"NONE", "PENDING"}
  /\ payment' = [payment EXCEPT ![o] = "CAPTURED"]
  /\ publish("PaymentCaptured", o)
  /\ UNCHANGED <<orderVars, stockVars, refund, shipment, uses>>

registerManualRefund(o) ==
  /\ refund[o] = "PENDING"
  /\ refund' = [refund EXCEPT ![o] = "COMPLETED"]
  /\ payment' = [payment EXCEPT ![o] = "REFUNDED"]
  /\ publish("RefundCompleted", o)
  /\ UNCHANGED <<orderVars, stockVars, shipment, uses>>

-----------------------------------------------------------------------------
(* Shipping: the staff moves the shipment.                                 *)

\* Mutant: a shipment leaves whatever its status.
moveShipmentAny(o, from, to) ==
  /\ shipment[o] # "NONE"
  /\ shipment' = [shipment EXCEPT ![o] = to]
  /\ UNCHANGED <<orderVars, stockVars, moneyVars, uses>>

moveShipment(o, from, to) ==
  /\ shipment[o] = from
  /\ shipment' = [shipment EXCEPT ![o] = to]
  /\ UNCHANGED <<orderVars, stockVars, moneyVars, uses>>

dispatch(o) == moveShipment(o, "PENDING", "DISPATCHED") /\ publish("ShipmentDispatched", o)
deliver(o) == moveShipment(o, "DISPATCHED", "DELIVERED") /\ publish("ShipmentDelivered", o)
failDelivery(o) == moveShipment(o, "DISPATCHED", "DELIVERY_FAILED") /\ UNCHANGED inbox
markReturned(o) == moveShipment(o, "DELIVERY_FAILED", "RETURNED") /\ publish("ShipmentReturned", o)

-----------------------------------------------------------------------------
(* The handlers of the events.                                             *)

\* The reservation ended before the payment: reserve again, or wait for the staff.
latePayment(o) ==
  /\ reopen(o)
  /\ \/ /\ ~anonymized[o]
        /\ takeStock(o) /\ createShipment(o) /\ move(o, "PAID")
     \/ move(o, "AWAITING_MANUAL_FULFILLMENT") /\ UNCHANGED <<booking, taken, shipment>>
  /\ UNCHANGED refund

\* PaymentCaptured.  Its amount is the total of the order, which never changes.
recordPayment(o) ==
  /\ \/ /\ status[o] = "PENDING_PAYMENT" /\ booking[o] \in {"ACTIVE", "COMMITTED"}
        /\ IF booking[o] = "ACTIVE" THEN takeStock(o) ELSE UNCHANGED <<booking, taken>>
        /\ createShipment(o) /\ move(o, "PAID") /\ reopen(o)
        /\ UNCHANGED <<refund, uses>>
     \/ /\ status[o] = "PENDING_PAYMENT" /\ booking[o] \notin {"ACTIVE", "COMMITTED"}
        /\ latePayment(o) /\ UNCHANGED uses
     \/ /\ status[o] = "EXPIRED"
        /\ latePayment(o) /\ recountUse(o)
     \/ /\ status[o] = "CANCELLED" /\ ~paid[o] /\ Refundable(o)
        /\ reopen(o) /\ startRefund(o)
        /\ UNCHANGED <<status, booking, taken, shipment, uses>>
     \/ /\ status[o] \notin {"PENDING_PAYMENT", "EXPIRED"} /\ (status[o] = "CANCELLED" => paid[o])
        /\ UNCHANGED <<status, paid, concluded, blocked, booking, taken, refund, shipment, uses>>
  /\ UNCHANGED <<anonymized, back, payment>>

\* RefundCompleted.
recordRefund(o) ==
  /\ IF status[o] = "CANCELLED" /\ paid[o]
     THEN move(o, "REFUNDED") /\ conclude(o, TRUE)
     ELSE UNCHANGED <<status, concluded>>
  /\ UNCHANGED <<paid, blocked, anonymized, stockVars, moneyVars, shipment, uses>>

\* Mutant: a dispatch that arrives late takes a delivered order back.
recordShipmentLate(o) ==
  /\ IF status[o] \in {"PAID", "DELIVERED"} THEN move(o, "SHIPPED") ELSE UNCHANGED status
  /\ UNCHANGED <<paid, concluded, blocked, anonymized, stockVars, moneyVars, shipment, uses>>

\* ShipmentDispatched.
recordShipment(o) ==
  /\ IF status[o] = "PAID" THEN move(o, "SHIPPED") ELSE UNCHANGED status
  /\ UNCHANGED <<paid, concluded, blocked, anonymized, stockVars, moneyVars, shipment, uses>>

\* Mutant: a delivery that arrives before its dispatch is ignored.
recordDeliveryShipped(o) ==
  /\ IF status[o] = "SHIPPED" THEN move(o, "DELIVERED") /\ conclude(o, TRUE) ELSE UNCHANGED <<status, concluded>>
  /\ UNCHANGED <<paid, blocked, anonymized, stockVars, moneyVars, shipment, uses>>

\* ShipmentDelivered: an order still PAID goes through SHIPPED first.
recordDelivery(o) ==
  /\ IF status[o] \in {"PAID", "SHIPPED"}
     THEN move(o, "DELIVERED") /\ conclude(o, TRUE)
     ELSE UNCHANGED <<status, concluded>>
  /\ UNCHANGED <<paid, blocked, anonymized, stockVars, moneyVars, shipment, uses>>

\* ShipmentReturned.
recordReturn(o) ==
  /\ IF status[o] = "SHIPPED" THEN conclude(o, TRUE) ELSE UNCHANGED concluded
  /\ UNCHANGED <<status, paid, blocked, anonymized, stockVars, moneyVars, shipment, uses>>

\* An event is handled, and noted as delivered unless the API fails first: then it is handled again.
handle(type, o, noted) ==
  /\ <<type, o>> \in inbox
  /\ \/ type = "PaymentCaptured" /\ recordPayment(o)
     \/ type = "RefundCompleted" /\ recordRefund(o)
     \/ type = "ShipmentDispatched" /\ recordShipment(o)
     \/ type = "ShipmentDelivered" /\ recordDelivery(o)
     \/ type = "ShipmentReturned" /\ recordReturn(o)
  /\ inbox' = IF noted THEN inbox \ {<<type, o>>} ELSE inbox

-----------------------------------------------------------------------------
(* The data of the buyer.                                                  *)

\* The retention blocks it once the order concluded ...
block(o) ==
  /\ concluded[o] /\ ~blocked[o] /\ ~anonymized[o]
  /\ blocked' = [blocked EXCEPT ![o] = TRUE]
  /\ UNCHANGED <<status, paid, concluded, anonymized, stockVars, moneyVars, shipment, uses, inbox>>

\* ... and removes it later; so does a buyer who asks, whose order must have concluded.
anonymize(o) ==
  /\ isConcluded(o) /\ ~anonymized[o]
  /\ anonymized' = [anonymized EXCEPT ![o] = TRUE]
  /\ UNCHANGED <<status, paid, concluded, blocked, stockVars, moneyVars, shipment, uses, inbox>>

-----------------------------------------------------------------------------
Next ==
  \E o \in Orders :
    \/ placeOrder(o) \/ cancel(o, TRUE) \/ cancel(o, FALSE) \/ retryFulfillment(o) \/ handOver(o) \/ expire(o)
    \/ restock(o)
    \/ startPayment(o) \/ captureManually(o) \/ registerManualRefund(o)
    \/ dispatch(o) \/ deliver(o) \/ failDelivery(o) \/ markReturned(o)
    \/ \E type \in EventTypes, noted \in BOOLEAN : handle(type, o, noted)
    \/ block(o) \/ anonymize(o)

Spec == Init /\ [][Next]_vars

\* The outbox ends up delivering each event (Outbox, EventuallyApplied), and the job runs every minute.
FairSpec ==
  /\ Spec
  /\ \A o \in Orders : WF_vars(expire(o)) /\ \A type \in EventTypes : WF_vars(handle(type, o, TRUE))

-----------------------------------------------------------------------------
(* Properties.                                                             *)

Arriving(type, o) == <<type, o>> \in inbox
Fulfilling == {"PAID", "AWAITING_MANUAL_FULFILLMENT", "SHIPPED", "DELIVERED"}

\* The store keeps the money of an order exactly while it fulfils it: no goods without money, no refund of an
\* order that goes on, and no payment forgotten on a cancelled or expired one.
MoneyForGoods ==
  \A o \in Orders :
    /\ status[o] \in Fulfilling => payment[o] = "CAPTURED" /\ refund[o] = "NONE"
    /\ payment[o] = "CAPTURED" /\ refund[o] = "NONE" => status[o] \in Fulfilling \/ Arriving("PaymentCaptured", o)

\* An order holds stock exactly while it waits for its payment; the stock of one that is fulfilled left once,
\* whatever payments, expirations and retries did, and comes back only once.
StockFollowsOrder ==
  \A o \in Orders :
    /\ booking[o] = "ACTIVE" <=> status[o] = "PENDING_PAYMENT"
    /\ status[o] \in {"PAID", "SHIPPED", "DELIVERED"} => taken[o] = 1
    /\ back[o] <= taken[o] /\ taken[o] <= 1

\* BR-CAN-01: what left is not cancelled nor refunded, though the order hears late that it left; and goods that
\* are back in stock are not on their way nor with the customer.
GoodsInOnePlace ==
  \A o \in Orders :
    /\ status[o] \in {"CANCELLED", "REFUNDED"} => shipment[o] \in {"NONE", "CANCELLED"}
    /\ back[o] > 0 => shipment[o] \in {"NONE", "CANCELLED", "RETURNED"} /\ status[o] # "DELIVERED"

\* The coupon counts the orders that use it and are neither expired, cancelled nor refunded.
CouponCounted ==
  uses = Cardinality({o \in WithCoupon : status[o] \notin {"NONE", "EXPIRED", "CANCELLED", "REFUNDED"}})

\* No handler throws forever: a payment of a cancelled order can always be refunded.
NoPoisonedEvent ==
  \A o \in Orders : Arriving("PaymentCaptured", o) /\ status[o] = "CANCELLED" /\ ~paid[o] => Refundable(o)

\* ADR-0145, ADR-0151: an order whose data is blocked or removed never ships again, and only one that
\* concluded is blocked; the retention never meets an order with a date that has not concluded.
HiddenNeverMoves ==
  \A o \in Orders :
    /\ blocked[o] \/ anonymized[o] => shipment[o] \in {"NONE", "CANCELLED", "DELIVERED", "RETURNED"}
    /\ blocked[o] => concluded[o]
    /\ concluded[o] => isConcluded(o)

\* A delivered or refunded order has concluded for good, whatever arrives late or twice, and no payment takes
\* stock for an order whose data was removed.
FinalIsFinal ==
  [][\A o \in Orders :
       /\ status[o] \in {"DELIVERED", "REFUNDED"} => status'[o] = status[o] /\ concluded'[o]
       /\ anonymized[o] => anonymized'[o] /\ taken'[o] = taken[o]]_vars

\* The order implements the life of a reservation, whatever payments arrive late or twice: it asks the inventory
\* for nothing but what the inventory does, and never for the stock of an order that already left.
Life == INSTANCE ReservationLife WITH
  Reservers <- Orders, life <- booking, returned <- {o \in Orders : back[o] > 0}
AsksWhatIsPromised == Life!LifeSpec

\* Every captured payment reaches its order, and a completed refund too; an unpaid order does not wait forever.
EventuallyAgrees ==
  \A o \in Orders :
    /\ payment[o] = "CAPTURED" ~> paid[o]
    /\ refund[o] = "COMPLETED" ~> status[o] = "REFUNDED"
    /\ shipment[o] = "DELIVERED" ~> status[o] = "DELIVERED"
    /\ status[o] = "PENDING_PAYMENT" ~> status[o] # "PENDING_PAYMENT"

\* ADR-0151: a SHIPPED order concludes when its shipment comes back.
ReturnConcludes == \A o \in Orders : shipment[o] = "RETURNED" ~> concluded[o]
=============================================================================
