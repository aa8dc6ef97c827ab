------------------------ MODULE OrderLifecycleProofs ------------------------
(* An order, its stock, its payment, its shipment and its coupon agree, for *)
(* any orders, whatever the order in which their events arrive.             *)
EXTENDS OrderLifecycle, FiniteSetTheorems, TLAPS

-----------------------------------------------------------------------------
(* The inductive invariant, order by order.                                *)

\* Before its payment is known an order has no refund, no shipment, and its stock has not left.
Unpaid(o) == status[o] \in {"NONE", "PENDING_PAYMENT", "EXPIRED"} \/ (status[o] = "CANCELLED" /\ ~paid[o])

MoneyInv(o) ==
  /\ status[o] \in Fulfilling => payment[o] = "CAPTURED" /\ refund[o] = "NONE"
  /\ status[o] = "CANCELLED" /\ paid[o] => refund[o] # "NONE"
  /\ status[o] = "NONE" => payment[o] = "NONE"
  /\ Unpaid(o) => refund[o] = "NONE"
  /\ refund[o] = "COMPLETED" <=> payment[o] = "REFUNDED"
  /\ refund[o] = "PENDING" => payment[o] = "CAPTURED"
  /\ refund[o] # "NONE" => status[o] \in {"CANCELLED", "REFUNDED"}
  /\ Arriving("PaymentCaptured", o) => payment[o] \in {"CAPTURED", "REFUNDED"}
  /\ payment[o] = "CAPTURED" /\ refund[o] = "NONE" => status[o] \in Fulfilling \/ Arriving("PaymentCaptured", o)
  /\ status[o] \in Fulfilling => paid[o]
  /\ status[o] \in {"NONE", "PENDING_PAYMENT", "EXPIRED"} => ~paid[o]
  /\ status[o] = "REFUNDED" => refund[o] # "NONE"

StockInv(o) ==
  /\ booking[o] = "ACTIVE" <=> status[o] = "PENDING_PAYMENT"
  /\ status[o] \in {"PAID", "SHIPPED", "DELIVERED"} => booking[o] = "COMMITTED"
  /\ Unpaid(o) \/ status[o] = "AWAITING_MANUAL_FULFILLMENT" => booking[o] # "COMMITTED"
  /\ taken[o] = IF booking[o] = "COMMITTED" THEN 1 ELSE 0
  /\ back[o] <= taken[o]

ShipmentInv(o) ==
  /\ Unpaid(o) \/ status[o] = "AWAITING_MANUAL_FULFILLMENT" => shipment[o] = "NONE"
  /\ status[o] \in {"CANCELLED", "REFUNDED"} => shipment[o] \in {"NONE", "CANCELLED"}
  /\ status[o] = "DELIVERED" => shipment[o] \in {"NONE", "DELIVERED"}
  /\ shipment[o] = "CANCELLED" => status[o] \in {"CANCELLED", "REFUNDED"}
  /\ o \in InStore => shipment[o] = "NONE"
  /\ status[o] \in {"PAID", "SHIPPED"} /\ o \notin InStore => shipment[o] # "NONE"
  /\ status[o] = "SHIPPED" => o \notin InStore /\ shipment[o] # "PENDING"
  /\ Arriving("ShipmentDispatched", o) => shipment[o] \notin {"NONE", "PENDING", "CANCELLED"}
  /\ Arriving("ShipmentDelivered", o) => shipment[o] = "DELIVERED"
  /\ Arriving("ShipmentReturned", o) => shipment[o] = "RETURNED"
  /\ back[o] > 0 => status[o] \in {"CANCELLED", "REFUNDED"} \/ shipment[o] = "RETURNED"

DataInv(o) ==
  /\ blocked[o] => concluded[o]
  /\ concluded[o] => isConcluded(o)
  /\ status[o] \in {"DELIVERED", "EXPIRED", "REFUNDED"} => concluded[o]
  /\ anonymized[o] => isConcluded(o) \/ status[o] \in {"AWAITING_MANUAL_FULFILLMENT", "CANCELLED"}

OrderInv(o) == MoneyInv(o) /\ StockInv(o) /\ ShipmentInv(o) /\ DataInv(o)

LifecycleInv == TypeOK /\ (\A o \in Orders : OrderInv(o)) /\ CouponCounted

\* Nothing of an order changed.
Same(p) ==
  /\ status'[p] = status[p] /\ paid'[p] = paid[p] /\ concluded'[p] = concluded[p]
  /\ blocked'[p] = blocked[p] /\ anonymized'[p] = anonymized[p]
  /\ booking'[p] = booking[p] /\ taken'[p] = taken[p] /\ back'[p] = back[p]
  /\ payment'[p] = payment[p] /\ refund'[p] = refund[p] /\ shipment'[p] = shipment[p]
  /\ \A type \in EventTypes : (<<type, p>> \in inbox') = (<<type, p>> \in inbox)

\* The orders that use the coupon and count.
Counts(o) == status[o] \notin {"NONE", "EXPIRED", "CANCELLED", "REFUNDED"}

\* The uses of the coupon move with the order.
UseMoves(o) ==
  \/ uses' = uses /\ (o \in WithCoupon => (Counts(o)' <=> Counts(o)))
  \/ uses' = uses + 1 /\ o \in WithCoupon /\ ~Counts(o) /\ Counts(o)'
  \/ uses' = (IF uses > 0 THEN uses - 1 ELSE uses) /\ o \in WithCoupon /\ Counts(o) /\ ~Counts(o)'

\* A delivered or refunded order stays so, and one without data takes no stock.
Stays(o) ==
  /\ status[o] \in {"DELIVERED", "REFUNDED"} => status'[o] = status[o] /\ concluded'[o]
  /\ anonymized[o] => anonymized'[o] /\ taken'[o] = taken[o]

\* What a step about one order keeps.
Keeps(o) == TypeOK' /\ OrderInv(o)' /\ (\A p \in Orders \ {o} : Same(p)) /\ UseMoves(o) /\ Stays(o)

-----------------------------------------------------------------------------
(* One lemma per operation and handler.                                    *)

\* An order is placed.
LEMMA PlaceKeeps ==
  ASSUME TypeOK, NEW o \in Orders, OrderInv(o), placeOrder(o)
  PROVE  Keeps(o)
<1> USE DEF placeOrder, move, recountUse, orderVars, moneyVars
<1>1. TypeOK'
  BY DEF TypeOK, Statuses, Bookings
<1>2. \A p \in Orders \ {o} : Same(p)
  BY DEF Same, TypeOK
<1>3. MoneyInv(o)'
  BY DEF TypeOK, OrderInv, MoneyInv, Unpaid, Arriving, Fulfilling
<1>4. StockInv(o)'
  BY DEF TypeOK, OrderInv, StockInv, Unpaid
<1>5. ShipmentInv(o)'
  BY DEF TypeOK, OrderInv, ShipmentInv, StockInv, Unpaid, Arriving
<1>6. DataInv(o)'
  BY DEF TypeOK, OrderInv, DataInv, isConcluded
<1>7. UseMoves(o)
  BY DEF TypeOK, UseMoves, Counts
<1>8. Stays(o)
  BY DEF TypeOK, OrderInv, StockInv, ShipmentInv, DataInv, isConcluded, Stays
<1> QED
  BY <1>1, <1>2, <1>3, <1>4, <1>5, <1>6, <1>7, <1>8 DEF Keeps, OrderInv

\* The staff cancels an order.
LEMMA CancelKeeps ==
  ASSUME TypeOK, NEW o \in Orders, OrderInv(o), NEW again \in BOOLEAN, cancel(o, again)
  PROVE  Keeps(o)
<1> USE DEF cancel, CanRestock, restockAll, endBooking, cancelPending, Refundable, startRefund, releaseUse, move, conclude
<1>1. TypeOK'
  BY DEF TypeOK, Statuses, Bookings, Payments, Refunds, Shipments
<1>2. \A p \in Orders \ {o} : Same(p)
  BY DEF Same, TypeOK
<1>3. MoneyInv(o)'
  BY DEF TypeOK, OrderInv, MoneyInv, Unpaid, Arriving, Fulfilling
<1>4. StockInv(o)'
  <2>1. CASE status[o] = "PENDING_PAYMENT"
    BY <2>1 DEF TypeOK, OrderInv, StockInv, MoneyInv, Unpaid
  <2>2. CASE status[o] # "PENDING_PAYMENT"
    BY <2>2 DEF TypeOK, OrderInv, StockInv, MoneyInv, Unpaid, Fulfilling
  <2> QED
    BY <2>1, <2>2
<1>5. ShipmentInv(o)'
  <2>1. CASE status[o] = "PENDING_PAYMENT"
    BY <2>1 DEF TypeOK, OrderInv, StockInv, MoneyInv, ShipmentInv, Unpaid, Arriving
  <2>2. CASE status[o] # "PENDING_PAYMENT"
    BY <2>2 DEF TypeOK, OrderInv, StockInv, MoneyInv, ShipmentInv, Unpaid, Fulfilling, Arriving
  <2> QED
    BY <2>1, <2>2
<1>6. DataInv(o)'
  BY DEF TypeOK, OrderInv, DataInv, isConcluded
<1>7. UseMoves(o)
  BY DEF TypeOK, UseMoves, Counts
<1>8. Stays(o)
  BY DEF TypeOK, OrderInv, StockInv, ShipmentInv, DataInv, isConcluded, Stays
<1> QED
  BY <1>1, <1>2, <1>3, <1>4, <1>5, <1>6, <1>7, <1>8 DEF Keeps, OrderInv

\* The stock of an order that waited is found.
LEMMA RetryKeeps ==
  ASSUME TypeOK, NEW o \in Orders, OrderInv(o), retryFulfillment(o)
  PROVE  Keeps(o)
<1> USE DEF retryFulfillment, takeStock, createShipment, move, moneyVars
<1>1. TypeOK'
  BY DEF TypeOK, Statuses, Bookings, Payments, Refunds, Shipments, EventTypes
<1>2. \A p \in Orders \ {o} : Same(p)
  BY DEF Same, TypeOK
<1>3. MoneyInv(o)'
  BY DEF TypeOK, OrderInv, MoneyInv, Unpaid, Arriving, Fulfilling
<1>4. StockInv(o)'
  BY DEF TypeOK, OrderInv, MoneyInv, StockInv, Unpaid, Fulfilling
<1>5. ShipmentInv(o)'
  BY DEF TypeOK, OrderInv, MoneyInv, StockInv, ShipmentInv, Unpaid, Arriving, Fulfilling
<1>6. DataInv(o)'
  BY DEF TypeOK, OrderInv, MoneyInv, DataInv, isConcluded
<1>7. UseMoves(o)
  BY DEF TypeOK, UseMoves, Counts
<1>8. Stays(o)
  BY DEF TypeOK, OrderInv, StockInv, ShipmentInv, DataInv, isConcluded, Stays
<1> QED
  BY <1>1, <1>2, <1>3, <1>4, <1>5, <1>6, <1>7, <1>8 DEF Keeps, OrderInv

\* An order is handed over.
LEMMA HandOverKeeps ==
  ASSUME TypeOK, NEW o \in Orders, OrderInv(o), handOver(o)
  PROVE  Keeps(o)
<1> USE DEF handOver, move, conclude, stockVars, moneyVars
<1>1. TypeOK'
  BY DEF TypeOK, Statuses, Bookings, Payments, Refunds, Shipments, EventTypes
<1>2. \A p \in Orders \ {o} : Same(p)
  BY DEF Same, TypeOK
<1>3. MoneyInv(o)'
  BY DEF TypeOK, OrderInv, MoneyInv, Unpaid, Arriving, Fulfilling
<1>4. StockInv(o)'
  BY DEF TypeOK, OrderInv, MoneyInv, StockInv, Unpaid, Fulfilling
<1>5. ShipmentInv(o)'
  BY DEF TypeOK, OrderInv, MoneyInv, StockInv, ShipmentInv, Unpaid, Arriving, Fulfilling
<1>6. DataInv(o)'
  BY DEF TypeOK, OrderInv, MoneyInv, DataInv, isConcluded
<1>7. UseMoves(o)
  BY DEF TypeOK, UseMoves, Counts
<1>8. Stays(o)
  BY DEF TypeOK, OrderInv, StockInv, ShipmentInv, DataInv, isConcluded, Stays
<1> QED
  BY <1>1, <1>2, <1>3, <1>4, <1>5, <1>6, <1>7, <1>8 DEF Keeps, OrderInv

\* An order expires.
LEMMA ExpireKeeps ==
  ASSUME TypeOK, NEW o \in Orders, OrderInv(o), expire(o)
  PROVE  Keeps(o)
<1> USE DEF expire, endBooking, releaseUse, move, conclude, moneyVars
<1>1. TypeOK'
  BY DEF TypeOK, Statuses, Bookings, Payments, Refunds, Shipments, EventTypes
<1>2. \A p \in Orders \ {o} : Same(p)
  BY DEF Same, TypeOK
<1>3. MoneyInv(o)'
  BY DEF TypeOK, OrderInv, MoneyInv, Unpaid, Arriving, Fulfilling
<1>4. StockInv(o)'
  BY DEF TypeOK, OrderInv, MoneyInv, StockInv, Unpaid, Fulfilling
<1>5. ShipmentInv(o)'
  BY DEF TypeOK, OrderInv, MoneyInv, StockInv, ShipmentInv, Unpaid, Arriving, Fulfilling
<1>6. DataInv(o)'
  BY DEF TypeOK, OrderInv, MoneyInv, DataInv, isConcluded
<1>7. UseMoves(o)
  BY DEF TypeOK, UseMoves, Counts
<1>8. Stays(o)
  BY DEF TypeOK, OrderInv, StockInv, ShipmentInv, DataInv, isConcluded, Stays
<1> QED
  BY <1>1, <1>2, <1>3, <1>4, <1>5, <1>6, <1>7, <1>8 DEF Keeps, OrderInv

\* The stock of an order comes back.
LEMMA RestockKeeps ==
  ASSUME TypeOK, NEW o \in Orders, OrderInv(o), restock(o)
  PROVE  Keeps(o)
<1> USE DEF restock, CanRestock, restockAll, orderVars, moneyVars
<1>1. TypeOK'
  BY DEF TypeOK, Statuses, Bookings, Payments, Refunds, Shipments, EventTypes
<1>2. \A p \in Orders \ {o} : Same(p)
  BY DEF Same, TypeOK
<1>3. MoneyInv(o)'
  BY DEF TypeOK, OrderInv, MoneyInv, Unpaid, Arriving, Fulfilling
<1>4. StockInv(o)'
  BY DEF TypeOK, OrderInv, MoneyInv, StockInv, Unpaid, Fulfilling
<1>5. ShipmentInv(o)'
  BY DEF TypeOK, OrderInv, MoneyInv, StockInv, ShipmentInv, Unpaid, Arriving, Fulfilling
<1>6. DataInv(o)'
  BY DEF TypeOK, OrderInv, MoneyInv, DataInv, isConcluded
<1>7. UseMoves(o)
  BY DEF TypeOK, UseMoves, Counts
<1>8. Stays(o)
  BY DEF TypeOK, OrderInv, StockInv, ShipmentInv, DataInv, isConcluded, Stays
<1> QED
  BY <1>1, <1>2, <1>3, <1>4, <1>5, <1>6, <1>7, <1>8 DEF Keeps, OrderInv

\* A payment starts.
LEMMA StartPaymentKeeps ==
  ASSUME TypeOK, NEW o \in Orders, OrderInv(o), startPayment(o)
  PROVE  Keeps(o)
<1> USE DEF startPayment, orderVars, stockVars
<1>1. TypeOK'
  BY DEF TypeOK, Statuses, Bookings, Payments, Refunds, Shipments, EventTypes
<1>2. \A p \in Orders \ {o} : Same(p)
  BY DEF Same, TypeOK
<1>3. MoneyInv(o)'
  BY DEF TypeOK, OrderInv, MoneyInv, Unpaid, Arriving, Fulfilling
<1>4. StockInv(o)'
  BY DEF TypeOK, OrderInv, MoneyInv, StockInv, Unpaid, Fulfilling
<1>5. ShipmentInv(o)'
  BY DEF TypeOK, OrderInv, MoneyInv, StockInv, ShipmentInv, Unpaid, Arriving, Fulfilling
<1>6. DataInv(o)'
  BY DEF TypeOK, OrderInv, MoneyInv, DataInv, isConcluded
<1>7. UseMoves(o)
  BY DEF TypeOK, UseMoves, Counts
<1>8. Stays(o)
  BY DEF TypeOK, OrderInv, StockInv, ShipmentInv, DataInv, isConcluded, Stays
<1> QED
  BY <1>1, <1>2, <1>3, <1>4, <1>5, <1>6, <1>7, <1>8 DEF Keeps, OrderInv

\* A payment is captured.
LEMMA CaptureKeeps ==
  ASSUME TypeOK, NEW o \in Orders, OrderInv(o), captureManually(o)
  PROVE  Keeps(o)
<1> USE DEF captureManually, publish, orderVars, stockVars
<1>1. TypeOK'
  BY DEF TypeOK, Statuses, Bookings, Payments, Refunds, Shipments, EventTypes
<1>2. \A p \in Orders \ {o} : Same(p)
  BY DEF Same, TypeOK
<1>3. MoneyInv(o)'
  BY DEF TypeOK, OrderInv, MoneyInv, Unpaid, Arriving, Fulfilling
<1>4. StockInv(o)'
  BY DEF TypeOK, OrderInv, MoneyInv, StockInv, Unpaid, Fulfilling
<1>5. ShipmentInv(o)'
  BY DEF TypeOK, OrderInv, MoneyInv, StockInv, ShipmentInv, Unpaid, Arriving, Fulfilling
<1>6. DataInv(o)'
  BY DEF TypeOK, OrderInv, MoneyInv, DataInv, isConcluded
<1>7. UseMoves(o)
  BY DEF TypeOK, UseMoves, Counts
<1>8. Stays(o)
  BY DEF TypeOK, OrderInv, StockInv, ShipmentInv, DataInv, isConcluded, Stays
<1> QED
  BY <1>1, <1>2, <1>3, <1>4, <1>5, <1>6, <1>7, <1>8 DEF Keeps, OrderInv

\* A refund is completed.
LEMMA ManualRefundKeeps ==
  ASSUME TypeOK, NEW o \in Orders, OrderInv(o), registerManualRefund(o)
  PROVE  Keeps(o)
<1> USE DEF registerManualRefund, publish, orderVars, stockVars
<1>1. TypeOK'
  BY DEF TypeOK, Statuses, Bookings, Payments, Refunds, Shipments, EventTypes
<1>2. \A p \in Orders \ {o} : Same(p)
  BY DEF Same, TypeOK
<1>3. MoneyInv(o)'
  BY DEF TypeOK, OrderInv, MoneyInv, Unpaid, Arriving, Fulfilling
<1>4. StockInv(o)'
  BY DEF TypeOK, OrderInv, MoneyInv, StockInv, Unpaid, Fulfilling
<1>5. ShipmentInv(o)'
  BY DEF TypeOK, OrderInv, MoneyInv, StockInv, ShipmentInv, Unpaid, Arriving, Fulfilling
<1>6. DataInv(o)'
  BY DEF TypeOK, OrderInv, MoneyInv, DataInv, isConcluded
<1>7. UseMoves(o)
  BY DEF TypeOK, UseMoves, Counts
<1>8. Stays(o)
  BY DEF TypeOK, OrderInv, StockInv, ShipmentInv, DataInv, isConcluded, Stays
<1> QED
  BY <1>1, <1>2, <1>3, <1>4, <1>5, <1>6, <1>7, <1>8 DEF Keeps, OrderInv

\* A shipment leaves.
LEMMA DispatchKeeps ==
  ASSUME TypeOK, NEW o \in Orders, OrderInv(o), dispatch(o)
  PROVE  Keeps(o)
<1> USE DEF dispatch, moveShipment, publish, orderVars, stockVars, moneyVars
<1>1. TypeOK'
  BY DEF TypeOK, Statuses, Bookings, Payments, Refunds, Shipments, EventTypes
<1>2. \A p \in Orders \ {o} : Same(p)
  BY DEF Same, TypeOK
<1>3. MoneyInv(o)'
  BY DEF TypeOK, OrderInv, MoneyInv, Unpaid, Arriving, Fulfilling
<1>4. StockInv(o)'
  BY DEF TypeOK, OrderInv, MoneyInv, StockInv, Unpaid, Fulfilling
<1>5. ShipmentInv(o)'
  BY DEF TypeOK, OrderInv, MoneyInv, StockInv, ShipmentInv, Unpaid, Arriving, Fulfilling
<1>6. DataInv(o)'
  BY DEF TypeOK, OrderInv, MoneyInv, ShipmentInv, DataInv, Unpaid, isConcluded, Fulfilling
<1>7. UseMoves(o)
  BY DEF TypeOK, UseMoves, Counts
<1>8. Stays(o)
  BY DEF TypeOK, OrderInv, StockInv, ShipmentInv, DataInv, isConcluded, Stays
<1> QED
  BY <1>1, <1>2, <1>3, <1>4, <1>5, <1>6, <1>7, <1>8 DEF Keeps, OrderInv

\* A shipment is delivered.
LEMMA DeliverKeeps ==
  ASSUME TypeOK, NEW o \in Orders, OrderInv(o), deliver(o)
  PROVE  Keeps(o)
<1> USE DEF deliver, moveShipment, publish, orderVars, stockVars, moneyVars
<1>1. TypeOK'
  BY DEF TypeOK, Statuses, Bookings, Payments, Refunds, Shipments, EventTypes
<1>2. \A p \in Orders \ {o} : Same(p)
  BY DEF Same, TypeOK
<1>3. MoneyInv(o)'
  BY DEF TypeOK, OrderInv, MoneyInv, Unpaid, Arriving, Fulfilling
<1>4. StockInv(o)'
  BY DEF TypeOK, OrderInv, MoneyInv, StockInv, Unpaid, Fulfilling
<1>5. ShipmentInv(o)'
  BY DEF TypeOK, OrderInv, MoneyInv, StockInv, ShipmentInv, Unpaid, Arriving, Fulfilling
<1>6. DataInv(o)'
  BY DEF TypeOK, OrderInv, MoneyInv, ShipmentInv, DataInv, Unpaid, isConcluded, Fulfilling
<1>7. UseMoves(o)
  BY DEF TypeOK, UseMoves, Counts
<1>8. Stays(o)
  BY DEF TypeOK, OrderInv, StockInv, ShipmentInv, DataInv, isConcluded, Stays
<1> QED
  BY <1>1, <1>2, <1>3, <1>4, <1>5, <1>6, <1>7, <1>8 DEF Keeps, OrderInv

\* A delivery fails.
LEMMA FailDeliveryKeeps ==
  ASSUME TypeOK, NEW o \in Orders, OrderInv(o), failDelivery(o)
  PROVE  Keeps(o)
<1> USE DEF failDelivery, moveShipment, publish, orderVars, stockVars, moneyVars
<1>1. TypeOK'
  BY DEF TypeOK, Statuses, Bookings, Payments, Refunds, Shipments, EventTypes
<1>2. \A p \in Orders \ {o} : Same(p)
  BY DEF Same, TypeOK
<1>3. MoneyInv(o)'
  BY DEF TypeOK, OrderInv, MoneyInv, Unpaid, Arriving, Fulfilling
<1>4. StockInv(o)'
  BY DEF TypeOK, OrderInv, MoneyInv, StockInv, Unpaid, Fulfilling
<1>5. ShipmentInv(o)'
  BY DEF TypeOK, OrderInv, MoneyInv, StockInv, ShipmentInv, Unpaid, Arriving, Fulfilling
<1>6. DataInv(o)'
  BY DEF TypeOK, OrderInv, MoneyInv, ShipmentInv, DataInv, Unpaid, isConcluded, Fulfilling
<1>7. UseMoves(o)
  BY DEF TypeOK, UseMoves, Counts
<1>8. Stays(o)
  BY DEF TypeOK, OrderInv, StockInv, ShipmentInv, DataInv, isConcluded, Stays
<1> QED
  BY <1>1, <1>2, <1>3, <1>4, <1>5, <1>6, <1>7, <1>8 DEF Keeps, OrderInv

\* A shipment comes back.
LEMMA ReturnedKeeps ==
  ASSUME TypeOK, NEW o \in Orders, OrderInv(o), markReturned(o)
  PROVE  Keeps(o)
<1> USE DEF markReturned, moveShipment, publish, orderVars, stockVars, moneyVars
<1>1. TypeOK'
  BY DEF TypeOK, Statuses, Bookings, Payments, Refunds, Shipments, EventTypes
<1>2. \A p \in Orders \ {o} : Same(p)
  BY DEF Same, TypeOK
<1>3. MoneyInv(o)'
  BY DEF TypeOK, OrderInv, MoneyInv, Unpaid, Arriving, Fulfilling
<1>4. StockInv(o)'
  BY DEF TypeOK, OrderInv, MoneyInv, StockInv, Unpaid, Fulfilling
<1>5. ShipmentInv(o)'
  BY DEF TypeOK, OrderInv, MoneyInv, StockInv, ShipmentInv, Unpaid, Arriving, Fulfilling
<1>6. DataInv(o)'
  BY DEF TypeOK, OrderInv, MoneyInv, ShipmentInv, DataInv, Unpaid, isConcluded, Fulfilling
<1>7. UseMoves(o)
  BY DEF TypeOK, UseMoves, Counts
<1>8. Stays(o)
  BY DEF TypeOK, OrderInv, StockInv, ShipmentInv, DataInv, isConcluded, Stays
<1> QED
  BY <1>1, <1>2, <1>3, <1>4, <1>5, <1>6, <1>7, <1>8 DEF Keeps, OrderInv

\* The data of an order is blocked.
LEMMA BlockKeeps ==
  ASSUME TypeOK, NEW o \in Orders, OrderInv(o), block(o)
  PROVE  Keeps(o)
<1> USE DEF block, stockVars, moneyVars
<1>1. TypeOK'
  BY DEF TypeOK, Statuses, Bookings, Payments, Refunds, Shipments, EventTypes
<1>2. \A p \in Orders \ {o} : Same(p)
  BY DEF Same, TypeOK
<1>3. MoneyInv(o)'
  BY DEF TypeOK, OrderInv, MoneyInv, Unpaid, Arriving, Fulfilling
<1>4. StockInv(o)'
  BY DEF TypeOK, OrderInv, MoneyInv, StockInv, Unpaid, Fulfilling
<1>5. ShipmentInv(o)'
  BY DEF TypeOK, OrderInv, MoneyInv, StockInv, ShipmentInv, Unpaid, Arriving, Fulfilling
<1>6. DataInv(o)'
  BY DEF TypeOK, OrderInv, MoneyInv, DataInv, isConcluded
<1>7. UseMoves(o)
  BY DEF TypeOK, UseMoves, Counts
<1>8. Stays(o)
  BY DEF TypeOK, OrderInv, StockInv, ShipmentInv, DataInv, isConcluded, Stays
<1> QED
  BY <1>1, <1>2, <1>3, <1>4, <1>5, <1>6, <1>7, <1>8 DEF Keeps, OrderInv

\* The data of an order is removed.
LEMMA AnonymizeKeeps ==
  ASSUME TypeOK, NEW o \in Orders, OrderInv(o), anonymize(o)
  PROVE  Keeps(o)
<1> USE DEF anonymize, stockVars, moneyVars
<1>1. TypeOK'
  BY DEF TypeOK, Statuses, Bookings, Payments, Refunds, Shipments, EventTypes
<1>2. \A p \in Orders \ {o} : Same(p)
  BY DEF Same, TypeOK
<1>3. MoneyInv(o)'
  BY DEF TypeOK, OrderInv, MoneyInv, Unpaid, Arriving, Fulfilling
<1>4. StockInv(o)'
  BY DEF TypeOK, OrderInv, MoneyInv, StockInv, Unpaid, Fulfilling
<1>5. ShipmentInv(o)'
  BY DEF TypeOK, OrderInv, MoneyInv, StockInv, ShipmentInv, Unpaid, Arriving, Fulfilling
<1>6. DataInv(o)'
  BY DEF TypeOK, OrderInv, MoneyInv, DataInv, isConcluded
<1>7. UseMoves(o)
  BY DEF TypeOK, UseMoves, Counts
<1>8. Stays(o)
  BY DEF TypeOK, OrderInv, StockInv, ShipmentInv, DataInv, isConcluded, Stays
<1> QED
  BY <1>1, <1>2, <1>3, <1>4, <1>5, <1>6, <1>7, <1>8 DEF Keeps, OrderInv

\* The order hears of its refund.
LEMMA RecordRefundKeeps ==
  ASSUME TypeOK, NEW o \in Orders, OrderInv(o), NEW noted \in BOOLEAN,
         <<"RefundCompleted", o>> \in inbox, recordRefund(o), inbox' = IF noted THEN inbox \ {<<"RefundCompleted", o>>} ELSE inbox
  PROVE  Keeps(o)
<1> USE DEF recordRefund, move, conclude, stockVars, moneyVars
<1>1. TypeOK'
  BY DEF TypeOK, Statuses, Bookings, Payments, Refunds, Shipments, EventTypes
<1>2. \A p \in Orders \ {o} : Same(p)
  BY DEF Same, TypeOK
<1>3. MoneyInv(o)'
  BY DEF TypeOK, OrderInv, MoneyInv, Unpaid, Arriving, Fulfilling
<1>4. StockInv(o)'
  BY DEF TypeOK, OrderInv, MoneyInv, StockInv, Unpaid, Fulfilling
<1>5. ShipmentInv(o)'
  BY DEF TypeOK, OrderInv, MoneyInv, StockInv, ShipmentInv, Unpaid, Arriving, Fulfilling
<1>6. DataInv(o)'
  BY DEF TypeOK, OrderInv, MoneyInv, ShipmentInv, DataInv, Unpaid, isConcluded, Fulfilling
<1>7. UseMoves(o)
  BY DEF TypeOK, UseMoves, Counts
<1>8. Stays(o)
  BY DEF TypeOK, OrderInv, StockInv, ShipmentInv, DataInv, isConcluded, Stays
<1> QED
  BY <1>1, <1>2, <1>3, <1>4, <1>5, <1>6, <1>7, <1>8 DEF Keeps, OrderInv

\* The order hears that it left.
LEMMA RecordShipmentKeeps ==
  ASSUME TypeOK, NEW o \in Orders, OrderInv(o), NEW noted \in BOOLEAN,
         <<"ShipmentDispatched", o>> \in inbox, recordShipment(o), inbox' = IF noted THEN inbox \ {<<"ShipmentDispatched", o>>} ELSE inbox
  PROVE  Keeps(o)
<1> USE DEF recordShipment, move, stockVars, moneyVars
<1>1. TypeOK'
  BY DEF TypeOK, Statuses, Bookings, Payments, Refunds, Shipments, EventTypes
<1>2. \A p \in Orders \ {o} : Same(p)
  BY DEF Same, TypeOK
<1>3. MoneyInv(o)'
  BY DEF TypeOK, OrderInv, MoneyInv, Unpaid, Arriving, Fulfilling
<1>4. StockInv(o)'
  BY DEF TypeOK, OrderInv, MoneyInv, StockInv, Unpaid, Fulfilling
<1>5. ShipmentInv(o)'
  BY DEF TypeOK, OrderInv, MoneyInv, StockInv, ShipmentInv, Unpaid, Arriving, Fulfilling
<1>6. DataInv(o)'
  BY DEF TypeOK, OrderInv, MoneyInv, ShipmentInv, DataInv, Unpaid, isConcluded, Fulfilling
<1>7. UseMoves(o)
  BY DEF TypeOK, UseMoves, Counts
<1>8. Stays(o)
  BY DEF TypeOK, OrderInv, StockInv, ShipmentInv, DataInv, isConcluded, Stays
<1> QED
  BY <1>1, <1>2, <1>3, <1>4, <1>5, <1>6, <1>7, <1>8 DEF Keeps, OrderInv

\* The order hears that it arrived.
LEMMA RecordDeliveryKeeps ==
  ASSUME TypeOK, NEW o \in Orders, OrderInv(o), NEW noted \in BOOLEAN,
         <<"ShipmentDelivered", o>> \in inbox, recordDelivery(o), inbox' = IF noted THEN inbox \ {<<"ShipmentDelivered", o>>} ELSE inbox
  PROVE  Keeps(o)
<1> USE DEF recordDelivery, move, conclude, stockVars, moneyVars
<1>1. TypeOK'
  BY DEF TypeOK, Statuses, Bookings, Payments, Refunds, Shipments, EventTypes
<1>2. \A p \in Orders \ {o} : Same(p)
  BY DEF Same, TypeOK
<1>3. MoneyInv(o)'
  BY DEF TypeOK, OrderInv, MoneyInv, Unpaid, Arriving, Fulfilling
<1>4. StockInv(o)'
  BY DEF TypeOK, OrderInv, MoneyInv, StockInv, Unpaid, Fulfilling
<1>5. ShipmentInv(o)'
  BY DEF TypeOK, OrderInv, MoneyInv, StockInv, ShipmentInv, Unpaid, Arriving, Fulfilling
<1>6. DataInv(o)'
  BY DEF TypeOK, OrderInv, MoneyInv, ShipmentInv, DataInv, Unpaid, isConcluded, Fulfilling
<1>7. UseMoves(o)
  BY DEF TypeOK, UseMoves, Counts
<1>8. Stays(o)
  BY DEF TypeOK, OrderInv, StockInv, ShipmentInv, DataInv, isConcluded, Stays
<1> QED
  BY <1>1, <1>2, <1>3, <1>4, <1>5, <1>6, <1>7, <1>8 DEF Keeps, OrderInv

\* The order hears that it came back.
LEMMA RecordReturnKeeps ==
  ASSUME TypeOK, NEW o \in Orders, OrderInv(o), NEW noted \in BOOLEAN,
         <<"ShipmentReturned", o>> \in inbox, recordReturn(o), inbox' = IF noted THEN inbox \ {<<"ShipmentReturned", o>>} ELSE inbox
  PROVE  Keeps(o)
<1> USE DEF recordReturn, conclude, stockVars, moneyVars
<1>1. TypeOK'
  BY DEF TypeOK, Statuses, Bookings, Payments, Refunds, Shipments, EventTypes
<1>2. \A p \in Orders \ {o} : Same(p)
  BY DEF Same, TypeOK
<1>3. MoneyInv(o)'
  BY DEF TypeOK, OrderInv, MoneyInv, Unpaid, Arriving, Fulfilling
<1>4. StockInv(o)'
  BY DEF TypeOK, OrderInv, MoneyInv, StockInv, Unpaid, Fulfilling
<1>5. ShipmentInv(o)'
  BY DEF TypeOK, OrderInv, MoneyInv, StockInv, ShipmentInv, Unpaid, Arriving, Fulfilling
<1>6. DataInv(o)'
  BY DEF TypeOK, OrderInv, ShipmentInv, DataInv, Arriving, isConcluded
<1>7. UseMoves(o)
  BY DEF TypeOK, UseMoves, Counts
<1>8. Stays(o)
  BY DEF TypeOK, OrderInv, StockInv, ShipmentInv, DataInv, isConcluded, Stays
<1> QED
  BY <1>1, <1>2, <1>3, <1>4, <1>5, <1>6, <1>7, <1>8 DEF Keeps, OrderInv

\* The order hears of its payment: in time, after it expired, after it was cancelled, or once more.
LEMMA RecordPaymentKeeps ==
  ASSUME TypeOK, NEW o \in Orders, OrderInv(o), NEW noted \in BOOLEAN,
         <<"PaymentCaptured", o>> \in inbox, recordPayment(o),
         inbox' = IF noted THEN inbox \ {<<"PaymentCaptured", o>>} ELSE inbox
  PROVE  Keeps(o)
<1>1. CASE status[o] = "PENDING_PAYMENT"
  <2> USE <1>1 DEF recordPayment, takeStock, createShipment, move, reopen, latePayment
  <2>1. TypeOK'
    <3>1. status' \in [Orders -> Statuses]
      BY DEF TypeOK, Statuses
    <3>2. /\ paid' \in [Orders -> BOOLEAN] /\ concluded' \in [Orders -> BOOLEAN]
          /\ blocked' \in [Orders -> BOOLEAN] /\ anonymized' \in [Orders -> BOOLEAN]
      BY DEF TypeOK
    <3>3. booking' \in [Orders -> Bookings] /\ taken' \in [Orders -> Nat] /\ back' \in [Orders -> Nat]
      BY DEF TypeOK, Bookings
    <3>4. payment' \in [Orders -> Payments] /\ refund' \in [Orders -> Refunds]
      BY DEF TypeOK
    <3>5. shipment' \in [Orders -> Shipments]
      BY DEF TypeOK, Shipments
    <3>6. uses' \in Nat /\ inbox' \subseteq EventTypes \X Orders
      BY DEF TypeOK
    <3> QED
      BY <3>1, <3>2, <3>3, <3>4, <3>5, <3>6 DEF TypeOK
  <2>2. \A p \in Orders \ {o} : Same(p)
    BY DEF Same, TypeOK
  <2>3. MoneyInv(o)'
    BY DEF TypeOK, OrderInv, MoneyInv, Unpaid, Arriving, Fulfilling
  <2>4. StockInv(o)'
    BY DEF TypeOK, OrderInv, MoneyInv, StockInv, Unpaid, Fulfilling
  <2>5. ShipmentInv(o)'
    BY DEF TypeOK, OrderInv, MoneyInv, StockInv, ShipmentInv, Unpaid, Arriving, Fulfilling
  <2>6. DataInv(o)'
    BY DEF TypeOK, OrderInv, MoneyInv, DataInv, isConcluded
  <2>7. UseMoves(o)
    BY DEF TypeOK, UseMoves, Counts
  <2>8. Stays(o)
    BY DEF TypeOK, OrderInv, StockInv, ShipmentInv, DataInv, isConcluded, Stays
  <2> QED
    BY <2>1, <2>2, <2>3, <2>4, <2>5, <2>6, <2>7, <2>8 DEF Keeps, OrderInv
<1>2. CASE status[o] = "EXPIRED"
  <2> USE <1>2 DEF recordPayment, latePayment, takeStock, createShipment, move, reopen, recountUse
  <2>1. TypeOK'
    <3>1. status' \in [Orders -> Statuses]
      BY DEF TypeOK, Statuses
    <3>2. /\ paid' \in [Orders -> BOOLEAN] /\ concluded' \in [Orders -> BOOLEAN]
          /\ blocked' \in [Orders -> BOOLEAN] /\ anonymized' \in [Orders -> BOOLEAN]
      BY DEF TypeOK
    <3>3. booking' \in [Orders -> Bookings] /\ taken' \in [Orders -> Nat] /\ back' \in [Orders -> Nat]
      BY DEF TypeOK, Bookings
    <3>4. payment' \in [Orders -> Payments] /\ refund' \in [Orders -> Refunds]
      BY DEF TypeOK
    <3>5. shipment' \in [Orders -> Shipments]
      BY DEF TypeOK, Shipments
    <3>6. uses' \in Nat /\ inbox' \subseteq EventTypes \X Orders
      BY DEF TypeOK
    <3> QED
      BY <3>1, <3>2, <3>3, <3>4, <3>5, <3>6 DEF TypeOK
  <2>2. \A p \in Orders \ {o} : Same(p)
    BY DEF Same, TypeOK
  <2>3. MoneyInv(o)'
    BY DEF TypeOK, OrderInv, MoneyInv, Unpaid, Arriving, Fulfilling
  <2>4. StockInv(o)'
    BY DEF TypeOK, OrderInv, MoneyInv, StockInv, Unpaid, Fulfilling
  <2>5. ShipmentInv(o)'
    BY DEF TypeOK, OrderInv, MoneyInv, StockInv, ShipmentInv, Unpaid, Arriving, Fulfilling
  <2>6. DataInv(o)'
    BY DEF TypeOK, OrderInv, MoneyInv, DataInv, isConcluded
  <2>7. UseMoves(o)
    BY DEF TypeOK, UseMoves, Counts
  <2>8. Stays(o)
    BY DEF TypeOK, OrderInv, StockInv, ShipmentInv, DataInv, isConcluded, Stays
  <2> QED
    BY <2>1, <2>2, <2>3, <2>4, <2>5, <2>6, <2>7, <2>8 DEF Keeps, OrderInv
<1>3. CASE status[o] = "CANCELLED" /\ ~paid[o]
  <2> USE <1>3 DEF recordPayment, Refundable, reopen, startRefund
  <2>1. TypeOK'
    BY DEF TypeOK, Statuses, Bookings, Refunds, Shipments
  <2>2. \A p \in Orders \ {o} : Same(p)
    BY DEF Same, TypeOK
  <2>3. MoneyInv(o)'
    BY DEF TypeOK, OrderInv, MoneyInv, Unpaid, Arriving, Fulfilling
  <2>4. StockInv(o)'
    BY DEF TypeOK, OrderInv, MoneyInv, StockInv, Unpaid, Fulfilling
  <2>5. ShipmentInv(o)'
    BY DEF TypeOK, OrderInv, MoneyInv, StockInv, ShipmentInv, Unpaid, Arriving, Fulfilling
  <2>6. DataInv(o)'
    BY DEF TypeOK, OrderInv, MoneyInv, DataInv, isConcluded
  <2>7. UseMoves(o)
    BY DEF TypeOK, UseMoves, Counts
  <2>8. Stays(o)
    BY DEF TypeOK, OrderInv, StockInv, ShipmentInv, DataInv, isConcluded, Stays
  <2> QED
    BY <2>1, <2>2, <2>3, <2>4, <2>5, <2>6, <2>7, <2>8 DEF Keeps, OrderInv
<1>4. CASE status[o] \notin {"PENDING_PAYMENT", "EXPIRED"} /\ (status[o] = "CANCELLED" => paid[o])
  <2> USE <1>4 DEF recordPayment, TypeOK
  <2>1. TypeOK'
    BY DEF TypeOK, Statuses, Bookings, Refunds, Shipments
  <2>2. \A p \in Orders \ {o} : Same(p)
    BY DEF Same, TypeOK
  <2>3. MoneyInv(o)'
    BY DEF TypeOK, OrderInv, MoneyInv, Unpaid, Arriving, Fulfilling, Statuses
  <2>4. StockInv(o)'
    BY DEF TypeOK, OrderInv, MoneyInv, StockInv, Unpaid, Fulfilling
  <2>5. ShipmentInv(o)'
    BY DEF TypeOK, OrderInv, MoneyInv, StockInv, ShipmentInv, Unpaid, Arriving, Fulfilling
  <2>6. DataInv(o)'
    BY DEF TypeOK, OrderInv, MoneyInv, DataInv, isConcluded
  <2>7. UseMoves(o)
    BY DEF TypeOK, UseMoves, Counts
  <2>8. Stays(o)
    BY DEF TypeOK, OrderInv, StockInv, ShipmentInv, DataInv, isConcluded, Stays
  <2> QED
    BY <2>1, <2>2, <2>3, <2>4, <2>5, <2>6, <2>7, <2>8 DEF Keeps, OrderInv
<1> QED
  BY <1>1, <1>2, <1>3, <1>4 DEF recordPayment

-----------------------------------------------------------------------------
(* From one order to all of them.                                          *)

\* What is known of an order depends on nothing else.
LEMMA SameKeeps ==
  ASSUME NEW p \in Orders, OrderInv(p), Same(p)
  PROVE  OrderInv(p)'
<1>1. (Unpaid(p)' <=> Unpaid(p)) /\ (isConcluded(p)' <=> isConcluded(p))
  BY DEF Same, Unpaid, isConcluded
<1>2. \A type \in EventTypes : Arriving(type, p)' <=> Arriving(type, p)
  BY DEF Same, Arriving
<1>3. MoneyInv(p)'
  BY <1>1, <1>2 DEF OrderInv, MoneyInv, Same, EventTypes
<1>4. StockInv(p)'
  BY <1>1, <1>2 DEF OrderInv, StockInv, Same
<1>5. ShipmentInv(p)'
  BY <1>1, <1>2 DEF OrderInv, ShipmentInv, Same, EventTypes
<1>6. DataInv(p)'
  BY <1>1, <1>2 DEF OrderInv, DataInv, Same
<1> QED
  BY <1>3, <1>4, <1>5, <1>6 DEF OrderInv

\* The count of the coupon follows the order that moved.
LEMMA CouponStep ==
  ASSUME TypeOK, CouponCounted, NEW o \in Orders, UseMoves(o), \A p \in Orders \ {o} : Same(p)
  PROVE  CouponCounted'
<1> DEFINE C == {p \in WithCoupon : Counts(p)}
           D == {p \in WithCoupon : Counts(p)'}
<1>1. IsFiniteSet(C) /\ IsFiniteSet(D)
  <2>1. IsFiniteSet(WithCoupon) /\ C \subseteq WithCoupon /\ D \subseteq WithCoupon
    BY LifecycleAssumption
  <2> QED
    BY <2>1, FS_Subset
<1>2. uses = Cardinality(C)
  BY DEF CouponCounted, Counts
<1>3. \A p \in WithCoupon \ {o} : Counts(p)' <=> Counts(p)
  BY LifecycleAssumption DEF Same, Counts
<1>4. uses' = Cardinality(D)
  <2>1. CASE uses' = uses /\ (o \in WithCoupon => (Counts(o)' <=> Counts(o)))
    <3>1. D = C
      BY <1>3, <2>1
    <3> QED
      BY <1>2, <2>1, <3>1
  <2>2. CASE uses' = uses + 1 /\ o \in WithCoupon /\ ~Counts(o) /\ Counts(o)'
    <3>1. D = C \cup {o} /\ o \notin C
      BY <1>3, <2>2
    <3> QED
      BY <1>1, <1>2, <2>2, <3>1, FS_AddElement
  <2>3. CASE uses' = (IF uses > 0 THEN uses - 1 ELSE uses) /\ o \in WithCoupon /\ Counts(o) /\ ~Counts(o)'
    <3>1. D = C \ {o} /\ o \in C
      BY <1>3, <2>3
    <3>2. Cardinality(D) = Cardinality(C) - 1
      BY <1>1, <3>1, FS_RemoveElement
    <3>3. Cardinality(D) \in Nat /\ Cardinality(C) \in Nat
      BY <1>1, FS_CardinalityType
    <3> QED
      BY <1>2, <2>3, <3>2, <3>3
  <2> QED
    BY <2>1, <2>2, <2>3 DEF UseMoves
<1> QED
  BY <1>4 DEF CouponCounted, Counts

\* Each operation and handler keeps what it must of its order.
LEMMA StepKeeps ==
  ASSUME LifecycleInv, Next
  PROVE  \E o \in Orders : Keeps(o)
<1>1. PICK o \in Orders :
        \/ placeOrder(o) \/ cancel(o, TRUE) \/ cancel(o, FALSE) \/ retryFulfillment(o) \/ handOver(o) \/ expire(o)
        \/ restock(o)
        \/ startPayment(o) \/ captureManually(o) \/ registerManualRefund(o)
        \/ dispatch(o) \/ deliver(o) \/ failDelivery(o) \/ markReturned(o)
        \/ \E type \in EventTypes, noted \in BOOLEAN : handle(type, o, noted)
        \/ block(o) \/ anonymize(o)
  BY DEF Next
<1>2. TypeOK /\ OrderInv(o)
  BY DEF LifecycleInv
<1>3. CASE placeOrder(o) \/ cancel(o, TRUE) \/ cancel(o, FALSE) \/ retryFulfillment(o) \/ handOver(o) \/ expire(o)
  BY <1>2, <1>3, PlaceKeeps, CancelKeeps, RetryKeeps, HandOverKeeps, ExpireKeeps
<1>4. CASE restock(o) \/ startPayment(o) \/ captureManually(o) \/ registerManualRefund(o)
  BY <1>2, <1>4, RestockKeeps, StartPaymentKeeps, CaptureKeeps, ManualRefundKeeps
<1>5. CASE dispatch(o) \/ deliver(o) \/ failDelivery(o) \/ markReturned(o)
  BY <1>2, <1>5, DispatchKeeps, DeliverKeeps, FailDeliveryKeeps, ReturnedKeeps
<1>6. CASE \E type \in EventTypes, noted \in BOOLEAN : handle(type, o, noted)
  <2>1. PICK type \in EventTypes, noted \in BOOLEAN : handle(type, o, noted)
    BY <1>6
  <2>2. CASE type = "PaymentCaptured" /\ recordPayment(o)
    BY <1>2, <2>1, <2>2, RecordPaymentKeeps DEF handle
  <2>3. CASE type = "RefundCompleted" /\ recordRefund(o)
    BY <1>2, <2>1, <2>3, RecordRefundKeeps DEF handle
  <2>4. CASE type = "ShipmentDispatched" /\ recordShipment(o)
    BY <1>2, <2>1, <2>4, RecordShipmentKeeps DEF handle
  <2>5. CASE type = "ShipmentDelivered" /\ recordDelivery(o)
    BY <1>2, <2>1, <2>5, RecordDeliveryKeeps DEF handle
  <2>6. CASE type = "ShipmentReturned" /\ recordReturn(o)
    BY <1>2, <2>1, <2>6, RecordReturnKeeps DEF handle
  <2> QED
    BY <2>1, <2>2, <2>3, <2>4, <2>5, <2>6 DEF handle
<1>7. CASE block(o) \/ anonymize(o)
  BY <1>2, <1>7, BlockKeeps, AnonymizeKeeps
<1> QED
  BY <1>1, <1>3, <1>4, <1>5, <1>6, <1>7

\* The invariant is inductive.
LEMMA LifecycleInductive ==
  ASSUME LifecycleInv, [Next]_vars
  PROVE  LifecycleInv'
<1>1. CASE Next
  <2>1. PICK o \in Orders : Keeps(o)
    BY <1>1, StepKeeps
  <2>2. \A p \in Orders : OrderInv(p)'
    BY <2>1, SameKeeps DEF Keeps, LifecycleInv
  <2>3. CouponCounted'
    BY <2>1, CouponStep DEF Keeps, LifecycleInv
  <2> QED
    BY <2>1, <2>2, <2>3 DEF Keeps, LifecycleInv
<1>2. CASE UNCHANGED vars
  <2>1. TypeOK'
    BY <1>2 DEF LifecycleInv, TypeOK, vars, orderVars, stockVars, moneyVars
  <2>2. \A p \in Orders : OrderInv(p)'
    <3>1. \A p \in Orders : Same(p)
      BY <1>2 DEF Same, vars, orderVars, stockVars, moneyVars
    <3> QED
      BY <3>1, SameKeeps DEF LifecycleInv
  <2>3. CouponCounted'
    BY <1>2 DEF LifecycleInv, CouponCounted, vars, orderVars
  <2> QED
    BY <2>1, <2>2, <2>3 DEF LifecycleInv
<1> QED
  BY <1>1, <1>2

\* It holds before the first order.
LEMMA LifecycleInitially == Init => LifecycleInv
<1> SUFFICES ASSUME Init PROVE LifecycleInv
  OBVIOUS
<1>1. TypeOK
  BY DEF Init, TypeOK, Statuses, Bookings, Payments, Refunds, Shipments
<1>2. \A o \in Orders : OrderInv(o)
  BY DEF Init, OrderInv, MoneyInv, StockInv, ShipmentInv, DataInv, Unpaid, Arriving, Fulfilling, isConcluded
<1>3. CouponCounted
  <2>1. {o \in WithCoupon : status[o] \notin {"NONE", "EXPIRED", "CANCELLED", "REFUNDED"}} = {}
    BY LifecycleAssumption DEF Init
  <2> QED
    BY <2>1, FS_EmptySet DEF Init, CouponCounted
<1> QED
  BY <1>1, <1>2, <1>3 DEF LifecycleInv

-----------------------------------------------------------------------------
(* Theorems.                                                               *)

\* The five modules agree on every order in every reachable state.
THEOREM LifecycleIsConsistent == Spec => []LifecycleInv
  BY LifecycleInitially, LifecycleInductive, PTL DEF Spec

\* Every variable keeps its type: no handler meets an event or a status that nobody defined.
THEOREM TypeCorrect == Spec => []TypeOK
<1>1. LifecycleInv => TypeOK
  BY DEF LifecycleInv
<1> QED
  BY <1>1, LifecycleIsConsistent, PTL

\* The store keeps the money of an order exactly while it fulfils it, for any orders and any order of events.
THEOREM MoneyFollowsGoods == Spec => []MoneyForGoods
<1>1. LifecycleInv => MoneyForGoods
  BY DEF LifecycleInv, OrderInv, MoneyInv, MoneyForGoods
<1> QED
  BY <1>1, LifecycleIsConsistent, PTL

\* The stock of an order leaves at most once and comes back at most once.
THEOREM StockLeavesOnce == Spec => []StockFollowsOrder
<1>1. LifecycleInv => StockFollowsOrder
  BY DEF LifecycleInv, OrderInv, StockInv, StockFollowsOrder, TypeOK
<1> QED
  BY <1>1, LifecycleIsConsistent, PTL

\* What left is not cancelled, and what is back in stock is not with the customer (BR-CAN-01).
THEOREM GoodsAreInOnePlace == Spec => []GoodsInOnePlace
<1>1. LifecycleInv => GoodsInOnePlace
  BY DEF LifecycleInv, OrderInv, ShipmentInv, GoodsInOnePlace, TypeOK
<1> QED
  BY <1>1, LifecycleIsConsistent, PTL

\* The uses of the coupon are the orders that count, however late a payment arrives.
THEOREM CouponUsesAreOrders == Spec => []CouponCounted
<1>1. LifecycleInv => CouponCounted
  BY DEF LifecycleInv
<1> QED
  BY <1>1, LifecycleIsConsistent, PTL

\* The handler of a payment never throws for good.
THEOREM PaymentsAreHandled == Spec => []NoPoisonedEvent
<1>1. LifecycleInv => NoPoisonedEvent
  BY DEF LifecycleInv, OrderInv, MoneyInv, Unpaid, NoPoisonedEvent, Refundable
<1> QED
  BY <1>1, LifecycleIsConsistent, PTL

\* An order whose data is blocked or removed has no shipment on its way (ADR-0145, ADR-0151).
THEOREM HiddenOrdersStayPut == Spec => []HiddenNeverMoves
<1>1. LifecycleInv => HiddenNeverMoves
  BY DEF LifecycleInv, OrderInv, MoneyInv, ShipmentInv, DataInv, HiddenNeverMoves, isConcluded, Unpaid
<1> QED
  BY <1>1, LifecycleIsConsistent, PTL

\* Delivered and refunded orders stay so, whatever arrives late or twice, and an order without data takes no
\* stock.
THEOREM FinalOrdersStay == Spec => FinalIsFinal
<1> DEFINE A == \A o \in Orders : Stays(o)
<1>1. LifecycleInv /\ [Next]_vars => [A]_vars
  <2> SUFFICES ASSUME LifecycleInv, Next PROVE A
    OBVIOUS
  <2>1. PICK o \in Orders : Keeps(o)
    BY StepKeeps
  <2>2. ASSUME NEW p \in Orders PROVE Stays(p)
    <3>1. CASE p = o
      BY <2>1, <3>1 DEF Keeps
    <3>2. CASE p # o
      <4>1. Same(p) /\ DataInv(p)
        BY <2>1, <3>2 DEF Keeps, LifecycleInv, OrderInv
      <4> QED
        BY <4>1 DEF Same, DataInv, Stays
    <3> QED
      BY <3>1, <3>2
  <2> QED
    BY <2>2
<1>2. Spec => [][A]_vars
  BY <1>1, LifecycleIsConsistent, PTL DEF Spec
<1> QED
  BY <1>2 DEF FinalIsFinal, Stays

-----------------------------------------------------------------------------
(* The order implements the life of a reservation.                         *)

Returned == {p \in Orders : back[p] > 0}

\* What does not touch the reservation is a stutter of its life.
LEMMA LifeStutters ==
  ASSUME booking' = booking, back' = back
  PROVE  UNCHANGED Life!lifeVars
<1>1. Returned' = Returned
  BY DEF Returned
<1> QED
  BY <1>1 DEF Life!lifeVars, Returned

\* The stock that comes back is the one that left.
LEMMA LifeReturns ==
  ASSUME TypeOK, NEW o \in Orders, booking' = booking, CanRestock(o), restockAll(o)
  PROVE  Life!Return(o)
<1>1. Returned' = Returned \cup {o}
  BY DEF Returned, restockAll, TypeOK
<1> QED
  BY <1>1 DEF Life!Return, Returned, CanRestock

\* A change of the reservation alone.
LEMMA LifeBecomes ==
  ASSUME NEW o \in Orders, NEW from, NEW to, booking[o] \in from, booking' = [booking EXCEPT ![o] = to], back' = back
  PROVE  Life!become(o, from, to)
<1>1. Returned' = Returned
  BY DEF Returned
<1> QED
  BY <1>1 DEF Life!become, Returned

\* An active reservation ends.
LEMMA LifeEnds ==
  ASSUME NEW o \in Orders, NEW to, booking[o] = "ACTIVE", booking' = [booking EXCEPT ![o] = to], back' = back
  PROVE  Life!become(o, {"ACTIVE"}, to)
<1>1. Returned' = Returned
  BY DEF Returned
<1> QED
  BY <1>1 DEF Life!become, Returned

\* The stock of an order that has none is taken.
LEMMA LifeTakes ==
  ASSUME NEW o \in Orders, booking[o] \in Life!Unheld, takeStock(o), back' = back
  PROVE  Life!Take(o)
<1>1. booking' = [booking EXCEPT ![o] = "COMMITTED"]
  BY DEF takeStock
<1> QED
  BY <1>1, LifeBecomes DEF Life!Take

\* An order that neither waits for its payment nor sold its stock holds nothing.
LEMMA HoldsNothing ==
  ASSUME LifecycleInv, NEW o \in Orders, status[o] \in {"NONE", "EXPIRED", "AWAITING_MANUAL_FULFILLMENT"}
  PROVE  booking[o] \in Life!Unheld
  BY DEF LifecycleInv, OrderInv, StockInv, Unpaid, TypeOK, Bookings, Life!Unheld

\* The order moves its reservation only as the inventory lets it.
LEMMA LifeStep ==
  ASSUME LifecycleInv, NEW o \in Orders,
         \/ placeOrder(o) \/ cancel(o, TRUE) \/ cancel(o, FALSE) \/ retryFulfillment(o) \/ expire(o) \/ restock(o)
  PROVE  (\E p \in Orders : Life!Reserve(p) \/ Life!Release(p) \/ Life!Expire(p) \/ Life!Take(p) \/ Life!Return(p))
         \/ UNCHANGED Life!lifeVars
<1>0. TypeOK /\ (booking[o] = "ACTIVE" <=> status[o] = "PENDING_PAYMENT")
  BY DEF LifecycleInv, OrderInv, StockInv
<1>1. CASE placeOrder(o)
  <2>1. booking' = [booking EXCEPT ![o] = "ACTIVE"] /\ back' = back /\ status[o] = "NONE"
    BY <1>1 DEF placeOrder
  <2> QED
    BY <2>1, HoldsNothing, LifeBecomes DEF Life!Reserve
<1>2. ASSUME NEW r \in BOOLEAN, cancel(o, r)
      PROVE  Life!Release(o) \/ Life!Return(o) \/ UNCHANGED Life!lifeVars
  <2>1. CASE status[o] = "PENDING_PAYMENT"
    <3>1. ~r /\ back' = back /\ booking[o] = "ACTIVE" /\ booking' = [booking EXCEPT ![o] = "RELEASED"]
      BY <1>0, <1>2, <2>1 DEF cancel, endBooking
    <3> QED
      BY <3>1, LifeEnds DEF Life!Release
  <2>2. CASE status[o] # "PENDING_PAYMENT"
    <3>1. booking' = booking
      BY <1>2, <2>2 DEF cancel
    <3>2. CASE r
      BY <1>0, <1>2, <3>1, <3>2, LifeReturns DEF cancel
    <3>3. CASE ~r
      BY <1>2, <3>1, <3>3, LifeStutters DEF cancel
    <3> QED
      BY <3>2, <3>3
  <2> QED
    BY <2>1, <2>2
<1>3. CASE retryFulfillment(o)
  BY <1>3, HoldsNothing, LifeTakes DEF retryFulfillment
<1>4. CASE expire(o)
  <2>1. booking[o] = "ACTIVE" /\ booking' = [booking EXCEPT ![o] = "EXPIRED"] /\ back' = back
    BY <1>0, <1>4 DEF expire, endBooking
  <2> QED
    BY <2>1, LifeEnds DEF Life!Expire
<1>5. CASE restock(o)
  BY <1>0, <1>5, LifeReturns DEF restock
<1> QED
  BY <1>1, <1>2, <1>3, <1>4, <1>5

\* A payment commits the reservation it finds, takes the stock of one that expired, or touches nothing.
LEMMA LifePays ==
  ASSUME LifecycleInv, NEW o \in Orders, recordPayment(o)
  PROVE  Life!Commit(o) \/ Life!Take(o) \/ UNCHANGED Life!lifeVars
<1>0. back' = back /\ (booking[o] = "ACTIVE" <=> status[o] = "PENDING_PAYMENT")
  BY DEF recordPayment, LifecycleInv, OrderInv, StockInv
<1>1. CASE status[o] = "PENDING_PAYMENT"
  <2>1. booking[o] = "ACTIVE" /\ booking' = [booking EXCEPT ![o] = "COMMITTED"]
    BY <1>0, <1>1 DEF recordPayment, takeStock
  <2> QED
    BY <1>0, <2>1, LifeEnds DEF Life!Commit
<1>2. CASE status[o] = "EXPIRED"
  <2>1. takeStock(o) \/ booking' = booking
    BY <1>2 DEF recordPayment, latePayment
  <2> QED
    BY <1>0, <1>2, <2>1, HoldsNothing, LifeTakes, LifeStutters
<1>3. CASE status[o] \notin {"PENDING_PAYMENT", "EXPIRED"}
  <2>1. booking' = booking
    BY <1>3 DEF recordPayment
  <2> QED
    BY <1>0, <2>1, LifeStutters
<1> QED
  BY <1>1, <1>2, <1>3

\* The rest leaves the reservation alone.
LEMMA LifeElsewhere ==
  ASSUME NEW o \in Orders,
         \/ handOver(o) \/ startPayment(o) \/ captureManually(o) \/ registerManualRefund(o)
         \/ dispatch(o) \/ deliver(o) \/ failDelivery(o) \/ markReturned(o) \/ block(o) \/ anonymize(o)
         \/ recordRefund(o) \/ recordShipment(o) \/ recordDelivery(o) \/ recordReturn(o)
  PROVE  UNCHANGED Life!lifeVars
<1>1. booking' = booking /\ back' = back
  BY DEF handOver, startPayment, captureManually, registerManualRefund, dispatch, deliver, failDelivery, markReturned,
         moveShipment, block, anonymize, recordRefund, recordShipment, recordDelivery, recordReturn, stockVars
<1> QED
  BY <1>1, LifeStutters

\* The order implements the life of a reservation: whatever payments, expirations, retries and late or repeated events
\* do, it asks the inventory only for what StockPromise lets it do.
THEOREM OrdersAskWhatIsPromised == Spec => AsksWhatIsPromised
<1>1. Init => Life!LifeInit
  BY DEF Init, Life!LifeInit
<1>2. LifecycleInv /\ [Next]_vars => [Life!LifeNext]_(Life!lifeVars)
  <2> SUFFICES ASSUME LifecycleInv, [Next]_vars PROVE Life!LifeNext \/ UNCHANGED Life!lifeVars
    OBVIOUS
  <2>1. ASSUME NEW o \in Orders, NEW type \in EventTypes, NEW noted \in BOOLEAN, handle(type, o, noted)
        PROVE  Life!LifeNext \/ UNCHANGED Life!lifeVars
    <3>1. recordPayment(o) \/ recordRefund(o) \/ recordShipment(o) \/ recordDelivery(o) \/ recordReturn(o)
      BY <2>1 DEF handle
    <3> QED
      BY <3>1, LifePays, LifeElsewhere DEF Life!LifeNext
  <2>2. CASE UNCHANGED vars
    BY <2>2, LifeStutters DEF vars, stockVars
  <2> QED
    BY <2>1, <2>2, LifeStep, LifeElsewhere DEF Next, Life!LifeNext
<1> QED
  BY <1>1, <1>2, LifecycleIsConsistent, PTL DEF Spec, AsksWhatIsPromised, Life!LifeSpec
=============================================================================
