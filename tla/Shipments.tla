----------------------------- MODULE Shipments -----------------------------
(***************************************************************************)
(* The shipment of an order and the shipping method (src/modules/shipping).*)
(*                                                                         *)
(* A member of the staff sees a page and acts on it later, perhaps after a *)
(* colleague or the order did: a request carries the version that was      *)
(* seen.  A change of a shipment locks its row, reads it and writes it     *)
(* whole, so it is one action.  A change of the method reads without a     *)
(* lock and saves in another statement.                                    *)
(***************************************************************************)
EXTENDS PaymentRows

CONSTANTS
  Members,              \* the members of the staff
  Trackings,            \* carriers with their tracking numbers
  NoTracking,
  Fees, DeliveryDays,   \* of the shipping method
  Nothing,              \* no row, or a page not looked at
  MaxCorrections,       \* bound: the last version of a shipment whose tracking is recorded
  MaxMethodEdits        \* bound: edits of the method

ShipmentStatuses == {"PENDING", "DISPATCHED", "DELIVERED", "DELIVERY_FAILED", "RETURNED", "CANCELLED"}
ShipmentRow == [status : ShipmentStatuses, tracking : Trackings \cup {NoTracking}, ownDelivery : BOOLEAN,
                dated : SUBSET ShipmentStatuses, address : BOOLEAN, blocked : BOOLEAN, version : Nat]
MethodRow(version) == [flatFee : Fees, least : DeliveryDays, most : DeliveryDays, version : {version}]

ASSUME ShipmentsAssumption ==
  /\ DeliveryDays \subseteq Nat /\ NoTracking \notin Trackings /\ MaxCorrections \in Nat /\ MaxMethodEdits \in Nat
  /\ Nothing \notin ShipmentRow \cup [flatFee : Fees, least : DeliveryDays, most : DeliveryDays, version : Nat]

VARIABLES
  parcel, parcelSeen,   \* the row of the shipment, and the one each member saw
  announced,            \* its events, in the order they were published
  method, methodSeen,   \* the active shipping method, and the one each member saw
  configuring           \* what an edit in progress will save, over the version it read

parcelVars == <<parcel, parcelSeen, announced>>
shippingMethodVars == <<method, methodSeen, configuring>>
shipmentVars == <<parcelVars, shippingMethodVars>>

ShipmentsInit ==
  /\ parcel = Nothing /\ parcelSeen = [m \in Members |-> Nothing] /\ announced = << >>
  /\ method \in MethodRow(1) /\ method.least <= method.most
  /\ methodSeen = [m \in Members |-> Nothing] /\ configuring = [m \in Members |-> Nothing]

-----------------------------------------------------------------------------
(* The shipment, as the order asks for it.                                 *)

newShipment ==
  [status |-> "PENDING", tracking |-> NoTracking, ownDelivery |-> FALSE, dated |-> {}, address |-> TRUE,
   blocked |-> FALSE, version |-> 1]


\* A repeated payment or a retry finds the shipment of the order there.
insert(row) == IF row = Nothing THEN newShipment ELSE row

\* Every write takes the row to its next version.
saveShipment(row) == parcel' = [row EXCEPT !.version = @ + 1]

createShipment ==
  /\ parcel' = insert(parcel)
  /\ UNCHANGED <<parcelSeen, announced, shippingMethodVars>>

\* Its order was cancelled: unless it left.
cancelShipmentOf ==
  /\ parcel # Nothing /\ parcel.status = "PENDING"
  /\ saveShipment([parcel EXCEPT !.status = "CANCELLED", !.dated = @ \cup {"CANCELLED"}])
  /\ UNCHANGED <<parcelSeen, announced, shippingMethodVars>>

\* The order has concluded (module OrderLifecycle).
Concluded == parcel # Nothing /\ parcel.status \in {"DELIVERED", "RETURNED", "CANCELLED"}

anonymizeShipmentsOf ==
  /\ Concluded /\ parcel.address
  /\ saveShipment([parcel EXCEPT !.address = FALSE])
  /\ UNCHANGED <<parcelSeen, announced, shippingMethodVars>>

blockShipmentsOf ==
  /\ Concluded /\ ~parcel.blocked
  /\ saveShipment([parcel EXCEPT !.blocked = TRUE])
  /\ UNCHANGED <<parcelSeen, announced, shippingMethodVars>>

-----------------------------------------------------------------------------
(* The shipment, as the staff moves it.                                    *)

seeShipment(m) ==
  /\ parcel # Nothing
  /\ parcelSeen' = [parcelSeen EXCEPT ![m] = parcel]
  /\ UNCHANGED <<parcel, announced, shippingMethodVars>>


\* assertVersion of a change, once it has locked the row.
isVersionSeen(m) == parcelSeen[m] # Nothing /\ parcelSeen[m].version = parcel.version

recordTracking(m, tracking) ==
  /\ isVersionSeen(m)
  /\ parcel.status = "PENDING" \/ (parcel.status = "DISPATCHED" /\ ~parcel.ownDelivery)
  /\ parcel.tracking # tracking /\ parcel.version <= MaxCorrections
  /\ saveShipment([parcel EXCEPT !.tracking = tracking])
  /\ UNCHANGED <<parcelSeen, announced, shippingMethodVars>>

removeTracking(m) ==
  /\ isVersionSeen(m)
  /\ parcel.status = "PENDING" /\ parcel.tracking # NoTracking
  /\ saveShipment([parcel EXCEPT !.tracking = NoTracking])
  /\ UNCHANGED <<parcelSeen, announced, shippingMethodVars>>

\* A carrier leaves with a tracking number, and the store itself without one.
maySetOff(ownDelivery) == ownDelivery = (parcel.tracking = NoTracking)

changeShipment(m, from, to, ownDelivery) ==
  /\ isVersionSeen(m)
  /\ parcel.status = from
  /\ saveShipment([parcel EXCEPT !.status = to, !.dated = @ \cup {to}, !.ownDelivery = ownDelivery])
  /\ UNCHANGED <<parcelSeen, shippingMethodVars>>

announce(type) == announced' = Append(announced, type)

dispatchShipment(m, ownDelivery) ==
  /\ changeShipment(m, "PENDING", "DISPATCHED", ownDelivery) /\ maySetOff(ownDelivery)
  /\ announce("DISPATCHED")

deliverShipment(m) ==
  changeShipment(m, "DISPATCHED", "DELIVERED", parcel.ownDelivery) /\ announce("DELIVERED")

\* The order does not hear that a delivery failed.
failShipment(m) ==
  changeShipment(m, "DISPATCHED", "DELIVERY_FAILED", parcel.ownDelivery) /\ UNCHANGED announced

returnShipment(m) ==
  changeShipment(m, "DELIVERY_FAILED", "RETURNED", parcel.ownDelivery) /\ announce("RETURNED")

-----------------------------------------------------------------------------
(* The shipping method.                                                    *)

seeMethod(m) ==
  /\ configuring[m] = Nothing
  /\ methodSeen' = [methodSeen EXCEPT ![m] = method]
  /\ UNCHANGED <<parcelVars, method, configuring>>

validSettings(settings) == settings.least <= settings.most

\* The transaction reads the method and compares its version with the one that was seen ...
configure(m, settings) ==
  /\ configuring[m] = Nothing /\ methodSeen[m] # Nothing /\ method.version <= MaxMethodEdits
  /\ methodSeen[m].version = method.version
  /\ validSettings(settings) /\ settings # method
  /\ configuring' = [configuring EXCEPT ![m] = settings]
  /\ UNCHANGED <<parcelVars, method, methodSeen>>

\* ... and saves it if nobody did meanwhile.
saveMethod(m) ==
  /\ configuring[m] # Nothing
  /\ method' = IF configuring[m].version = method.version THEN [configuring[m] EXCEPT !.version = @ + 1] ELSE method
  /\ configuring' = [configuring EXCEPT ![m] = Nothing]
  /\ UNCHANGED <<parcelVars, methodSeen>>

-----------------------------------------------------------------------------
ParcelNext ==
  \/ createShipment \/ cancelShipmentOf \/ anonymizeShipmentsOf \/ blockShipmentsOf
  \/ \E m \in Members :
       \/ seeShipment(m)
       \/ \E tracking \in Trackings : recordTracking(m, tracking)
       \/ removeTracking(m)
       \/ \E ownDelivery \in BOOLEAN : dispatchShipment(m, ownDelivery)
       \/ deliverShipment(m) \/ failShipment(m) \/ returnShipment(m)

MethodNext ==
  \E m \in Members :
    \/ seeMethod(m)
    \/ \E settings \in MethodRow(method.version) : configure(m, settings)
    \/ saveMethod(m)

ShipmentsNext == ParcelNext \/ MethodNext

ShipmentsSpec == ShipmentsInit /\ [][ShipmentsNext]_shipmentVars

-----------------------------------------------------------------------------
(* Properties.                                                             *)

\* The statuses a shipment went through, in order, are the dates it has.
PathTo == [s \in ShipmentStatuses |->
  CASE s = "PENDING" -> {}
    [] s = "DELIVERED" -> {"DISPATCHED", "DELIVERED"}
    [] s = "RETURNED" -> {"DISPATCHED", "DELIVERY_FAILED", "RETURNED"}
    [] s = "DELIVERY_FAILED" -> {"DISPATCHED", "DELIVERY_FAILED"}
    [] OTHER -> {s}]
Told == [s \in ShipmentStatuses |->
  CASE s \in {"DISPATCHED", "DELIVERY_FAILED"} -> <<"DISPATCHED">>
    [] s \in {"DELIVERED", "RETURNED"} -> <<"DISPATCHED", s>>
    [] OTHER -> << >>]

\* A shipment that left did it by a carrier with its tracking number or by the store without one, whatever was
\* recorded, removed and corrected; its dates are the way it went; and its order is told each step of it once.
ParcelAddsUp ==
  parcel # Nothing =>
    /\ parcel \in ShipmentRow
    /\ "DISPATCHED" \in parcel.dated => maySetOff(parcel.ownDelivery)
    /\ parcel.dated = PathTo[parcel.status]
    /\ announced = Told[parcel.status]

\* The staff moves a shipment, or corrects its tracking, only as somebody saw it: not over what a colleague or
\* the order changed meanwhile.  What was forgotten or blocked stays so, and a shipment never starts again.
ParcelsMoveAsSeen ==
  [][parcel # Nothing =>
       /\ parcel' # Nothing /\ (parcel.address \/ ~parcel'.address) /\ (parcel.blocked => parcel'.blocked)
       /\ parcel'.tracking # parcel.tracking \/ parcel'.status \notin {parcel.status, "CANCELLED"} =>
            \E m \in Members : parcelSeen[m] = parcel]_shipmentVars

\* An edit of the method replaces what its author saw, and leaves times that can be met.
MethodEditsAreKept ==
  [][method' # method => \E m \in Members : methodSeen[m] = method /\ validSettings(method')]_shipmentVars

\* Shipments move as their staff saw them, and say what happened; so does the shipping method.
ShipmentsHold == []ParcelAddsUp /\ ParcelsMoveAsSeen /\ MethodEditsAreKept

\* After a sale: a shipment follows its steps with the staff's last word, and a payment is collected and given back once.
SalesHold == ShipmentsHold /\ PaymentsHold
=============================================================================
