------------------------------ MODULE Privacy ------------------------------
(***************************************************************************)
(* The anonymization of a customer (src/modules/privacy) across the parts  *)
(* that know them: one transaction over the account, their orders and      *)
(* their work orders, while checkouts and the counter go on; and the one   *)
(* of accounts nobody used for long, which leaves orders to their own      *)
(* retention.  OrderLifecycle models the life and the retention of orders: *)
(* here one is open or concluded.                                          *)
(***************************************************************************)
EXTENDS WorkOrders, GuestAccess

CONSTANT Purchases  \* orders of customers

VARIABLES
  purchases,
  checkouts   \* the customer of an order being placed, with the account locked for share

privacyVars == <<workOrdersVars, accounts, erasures, purchases, checkouts>>

NoErasure == [step |-> "none", purchases |-> {}, workOrders |-> {}]
NoOrder == [status |-> "NONE", customer |-> NoClient, personal |-> FALSE, reopened |-> FALSE]

PrivacyInit ==
  /\ WorkOrdersInit
  /\ accounts = [c \in Clients |-> "ACTIVE"] /\ erasures = [c \in Clients |-> NoErasure]
  /\ purchases = [o \in Purchases |-> NoOrder] /\ checkouts = [o \in Purchases |-> NoClient]

-----------------------------------------------------------------------------
(* Orders of customers. *)

\* Mutant: a checkout only reads the account.
ShareFreeOfCounter(c) == c \notin lockedForShare
ShareFree(c) == c \notin lockedForShare /\ \A o \in Purchases : checkouts[o] # c
PurchaseFree(o) == \A c \in Clients : o \notin erasures[c].purchases
OfClient(c) == {o \in Purchases : purchases[o].customer = c}

\* placeOrder reads the contact first, and the order commits last.
startCheckout(o, c) ==
  /\ purchases[o] = NoOrder /\ checkouts[o] = NoClient /\ isActiveCustomer(c)
  /\ checkouts' = [checkouts EXCEPT ![o] = c]
  /\ UNCHANGED <<workOrdersVars, accounts, erasures, purchases>>

placePurchase(o) ==
  /\ checkouts[o] # NoClient
  /\ purchases' = [purchases EXCEPT ![o] = [status |-> "OPEN", customer |-> checkouts[o], personal |-> TRUE, reopened |-> FALSE]]
  /\ checkouts' = [checkouts EXCEPT ![o] = NoClient]
  /\ UNCHANGED <<workOrdersVars, accounts, erasures>>

conclude(o) ==
  /\ purchases[o].status = "OPEN" /\ PurchaseFree(o)
  /\ purchases' = [purchases EXCEPT ![o].status = "CONCLUDED"]
  /\ UNCHANGED <<workOrdersVars, accounts, erasures, checkouts>>

\* A late payment of an order that had expired.
reopen(o) ==
  /\ purchases[o].status = "CONCLUDED" /\ PurchaseFree(o)
  /\ purchases' = [purchases EXCEPT ![o].status = "OPEN", ![o].reopened = TRUE]
  /\ UNCHANGED <<workOrdersVars, accounts, erasures, checkouts>>

-----------------------------------------------------------------------------
(* Anonymizations.customer: the account, then the orders, then the work orders; all of it or nothing. *)

eraseAccount(c, step) ==
  /\ accounts[c] = "ACTIVE" /\ erasures[c].step = "none" /\ ShareFree(c)
  /\ erasures' = [erasures EXCEPT ![c].step = step]
  /\ UNCHANGED <<workOrdersVars, accounts, purchases, checkouts>>

\* lockOf: the orders committed by now; one that has not concluded ends it all.
eraseOrders(c) ==
  LET found == {o \in OfClient(c) : purchases[o].personal} IN
  /\ erasures[c].step = "account"
  /\ erasures' = [erasures EXCEPT ![c] =
       IF \A o \in found : purchases[o].status = "CONCLUDED" THEN [@ EXCEPT !.step = "orders", !.purchases = found] ELSE NoErasure]
  /\ UNCHANGED <<workOrdersVars, accounts, purchases, checkouts>>

AllClosed(found) == \A w \in found : workOrders[w].status \in CLOSED

\* lockOfCustomer, and the same with a work order that is still open.
eraseWorkOrders(c) ==
  LET found == {w \in WorkOrderIds : workOrders[w].customer = c /\ workOrders[w] # Unreceived /\ ~workOrders[w].anonymized} IN
  /\ erasures[c].step = "orders" /\ \A w \in found : RowFree(w)
  /\ erasures' = [erasures EXCEPT ![c] =
       IF AllClosed(found) THEN [@ EXCEPT !.step = "workOrders", !.workOrders = found] ELSE NoErasure]
  /\ UNCHANGED <<workOrdersVars, accounts, purchases, checkouts>>

commitErasure(c) ==
  LET e == erasures[c] IN
  /\ e.step = "workOrders"
  /\ accounts' = [accounts EXCEPT ![c] = "ERASED"] /\ erasures' = [erasures EXCEPT ![c] = NoErasure]
  /\ purchases' = [o \in Purchases |-> IF o \in e.purchases THEN [purchases[o] EXCEPT !.personal = FALSE] ELSE purchases[o]]
  /\ workOrders' = [w \in WorkOrderIds |-> IF w \in e.workOrders THEN anonymized(workOrders[w]) ELSE workOrders[w]]
  /\ staffRequests' = [r \in StaffRequests |->
       IF staffRequests[r].id \in e.workOrders THEN [staffRequests[r] EXCEPT !.fresh = FALSE] ELSE staffRequests[r]]
  /\ UNCHANGED <<checkouts>>

\* InactiveCustomerAnonymizations: the account, locked, unless an order has not concluded.
hasOpenOrders(c) == \E o \in OfClient(c) : purchases[o].status = "OPEN"
commitLapse(c) ==
  /\ erasures[c].step = "concluded"
  /\ accounts' = [accounts EXCEPT ![c] = "LAPSED"] /\ erasures' = [erasures EXCEPT ![c] = NoErasure]
  /\ UNCHANGED <<workOrdersVars, purchases, checkouts>>
checkOpenOrders(c) ==
  /\ erasures[c].step = "inactive"
  /\ erasures' = [erasures EXCEPT ![c].step = IF hasOpenOrders(c) THEN "none" ELSE "concluded"]
  /\ UNCHANGED <<workOrdersVars, accounts, purchases, checkouts>>

-----------------------------------------------------------------------------
PrivacyNext ==
  \/ WorkOrdersNext /\ UNCHANGED <<purchases, checkouts>>
  \/ \E o \in Purchases, c \in Clients : startCheckout(o, c)
  \/ \E o \in Purchases : placePurchase(o) \/ conclude(o) \/ reopen(o)
  \/ \E c \in Clients, step \in {"account", "inactive"} : eraseAccount(c, step)
  \/ \E c \in Clients : eraseOrders(c) \/ eraseWorkOrders(c) \/ commitErasure(c) \/ checkOpenOrders(c) \/ commitLapse(c)

PrivacySpec == PrivacyInit /\ [][PrivacyNext]_privacyVars

-----------------------------------------------------------------------------
(* Properties. *)

\* Once a customer was anonymized because they asked for it, no order and no work order of theirs says who they are:
\* not the ones a checkout or the counter was writing meanwhile, nor one written later (customerContact, lockOfCustomer).
NothingLeft ==
  \A c \in Clients : accounts[c] = "ERASED" =>
    /\ \A o \in OfClient(c) : ~purchases[o].personal
    /\ \A w \in WorkOrderIds : workOrders[w].customer = c => ~workOrders[w].personal

\* An account anonymized for inactivity has no order under way, except one paid late, whose payment does not look at
\* the account (hasOpenOrders, with the account locked against the checkouts).
LapsedHasConcluded ==
  \A o \in Purchases : purchases[o].status = "OPEN" /\ accounts[purchases[o].customer] = "LAPSED" => purchases[o].reopened

\* An anonymization leaves nobody's data and nobody's open order behind, whatever is being written meanwhile.
ErasureIsComplete == NothingLeft /\ LapsedHasConcluded

\* Nothing personal outlives its person: neither in the rows of a customer who was anonymized, nor as an access link.
ErasureHolds == ErasureIsComplete /\ LinksFollowGuests
=============================================================================
