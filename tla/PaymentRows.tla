---------------------------- MODULE PaymentRows ----------------------------
(***************************************************************************)
(* The payment of an order (src/modules/payments), statement by statement. *)
(*                                                                         *)
(* The requests of the buyer, of the staff and of the handlers of events   *)
(* lock the row of the order, read its payment without a lock and write it *)
(* if its version is still the one read.  Only the refund by hand locks    *)
(* the payment itself.  A request checks the settings before its           *)
(* transaction and again in it; nothing keeps them from changing after.    *)
(***************************************************************************)
EXTENDS Integers, Sequences

CONSTANTS
  PayRequests,     \* requests in progress at once
  NoRow,
  MaxSettings      \* bound: the last version of the settings that is edited

\* What a payment by hand may be, whatever was written of it; the other statuses are a provider's, and none is enabled.
PaymentStatuses == {"PENDING", "CAPTURED", "REFUNDED", "CANCELLED"}
PaymentAttempts == Seq(PaymentStatuses)
Payments == [status : PaymentStatuses, refund : {"NONE", "PENDING", "COMPLETED"}, attempts : PaymentAttempts,
             version : Nat]
PaymentSettings == [enabled : BOOLEAN, version : Nat]

ASSUME PaymentRowsAssumption == NoRow \notin PayRequests \cup Payments \cup PaymentSettings /\ MaxSettings \in Nat

VARIABLES
  orderRow,        \* the order: its status, and whether paid_at is set
  orderHeld,       \* the request that holds the row of the order
  paymentRow,      \* the payment of the order, with its attempts and the refund of all of it
  settingsRow,
  asking,          \* what each request does, where it is and what it read
  captures,        \* PaymentCaptured events published
  completions,     \* RefundCompleted events published
  delivering       \* the events not yet noted as delivered

paymentRowsVars == <<orderRow, orderHeld, paymentRow, settingsRow, asking, captures, completions, delivering>>

NotAsking == [op |-> "none", at |-> "idle", saw |-> NoRow]
OrderOps == {"startPayment", "captureManually", "cancel", "recordPayment"}
NeedsSettings == {"startPayment", "captureManually", "registerManualRefund"}

PaymentRowsInit ==
  /\ orderRow = [status |-> "PENDING_PAYMENT", paid |-> FALSE] /\ orderHeld = NoRow
  /\ paymentRow = NoRow
  /\ settingsRow = [enabled |-> TRUE, version |-> 1]
  /\ asking = [r \in PayRequests |-> NotAsking]
  /\ captures = 0 /\ completions = 0 /\ delivering = {}

-----------------------------------------------------------------------------
(* The payment.                                                            *)

newPayment == [status |-> "PENDING", refund |-> "NONE", attempts |-> <<"PENDING">>, version |-> 1]

\* Mutant: a payment collected already is collected again.
isCapturableAgain(row) == row.status \in {"PENDING", "CAPTURED"}

isCapturable(row) == row.status = "PENDING"
captured(row) == [row EXCEPT !.status = "CAPTURED", !.attempts = Append(@, "CAPTURED")]
cancelled(row) == [row EXCEPT !.status = "CANCELLED"]

\* startRefund throws unless the payment is captured or has its refund already.
isRefundable(row) == row # NoRow /\ (row.refund # "NONE" \/ row.status = "CAPTURED")
refunding(row) == [row EXCEPT !.refund = "PENDING"]

\* Inserting fails if the order has a payment, saving if the payment is not the one that was read.
insertPayment(row) == paymentRow = NoRow /\ paymentRow' = row
savePayment(read, row) ==
  /\ paymentRow # NoRow /\ paymentRow.version = read.version
  /\ paymentRow' = [row EXCEPT !.version = @ + 1]

-----------------------------------------------------------------------------
(* Requests.                                                               *)

\* Somebody asks for something; the staff also says which version of the payment or the settings it saw.
askFor(r, op) ==
  /\ asking[r] = NotAsking
  /\ op \in NeedsSettings => settingsRow.enabled
  /\ op = "recordPayment" => "PaymentCaptured" \in delivering
  /\ op = "registerManualRefund" => paymentRow # NoRow
  /\ op = "configure" => settingsRow.version <= MaxSettings
  /\ asking' = [asking EXCEPT ![r] = [op |-> op, at |-> "asked",
                   saw |-> IF op = "configure" THEN settingsRow ELSE paymentRow]]
  /\ UNCHANGED <<orderRow, orderHeld, paymentRow, settingsRow, captures, completions, delivering>>

\* Whether the order is in a status that allows it.
allows(op) ==
  CASE op = "startPayment" -> orderRow.status = "PENDING_PAYMENT"
    [] op = "captureManually" -> orderRow.status \in {"PENDING_PAYMENT", "EXPIRED"}
    [] op = "cancel" -> orderRow.status \in {"PENDING_PAYMENT", "PAID"}
    [] op = "recordPayment" -> TRUE

\* The order is locked, the settings are looked at again and the payment is read.
findByOrder(r) ==
  /\ asking[r].op \in OrderOps /\ asking[r].at = "asked"
  /\ orderHeld = NoRow
  /\ allows(asking[r].op)
  /\ asking[r].op \in NeedsSettings => settingsRow.enabled
  /\ orderHeld' = r
  /\ asking' = [asking EXCEPT ![r].at = "read", ![r].saw = paymentRow]
  /\ UNCHANGED <<orderRow, paymentRow, settingsRow, captures, completions, delivering>>

\* A request ends with an error: its transaction is undone.
refuse(r) ==
  /\ asking[r] # NotAsking
  /\ asking' = [asking EXCEPT ![r] = NotAsking]
  /\ orderHeld' = IF orderHeld = r THEN NoRow ELSE orderHeld
  /\ UNCHANGED <<orderRow, paymentRow, settingsRow, captures, completions, delivering>>

\* A request commits.
commits(r) ==
  /\ asking' = [asking EXCEPT ![r] = NotAsking]
  /\ orderHeld' = IF orderHeld = r THEN NoRow ELSE orderHeld

isReading(r, op) == asking[r].op = op /\ asking[r].at = "read"

\* A payment that was started already is answered as it is.
startPayment(r) ==
  /\ isReading(r, "startPayment")
  /\ LET read == asking[r].saw IN
       IF read = NoRow THEN insertPayment(newPayment)
       ELSE read.status = "PENDING" /\ UNCHANGED paymentRow
  /\ commits(r)
  /\ UNCHANGED <<orderRow, settingsRow, captures, completions, delivering>>

capture(r) ==
  /\ isReading(r, "captureManually")
  /\ LET read == asking[r].saw IN
       \/ read = NoRow /\ insertPayment(captured(newPayment))
       \/ read # NoRow /\ isCapturable(read) /\ savePayment(read, captured(read))
  /\ captures' = captures + 1 /\ delivering' = delivering \cup {"PaymentCaptured"}
  /\ commits(r)
  /\ UNCHANGED <<orderRow, settingsRow, completions>>

\* startRefund: a refund in progress or completed stays as it is.
startRefundOf(read) ==
  /\ isRefundable(read)
  /\ IF read.refund # "NONE" THEN UNCHANGED paymentRow ELSE savePayment(read, refunding(read))

\* cancelPending: a payment that was not collected is cancelled, any other stays as it is.
cancelPendingOf(read) ==
  IF read # NoRow /\ read.status = "PENDING" THEN savePayment(read, cancelled(read)) ELSE UNCHANGED paymentRow

\* The staff cancels the order.
cancelOrder(r) ==
  /\ isReading(r, "cancel")
  /\ IF orderRow.status = "PAID" THEN startRefundOf(asking[r].saw) ELSE cancelPendingOf(asking[r].saw)
  /\ orderRow' = [orderRow EXCEPT !.status = "CANCELLED"]
  /\ commits(r)
  /\ UNCHANGED <<settingsRow, captures, completions, delivering>>

\* The order hears of the payment, and notes it unless the API fails first.  An order paid and waiting for manual
\* fulfilment is PAID here: payments and refunds do not tell them apart.
recordPaymentOf(r, noted) ==
  /\ isReading(r, "recordPayment")
  /\ \/ /\ orderRow.status \in {"PENDING_PAYMENT", "EXPIRED"}
        /\ orderRow' = [status |-> "PAID", paid |-> TRUE] /\ UNCHANGED paymentRow
     \/ /\ orderRow.status = "CANCELLED" /\ ~orderRow.paid
        /\ startRefundOf(asking[r].saw) /\ orderRow' = [orderRow EXCEPT !.paid = TRUE]
     \/ /\ orderRow.paid /\ UNCHANGED <<orderRow, paymentRow>>
  /\ delivering' = IF noted THEN delivering \ {"PaymentCaptured"} ELSE delivering
  /\ commits(r)
  /\ UNCHANGED <<settingsRow, captures, completions>>

\* The payment is locked, compared with the version the staff saw and written.
registerManualRefundOf(r) ==
  /\ asking[r].op = "registerManualRefund"
  /\ paymentRow.version = asking[r].saw.version /\ paymentRow.refund = "PENDING"
  /\ savePayment(paymentRow, [paymentRow EXCEPT !.refund = "COMPLETED", !.status = "REFUNDED"])
  /\ completions' = completions + 1 /\ delivering' = delivering \cup {"RefundCompleted"}
  /\ commits(r)
  /\ UNCHANGED <<orderRow, settingsRow, captures>>

\* The order hears of its refund.
recordRefundOf(noted) ==
  /\ "RefundCompleted" \in delivering /\ orderHeld = NoRow
  /\ orderRow' = IF orderRow.status = "CANCELLED" /\ orderRow.paid THEN [orderRow EXCEPT !.status = "REFUNDED"] ELSE orderRow
  /\ delivering' = IF noted THEN delivering \ {"RefundCompleted"} ELSE delivering
  /\ UNCHANGED <<orderHeld, paymentRow, settingsRow, asking, captures, completions>>

expireOrder ==
  /\ orderRow.status = "PENDING_PAYMENT" /\ orderHeld = NoRow
  /\ orderRow' = [orderRow EXCEPT !.status = "EXPIRED"]
  /\ UNCHANGED <<orderHeld, paymentRow, settingsRow, asking, captures, completions, delivering>>

\* The settings are read, compared with the version the staff saw, and saved in another statement.
findSettings(r) ==
  /\ asking[r].op = "configure" /\ asking[r].at = "asked"
  /\ settingsRow.version = asking[r].saw.version
  /\ asking' = [asking EXCEPT ![r].at = "read"]
  /\ UNCHANGED <<orderRow, orderHeld, paymentRow, settingsRow, captures, completions, delivering>>

saveSettings(r) ==
  /\ isReading(r, "configure")
  /\ settingsRow.version = asking[r].saw.version
  /\ settingsRow' = [enabled |-> ~asking[r].saw.enabled, version |-> settingsRow.version + 1]
  /\ commits(r)
  /\ UNCHANGED <<orderRow, paymentRow, captures, completions, delivering>>

-----------------------------------------------------------------------------
PaymentRowsNext ==
  \/ \E r \in PayRequests :
       \/ \E op \in OrderOps \cup {"registerManualRefund", "configure"} : askFor(r, op)
       \/ findByOrder(r) \/ refuse(r)
       \/ startPayment(r) \/ capture(r) \/ cancelOrder(r) \/ registerManualRefundOf(r)
       \/ \E noted \in BOOLEAN : recordPaymentOf(r, noted)
       \/ findSettings(r) \/ saveSettings(r)
  \/ \E noted \in BOOLEAN : recordRefundOf(noted)
  \/ expireOrder

PaymentRowsSpec == PaymentRowsInit /\ [][PaymentRowsNext]_paymentRowsVars

-----------------------------------------------------------------------------
(* Properties.                                                             *)

\* The money of an order is collected once and given back once, however often the staff registers it before the
\* order hears of it; the events and the attempts tell exactly that.
CollectedOnce ==
  /\ captures <= 1 /\ completions <= captures
  /\ captures = 1 <=> paymentRow # NoRow /\ paymentRow.status \in {"CAPTURED", "REFUNDED"}
  /\ completions = 1 <=> paymentRow # NoRow /\ paymentRow.status = "REFUNDED"
  /\ paymentRow # NoRow =>
       /\ paymentRow.refund = "COMPLETED" <=> paymentRow.status = "REFUNDED"
       /\ paymentRow.attempts = IF captures = 1 THEN <<"PENDING", "CAPTURED">> ELSE <<"PENDING">>

\* What was collected of a cancelled order is owed back or was given back, unless the order has yet to hear of it;
\* and nothing is owed back of an order that goes on.
RefundsAreOwed ==
  /\ orderRow.status \in {"CANCELLED", "REFUNDED"} /\ captures = 1 =>
       paymentRow.refund # "NONE" \/ "PaymentCaptured" \in delivering
  /\ paymentRow # NoRow /\ paymentRow.refund # "NONE" => orderRow.status \in {"CANCELLED", "REFUNDED"}
  /\ orderRow.status = "REFUNDED" => paymentRow.status = "REFUNDED"

\* A payment is never collected once cancelled nor cancelled once collected; the settings change only as seen.
RowsMoveForward ==
  [][/\ paymentRow # NoRow /\ paymentRow'.status # paymentRow.status =>
          <<paymentRow.status, paymentRow'.status>> \in
            {<<"PENDING", "CAPTURED">>, <<"PENDING", "CANCELLED">>, <<"CAPTURED", "REFUNDED">>}
     /\ settingsRow' # settingsRow => \E r \in PayRequests : asking[r].saw = settingsRow]_paymentRowsVars

\* What the payment, its refund, its events and its order say of the money agrees.
PaymentsHold == [](CollectedOnce /\ RefundsAreOwed) /\ RowsMoveForward
=============================================================================
