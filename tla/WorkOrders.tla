----------------------------- MODULE WorkOrders -----------------------------
(***************************************************************************)
(* Repairs received at the counter (src/modules/work-orders).  The staff   *)
(* changes a work order with the version it read: a request reads it       *)
(* without a lock, decides on what it read and saves only if nobody saved  *)
(* in between, so it is two steps.  Naming a customer keeps their account  *)
(* locked for share until the request ends.  The retention job blocks and  *)
(* then anonymizes what closed long ago, under the lock of the row.        *)
(*                                                                         *)
(* The version is kept as what it is compared for: whether the work order  *)
(* is still the one a request read.  The texts about the customer are one  *)
(* fact, whether they are there.                                           *)
(***************************************************************************)
EXTENDS Naturals, Sequences

CONSTANTS
  WorkOrderIds,
  Clients,       \* customers with an account
  NoClient,      \* the customer of a work order without one
  Sales,         \* sales of the store with a payment
  StaffRequests, \* requests of the staff at the same time
  FORWARD        \* the statuses of a repair in order, from RECEIVED to DELIVERED

ASSUME WorkOrdersAssumption ==
  /\ NoClient \notin Clients /\ NoClient \notin WorkOrderIds
  /\ FORWARD \in Seq(STRING) /\ \A i \in DOMAIN FORWARD : FORWARD[i] \notin {"NONE", "CANCELLED"}
  /\ Len(FORWARD) > 1 /\ FORWARD[1] = "RECEIVED" /\ FORWARD[Len(FORWARD)] = "DELIVERED"

VARIABLES
  workOrders,
  staffRequests,
  accounts,   \* of each customer: ACTIVE, ERASED (asked for) or LAPSED (anonymized for inactivity)
  erasures    \* of each customer: the anonymization in progress, with the rows it locked

workOrdersVars == <<workOrders, staffRequests>>

CLOSED == {"DELIVERED", "CANCELLED"}
WorkOrderStatuses == {FORWARD[i] : i \in DOMAIN FORWARD} \cup {"CANCELLED"}
indexOf(status) == CHOOSE i \in DOMAIN FORWARD : FORWARD[i] = status

Unreceived == [status |-> "NONE", customer |-> NoClient, personal |-> FALSE, blocked |-> FALSE, anonymized |-> FALSE,
               history |-> <<>>, sales |-> {}, age |-> 0]
NoRequest == [op |-> "none", id |-> NoClient, arg |-> NoClient, names |-> NoClient, fresh |-> FALSE]

WorkOrdersInit ==
  /\ workOrders = [w \in WorkOrderIds |-> Unreceived]
  /\ staffRequests = [r \in StaffRequests |-> NoRequest]

-----------------------------------------------------------------------------
(* WorkOrder. *)

received(customer) == [Unreceived EXCEPT !.status = "RECEIVED", !.customer = customer, !.personal = TRUE, !.history = <<"RECEIVED">>]

IsOpen(w) == workOrders[w].status \in WorkOrderStatuses \ CLOSED

Forward(from, to) == to # "CANCELLED" => indexOf(to) > indexOf(from)

anonymized(row) == [row EXCEPT !.personal = FALSE, !.anonymized = TRUE]

-----------------------------------------------------------------------------
(* Requests of the staff. *)

\* The accounts the requests in progress named, locked until they end.
lockedForShare == {staffRequests[r].names : r \in StaffRequests} \ {NoClient}

\* assertAccounts: ACTIVE, and no anonymization of it is in progress (it would wait for that one, and look again).
isActiveCustomer(c) == c # NoClient => accounts[c] = "ACTIVE" /\ erasures[c].step = "none"

RowFree(w) == \A c \in Clients : w \notin erasures[c].workOrders

start(r, op, w, arg, customer) ==
  /\ staffRequests[r] = NoRequest /\ isActiveCustomer(customer)
  /\ staffRequests' = [staffRequests EXCEPT ![r] = [op |-> op, id |-> w, arg |-> arg, names |-> customer, fresh |-> TRUE]]
  /\ UNCHANGED workOrders

startReceive(r, w, c) ==
  /\ workOrders[w] = Unreceived /\ \A x \in StaffRequests : staffRequests[x].id # w  \* a new id
  /\ start(r, "receive", w, c, c)
startEdit(r, w, c) == IsOpen(w) /\ start(r, "edit", w, c, IF c = workOrders[w].customer THEN NoClient ELSE c)
startMove(r, w, to) == IsOpen(w) /\ Forward(workOrders[w].status, to) /\ start(r, "move", w, to, NoClient)
startLink(r, w, s) == IsOpen(w) /\ s \notin workOrders[w].sales /\ start(r, "link", w, s, NoClient)
startUnlink(r, w, s) == IsOpen(w) /\ s \in workOrders[w].sales /\ start(r, "unlink", w, s, NoClient)

\* Every save raises the version: what the others read of that work order is old.
stale(requests, w) == [x \in StaffRequests |-> IF requests[x].id = w THEN [requests[x] EXCEPT !.fresh = FALSE] ELSE requests[x]]
saveWorkOrder(w, row) == workOrders' = [workOrders EXCEPT ![w] = row]

\* The row a request writes.
changed(q) ==
  LET row == workOrders[q.id] IN
  CASE q.op = "receive" -> received(q.arg)
    [] q.op = "edit" -> [row EXCEPT !.customer = q.arg]
    [] q.op = "move" -> [row EXCEPT !.status = q.arg, !.history = Append(@, q.arg)]
    [] q.op = "link" -> [row EXCEPT !.sales = @ \cup {q.arg}]
    [] q.op = "unlink" -> [row EXCEPT !.sales = @ \ {q.arg}]

\* Mutant: the last one to save wins.
SameVersionNot(q) == TRUE
SameVersion(q) == q.fresh

\* The end of a request: its save, or its refusal, also when the sale is linked to a work order already: to another of
\* these, or to one that is not modelled.
finish(r, takenElsewhere) ==
  LET q == staffRequests[r]
      taken == takenElsewhere \/ \E w \in WorkOrderIds : q.arg \in workOrders[w].sales
  IN
  /\ q # NoRequest /\ RowFree(q.id)
  /\ takenElsewhere => q.op = "link"
  /\ IF SameVersion(q) /\ ~(q.op = "link" /\ taken)
     THEN saveWorkOrder(q.id, changed(q)) /\ staffRequests' = [stale(staffRequests, q.id) EXCEPT ![r] = NoRequest]
     ELSE staffRequests' = [staffRequests EXCEPT ![r] = NoRequest] /\ UNCHANGED workOrders

-----------------------------------------------------------------------------
(* Retention, and the anonymization of one work order. *)

\* The operational months, and then the blocked ones, since it closed.
ageWorkOrder(w) ==
  /\ workOrders[w].status \in CLOSED /\ workOrders[w].age < 2
  /\ saveWorkOrder(w, [workOrders[w] EXCEPT !.age = @ + 1]) /\ UNCHANGED staffRequests

closedBy(w, age) == workOrders[w].status \in CLOSED /\ workOrders[w].age >= age

blockDue(w) ==
  /\ RowFree(w) /\ closedBy(w, 1) /\ ~workOrders[w].blocked /\ ~workOrders[w].anonymized
  /\ saveWorkOrder(w, [workOrders[w] EXCEPT !.blocked = TRUE]) /\ staffRequests' = stale(staffRequests, w)

anonymizeDue(w) ==
  /\ RowFree(w) /\ closedBy(w, 2) /\ ~workOrders[w].anonymized
  /\ saveWorkOrder(w, anonymized(workOrders[w])) /\ staffRequests' = stale(staffRequests, w)

anonymizeOne(w) ==
  /\ RowFree(w) /\ workOrders[w].status \in CLOSED /\ ~workOrders[w].anonymized
  /\ saveWorkOrder(w, anonymized(workOrders[w])) /\ staffRequests' = stale(staffRequests, w)

WorkOrdersNext ==
  /\ UNCHANGED <<accounts, erasures>>
  /\ \/ \E r \in StaffRequests, w \in WorkOrderIds :
          \/ \E c \in Clients \cup {NoClient} : startReceive(r, w, c) \/ startEdit(r, w, c)
          \/ \E to \in WorkOrderStatuses : startMove(r, w, to)
          \/ \E s \in Sales : startLink(r, w, s) \/ startUnlink(r, w, s)
     \/ \E r \in StaffRequests, takenElsewhere \in BOOLEAN : finish(r, takenElsewhere)
     \/ \E w \in WorkOrderIds : ageWorkOrder(w) \/ blockDue(w) \/ anonymizeDue(w) \/ anonymizeOne(w)

-----------------------------------------------------------------------------
(* Properties. *)

\* Two requests that read the same work order never leave a history that repeats or goes back: it ends where the
\* work order is, and every entry is further along, with a cancellation only at the end (moveTo, saved by version).
HistoryMovesForward ==
  \A w \in WorkOrderIds : LET h == workOrders[w].history IN
    workOrders[w] # Unreceived =>
      /\ h[Len(h)] = workOrders[w].status
      /\ \A i \in 1..(Len(h) - 1) : 
           h[i] \notin CLOSED /\ (h[i + 1] # "CANCELLED" => indexOf(h[i]) < indexOf(h[i + 1]))

\* Whatever a request read before, a work order that closed keeps its status, customer, history and sales, and one that
\* was anonymized never gets a customer's texts back.
ClosedIsFinal ==
  [][\A w \in WorkOrderIds : workOrders[w].status \in CLOSED =>
       /\ \A f \in {"status", "customer", "history", "sales"} : workOrders'[w][f] = workOrders[w][f]
       /\ workOrders'[w].personal => workOrders[w].personal
       /\ workOrders[w].anonymized => workOrders'[w].anonymized /\ ~workOrders'[w].personal]_workOrdersVars

\* Concurrent changes of a work order take it forward once and leave it as it closed (saveWorkOrder).
WorkOrdersEnd == []HistoryMovesForward /\ ClosedIsFinal
=============================================================================
