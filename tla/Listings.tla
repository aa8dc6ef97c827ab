------------------------------ MODULE Listings ------------------------------
(***************************************************************************)
(* The listings of the API: someone asks for the pages of one, in order,   *)
(* while its rows change.  A listing by pages reads the rows of a page and *)
(* their total in two statements; a listing by cursor goes on from the     *)
(* last row it showed.  A row is reduced to the value it is sorted by, a   *)
(* column the filters look at, the account it is of, and its contact data, *)
(* the person's, which is hidden once blocked and gone once anonymized.    *)
(***************************************************************************)
EXTENDS Integers, Sequences, SequencesExt, FiniteSets

CONSTANTS
  RowIds,            \* integers: ids have an order
  SortValues,        \* what rows are sorted by
  PageSizes,         \* page sizes asked for
  MaxRowChanges      \* bound: changes of the rows while a walk goes on

ASSUME ListingsAssumption ==
  /\ IsFiniteSet(RowIds) /\ RowIds \subseteq Nat
  /\ SortValues \subseteq Nat /\ 0 \notin SortValues /\ PageSizes \subseteq Nat \ {0}

NULL == 0            \* a sort value the row does not have
Persons == {"ann", "bob"}
Gone == "gone"       \* no contact data: anonymized, or hidden because it is blocked
Guest == "guest"     \* no account

VARIABLES
  listed,      \* the rows, by id
  walk,        \* what is asked, and what was answered so far
  rowChanges,  \* how many changes there were
  steadily     \* the rows that were there and did not change since the walk began

listingsVars == <<listed, walk, rowChanges, steadily>>

EmptySlot == [key |-> NULL, status |-> "none", person |-> Gone, customer |-> Guest, blocked |-> FALSE]
Deleted == [EmptySlot EXCEPT !.status = "deleted"]   \* an id is never used again
Listed == {id \in RowIds : listed[id] \notin {EmptySlot, Deleted}}

-----------------------------------------------------------------------------
(* The conditions of each listing.  A filter is none, on a column, or a text looked for. *)

Filters == {<<"all">>, <<"status", "open">>, <<"q", "ann">>, <<"customer", "ann">>, <<"guest", "yes">>, <<"guest", "no">>}
FiltersOf(listing) ==
  {filter \in Filters : /\ filter[1] = "customer" => listing \in {"orders", "workOrders"}
                        /\ filter[1] = "guest" => listing = "orders"}
onColumn(filter, r) == filter[1] = "status" => r.status = filter[2]
\* customerId and guest: whose account, or whether any; blocked rows too.
onCustomer(filter, r) == filter[1] = "customer" => r.customer = filter[2]
onGuest(filter, r) == filter[1] = "guest" => (r.customer = Guest <=> filter[2] = "yes")
\* A text looked for in columns that hold no personal data, such as a name of the catalog: the status stands for them.
onName(filter, r) == filter[1] = "q" => r.status = "open"
onPerson(filter, r) == filter[1] = "q" => r.person = filter[2]
\* Mutant: the search also looks at blocked data.
searchOfAll(filter, r) == filter[1] = "q" => r.person = filter[2]
\* searchOf: the blocked data is never matched.
searchOf(filter, r) == filter[1] = "q" => r.person = filter[2] /\ ~r.blocked

listOrders(filter, r) == onColumn(filter, r) /\ onCustomer(filter, r) /\ onGuest(filter, r) /\ searchOf(filter, r)
\* Her own, neither anonymized nor blocked.
listCustomerOrders(filter, r) == r.customer = "ann" /\ r.person # Gone /\ ~r.blocked /\ onColumn(filter, r)
listShipments(filter, r) == onColumn(filter, r) /\ onName(filter, r)
workOrderSearch(filter, r) == filter[1] = "q" => r.person = filter[2] /\ ~r.blocked
listWorkOrders(filter, r) == onColumn(filter, r) /\ onCustomer(filter, r) /\ workOrderSearch(filter, r)
listPayments(filter, r) == onColumn(filter, r)
listPromotions(filter, r) == onColumn(filter, r) /\ onName(filter, r)
listRoles(filter, r) == onName(filter, r)
listStaff(filter, r) == onColumn(filter, r) /\ onPerson(filter, r)
listCustomers(filter, r) == onColumn(filter, r) /\ onPerson(filter, r)
listBrands(filter, r) == onColumn(filter, r) /\ onName(filter, r)
listProducts(filter, r) == onColumn(filter, r) /\ onName(filter, r)
pageOfStock(filter, r) == onColumn(filter, r)
stockBySku(filter, r) == onColumn(filter, r)
listDeliveries(filter, r) == onColumn(filter, r)
listAudit(filter, r) == onColumn(filter, r)
listMovements(filter, r) == onColumn(filter, r)

ByCursor == {"audit", "movements"}
WithBlocking == {"orders", "customerOrders", "shipments", "workOrders"}
ByPage == WithBlocking \cup {"payments", "promotions", "roles", "staff", "customers", "brands", "products", "stock", "stockBySku", "deliveries"}

where(listing, filter, r) ==
  CASE listing = "orders" -> listOrders(filter, r) [] listing = "customerOrders" -> listCustomerOrders(filter, r)
    [] listing = "shipments" -> listShipments(filter, r) [] listing = "workOrders" -> listWorkOrders(filter, r)
    [] listing = "payments" -> listPayments(filter, r) [] listing = "promotions" -> listPromotions(filter, r)
    [] listing = "roles" -> listRoles(filter, r) [] listing = "staff" -> listStaff(filter, r)
    [] listing = "customers" -> listCustomers(filter, r) [] listing = "brands" -> listBrands(filter, r)
    [] listing = "products" -> listProducts(filter, r) [] listing = "stock" -> pageOfStock(filter, r)
    [] listing = "stockBySku" -> stockBySku(filter, r) [] listing = "deliveries" -> listDeliveries(filter, r)
    [] listing = "audit" -> listAudit(filter, r) [] OTHER -> listMovements(filter, r)

\* What is shown of a row: its contact data, blocked data hidden from the staff too, and in the listings of orders its
\* account, blocked or not.
toSummaryView(r) == [contact |-> r.person, customer |-> r.customer]
toAdminSummaryView(r) == [toSummaryView(r) EXCEPT !.contact = IF r.blocked THEN Gone ELSE @]
toShipmentView(r) == [contact |-> IF r.blocked THEN Gone ELSE r.person, customer |-> Guest]
shown(r) == [contact |-> IF r.blocked THEN Gone ELSE r.person, customer |-> Guest]
view(listing, r) ==
  CASE listing = "orders" -> toAdminSummaryView(r) [] listing = "customerOrders" -> toSummaryView(r)
    [] listing = "shipments" -> toShipmentView(r) [] listing = "workOrders" -> shown(r)
    [] OTHER -> [contact |-> r.person, customer |-> Guest]

-----------------------------------------------------------------------------
(* The order of the rows. *)

\* lastLoginAt and publishedAt: nulls last, in either direction.
MayLackTheValue == {"customers", "products"}
before(direction, a, b) ==
  LET x == listed[a].key
      y == listed[b].key
  IN  x # y /\ (y = NULL \/ (x # NULL /\ IF direction = "asc" THEN x < y ELSE x > y))

\* [...sort, id]: by id the same way by cursor, ascending by page.
tieBreak(listing, a, b) == IF listing \in ByCursor THEN a > b ELSE a < b
precedes(listing, direction, a, b) ==
  \/ before(direction, a, b)
  \/ ~before(direction, b, a) /\ tieBreak(listing, a, b)

\* Every order the database may answer a set of rows in: one, while the order is total.
SortedIds(listing, direction, S) ==
  {p \in [1..Cardinality(S) -> S] : \A i, j \in 1..Cardinality(S) : i < j => p[i] # p[j] /\ ~precedes(listing, direction, p[j], p[i])}

matching(listing, filter) == {id \in Listed : where(listing, filter, listed[id])}

\* pageOffset, skip and take.
pageOffset(page, pageSize) == (page - 1) * pageSize
slice(rows, offset, limit) == SubSeq(rows, offset + 1, IF offset + limit < Len(rows) THEN offset + limit ELSE Len(rows))
totalPages(total, pageSize) == (total + pageSize - 1) \div pageSize

-----------------------------------------------------------------------------
(* A walk. *)

NoPosition == [at |-> NULL, id |-> 0]

\* Orders and work orders are of an account or of none.
WithCustomer == {"orders", "customerOrders", "workOrders"}
customersFor(listing, person) == IF listing \in WithCustomer THEN {person, Guest} ELSE {Guest}

ListingsInit ==
  /\ listed \in [RowIds -> {EmptySlot} \cup [key : SortValues \cup {NULL}, status : {"open"}, person : {"ann"},
                                            customer : {"ann", Guest}, blocked : {FALSE}]]
  /\ walk \in [listing : ByPage \cup ByCursor, filter : Filters, direction : {"asc", "desc"}, pageSize : PageSizes,
               page : {1}, step : {"rows"}, seen : {<<>>}, people : {<<>>}, total : {0}, position : {NoPosition}]
  \* Who never signed in, and what was never published, has no such time; the cursor goes from the last record back.
  /\ walk.listing \in ByCursor => walk.direction = "desc"
  /\ walk.listing \notin MayLackTheValue => \A id \in Listed : listed[id].key # NULL
  /\ walk.filter \in FiltersOf(walk.listing)
  /\ \A id \in Listed : listed[id].customer \in customersFor(walk.listing, listed[id].person)
  /\ rowChanges = 0 /\ steadily = matching(walk.listing, walk.filter)

show(ids) == [walk EXCEPT !.seen = @ \o ids, !.people = @ \o [i \in 1..Len(ids) |-> view(walk.listing, listed[ids[i]])]]

\* findMany of a page: its rows.
readRows ==
  /\ walk.listing \in ByPage \ {"stockBySku"} /\ walk.step = "rows"
  /\ \E rows \in SortedIds(walk.listing, walk.direction, matching(walk.listing, walk.filter)) :
       walk' = [show(slice(rows, pageOffset(walk.page, walk.pageSize), walk.pageSize)) EXCEPT !.step = "total"]
  /\ UNCHANGED <<listed, rowChanges, steadily>>

\* count: the other statement of the Promise.all; then toPageResponse.
readTotal ==
  /\ walk.step = "total"
  /\ LET total == Cardinality(matching(walk.listing, walk.filter))
     IN  walk' = [walk EXCEPT !.total = total, !.step = IF walk.page < totalPages(total, walk.pageSize) THEN "page" ELSE "end"]
  /\ UNCHANGED <<listed, rowChanges, steadily>>

\* StockListing.list by sku: all the rows in one statement, sorted and counted in memory.
listBySku ==
  /\ walk.listing = "stockBySku" /\ walk.step = "rows"
  /\ \E all \in SortedIds(walk.listing, walk.direction, matching(walk.listing, walk.filter)) :
       walk' = [show(slice(all, pageOffset(walk.page, walk.pageSize), walk.pageSize)) EXCEPT
                  !.total = Len(all), !.step = IF walk.page < totalPages(Len(all), walk.pageSize) THEN "page" ELSE "end"]
  /\ UNCHANGED <<listed, rowChanges, steadily>>

\* The reader asks for the next page.
nextPage ==
  /\ walk.step = "page"
  /\ walk' = [walk EXCEPT !.page = @ + 1, !.step = "rows"]
  /\ UNCHANGED <<listed, rowChanges, steadily>>

\* OR [{ occurredAt: lt }, { occurredAt, id: lt }].
afterCursor(position, id) == position = NoPosition \/ listed[id].key < position.at \/ (listed[id].key = position.at /\ id < position.id)

\* AuditListing.page, StockListing.movements: one row more is read, to know whether another page follows.
readFromCursor ==
  /\ walk.listing \in ByCursor /\ walk.step = "rows"
  /\ \E rows \in SortedIds(walk.listing, walk.direction, {id \in matching(walk.listing, walk.filter) : afterCursor(walk.position, id)}) :
       LET found == slice(rows, 0, walk.pageSize + 1)
           entries == slice(found, 0, walk.pageSize)
       IN  walk' = [show(entries) EXCEPT
              !.step = IF Len(found) > walk.pageSize THEN "page" ELSE "end",
              !.position = IF Len(found) > walk.pageSize THEN [at |-> listed[Last(entries)].key, id |-> Last(entries)] ELSE @]
  /\ UNCHANGED <<listed, rowChanges, steadily>>

-----------------------------------------------------------------------------
(* The rows change meanwhile. *)

changeRow(id, r) ==
  /\ walk.step # "end" /\ rowChanges < MaxRowChanges /\ r # listed[id]
  /\ listed' = [listed EXCEPT ![id] = r] /\ rowChanges' = rowChanges + 1
  /\ steadily' = steadily \ {id}
  /\ UNCHANGED walk

insertRow(id) == /\ listed[id] = EmptySlot
                 /\ \E key \in SortValues, person \in Persons : \E customer \in customersFor(walk.listing, person) :
                      changeRow(id, [key |-> key, status |-> "open", person |-> person, customer |-> customer, blocked |-> FALSE])
\* Audit records and movements are never changed, and the archive deletes the records.
updateRow(id) == /\ id \in Listed /\ walk.listing \notin ByCursor
                 /\ \/ \E key \in SortValues : changeRow(id, [listed[id] EXCEPT !.key = key])
                    \/ changeRow(id, [listed[id] EXCEPT !.status = "closed"])
blockRow(id) == /\ id \in Listed /\ walk.listing \in WithBlocking /\ listed[id].person # Gone
                /\ changeRow(id, [listed[id] EXCEPT !.blocked = TRUE])
\* Anonymizing an order or a work order leaves its account.
anonymizeRow(id) == /\ id \in Listed /\ walk.listing \in WithBlocking \cup {"customers"}
                    /\ changeRow(id, [listed[id] EXCEPT !.person = Gone])
deleteRow(id) == id \in Listed /\ walk.listing \in {"audit", "roles", "brands", "products", "deliveries"} /\ changeRow(id, Deleted)

ListingsNext ==
  \/ readRows \/ readTotal \/ listBySku \/ nextPage \/ readFromCursor
  \/ \E id \in RowIds : insertRow(id) \/ updateRow(id) \/ blockRow(id) \/ anonymizeRow(id) \/ deleteRow(id)

ListingsSpec == ListingsInit /\ [][ListingsNext]_listingsVars

-----------------------------------------------------------------------------
showsOnce(id) == Cardinality({i \in 1..Len(walk.seen) : walk.seen[i] = id}) = 1

\* A walk by cursor shows every row that stayed exactly once, in order, whatever was inserted or archived meanwhile.
CursorWalksAreWhole ==
  walk.listing \in ByCursor =>
    /\ walk.step = "end" => \A id \in steadily : showsOnce(id)
    /\ \A i, j \in 1..Len(walk.seen) : i < j => walk.seen[i] # walk.seen[j]
    /\ \A i, j \in 1..Len(walk.seen) : i < j /\ {walk.seen[i], walk.seen[j]} \subseteq steadily =>
         precedes(walk.listing, walk.direction, walk.seen[i], walk.seen[j])

\* A walk by pages nothing disturbed shows the matching rows once each, in order, and the last page says how many they are.
PageWalksAreWhole ==
  walk.listing \in ByPage /\ walk.step = "end" /\ rowChanges = 0 =>
    /\ walk.total = Len(walk.seen) /\ {walk.seen[i] : i \in 1..Len(walk.seen)} = matching(walk.listing, walk.filter)
    /\ \A i \in 2..Len(walk.seen) : precedes(walk.listing, walk.direction, walk.seen[i - 1], walk.seen[i])

\* ADR-0070, ADR-0167: a blocked row is found and shown as if it were anonymized.  The staff is told whose account it is,
\* if any, which an anonymized one keeps; neither what is shown nor what a search finds tells who its contact is.
BlockedStaysHidden ==
  \A id \in Listed : listed[id].blocked =>
    LET erased == [listed[id] EXCEPT !.person = Gone, !.blocked = FALSE]
    IN  /\ where(walk.listing, walk.filter, listed[id]) <=> where(walk.listing, walk.filter, erased)
        /\ where(walk.listing, walk.filter, listed[id]) => view(walk.listing, listed[id]) = view(walk.listing, erased)

(***************************************************************************)
(* A walk by cursor misses and repeats nothing that stayed, an undisturbed *)
(* walk by pages shows all in order with its total, and the contact data   *)
(* of a blocked row cannot be read from a listing.                         *)
(***************************************************************************)
ListingsHold == CursorWalksAreWhole /\ PageWalksAreWhole /\ BlockedStaysHidden
=============================================================================
