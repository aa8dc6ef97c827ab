----------------------------- MODULE Inventory -----------------------------
(***************************************************************************)
(* The stock of the shop (src/modules/inventory): units on hand and        *)
(* reserved per variant and warehouse, the reservations of orders, the     *)
(* ledger of movements and the warehouses.                                 *)
(*                                                                         *)
(* A transaction that takes its rows with conditional updates or row locks *)
(* is one action: the locks it holds until its end make it atomic for the  *)
(* others.  What the code reads without a lock and uses later is a step of *)
(* its own: the plans of a reservation, and the warehouse an editor saves. *)
(* So is the import, whose locks make the others wait between its reads    *)
(* and its writes.                                                         *)
(***************************************************************************)
EXTENDS Integers, FiniteSets

CONSTANTS
  Orders, Variants,
  Warehouses,   \* numbered in the order of their codes
  First,        \* the warehouse of the migration
  Want,         \* the merged requests of each order, by variant
  Files,        \* receipt files, by name: the units of each stock item
  Staff,        \* people of the staff who edit a warehouse or import a file
  Priorities,
  MaxOnHand,    \* MAX_ON_HAND; also the bound on receipts and adjustments
  MaxEdits,     \* bound: edits of warehouses
  None          \* nothing in hand

Items == Variants \X Warehouses

ASSUME InventoryAssumption ==
  /\ Warehouses \subseteq Nat /\ First \in Warehouses
  /\ Want \in [Orders -> [Variants -> Nat]]
  /\ \A o \in Orders : IsFiniteSet({v \in Variants : Want[o][v] > 0})
  /\ \A f \in DOMAIN Files : Files[f] \in [Items -> Nat]
  /\ Priorities \subseteq Nat /\ Priorities # {}
  /\ MaxOnHand \in Nat /\ MaxEdits \in Nat

VARIABLES
  onHand, reserved,   \* stock_items; one that does not exist yet counts zero
  ledger,             \* the sum of the stock_movements of each item
  booking,            \* the last reservation of each order: its status and warehouse
  plans,              \* the warehouses a reservation in progress has left to try, as it read them
  restocked,          \* units brought back, by order and line
  warehouse,          \* warehouses: status and priority
  editing,            \* the warehouse each editor read and has not saved yet, or None
  importing,          \* the file each importer holds the locks of, with the onHand it read, or None
  imported,           \* stock_receipt_imports: the files imported
  edits

stock == <<onHand, reserved, ledger>>
vars == <<onHand, reserved, ledger, booking, plans, restocked, warehouse, editing, importing, imported, edits>>

Copies == [w : Warehouses, status : {"ACTIVE", "INACTIVE"}, priority : Priorities]

TypeOK ==
  /\ onHand \in [Items -> Nat] /\ reserved \in [Items -> Nat] /\ ledger \in [Items -> Int]
  /\ booking \in [Orders -> [status : {"NONE", "ACTIVE", "COMMITTED", "RELEASED", "EXPIRED"}, w : Warehouses]]
  /\ plans \in [Orders -> SUBSET [w : Warehouses, priority : Priorities]]
  /\ restocked \in [Orders -> [Variants -> Nat]]
  /\ warehouse \in [Warehouses -> [status : {"NONE", "ACTIVE", "INACTIVE"}, priority : Priorities]]
  /\ editing \in [Staff -> Copies \cup {None}]
  /\ importing \in [Staff -> [file : DOMAIN Files, read : [Items -> Nat]] \cup {None}]
  /\ imported \subseteq DOMAIN Files
  /\ edits \in 0..MaxEdits

Init ==
  /\ onHand = [i \in Items |-> 0] /\ reserved = [i \in Items |-> 0] /\ ledger = [i \in Items |-> 0]
  /\ booking = [o \in Orders |-> [status |-> "NONE", w |-> First]]
  /\ plans = [o \in Orders |-> {}]
  /\ restocked = [o \in Orders |-> [v \in Variants |-> 0]]
  /\ warehouse \in [Warehouses -> [status : {"NONE", "ACTIVE"}, priority : Priorities]]
  /\ \A w \in Warehouses : warehouse[w].status = IF w = First THEN "ACTIVE" ELSE "NONE"
  /\ editing = [s \in Staff |-> None] /\ importing = [s \in Staff |-> None]
  /\ imported = {} /\ edits = 0

-----------------------------------------------------------------------------
(* Row locks held between two steps: only an import has them.              *)

FileItems(f) == {i \in Items : Files[f][i] > 0}
\* Mutant: the items are read without FOR UPDATE.
LockedNot(i) == FALSE
Locked(i) == \E s \in Staff : importing[s] # None /\ i \in FileItems(importing[s].file)
WarehouseShared(w) == \E v \in Variants : Locked(<<v, w>>)

-----------------------------------------------------------------------------
(* Allocation (domain/allocation.ts).                                      *)

Lines(o) == {v \in Variants : Want[o][v] > 0}
available(i) == onHand[i] - reserved[i]
shortIn(w, o) == {v \in Lines(o) : available(<<v, w>>) < Want[o][v]}

\* activeStock: the active warehouses by priority, then by code.
Active == {w \in Warehouses : warehouse[w].status = "ACTIVE"}
WithPriority(w) == [w |-> w, priority |-> warehouse[w].priority]
Before(a, b) == a.priority < b.priority \/ (a.priority = b.priority /\ a.w < b.w)
IsFirst(c, C) == c \in C /\ \A x \in C \ {c} : Before(c, x)

\* The plans, one warehouse each, which are tried in their order.
ONE_WAREHOUSE_PER_ORDER(o) == {WithPriority(w) : w \in {x \in Active : shortIn(x, o) = {}}}
fixedWarehouse(w, o) == {c \in ONE_WAREHOUSE_PER_ORDER(o) : c.w = w}

\* Mutant: the first warehouse by priority.
shortInFirst(o) ==
  IF Active = {} THEN Lines(o)
  ELSE shortIn(CHOOSE w \in Active : IsFirst(WithPriority(w), {WithPriority(x) : x \in Active}), o)

\* The closest warehouse leaves out fewest lines, the first by priority on a tie.
shortInClosest(o) ==
  IF Active = {} THEN Lines(o)
  ELSE LET fewer(a, b) == Cardinality(shortIn(a, o)) < Cardinality(shortIn(b, o))
           closer(a, b) == fewer(a, b) \/ (~fewer(b, a) /\ Before(WithPriority(a), WithPriority(b)))
       IN shortIn(CHOOSE w \in Active : \A x \in Active \ {w} : closer(w, x), o)

-----------------------------------------------------------------------------
(* Reservations.                                                           *)

\* The units that order o holds of item i.
Holds(o, i) == IF booking[o].status = "ACTIVE" /\ booking[o].w = i[2] THEN Want[o][i[1]] ELSE 0

\* reserve opens the reservation and reads the stock without locks: with an active one there is nothing to
\* do, and without plans it is refused.  Its callers never reserve again for an order whose stock left.
reserve(o, P) ==
  /\ booking[o].status \notin {"ACTIVE", "COMMITTED"} /\ plans[o] = {}
  /\ Lines(o) # {} /\ P # {}
  /\ plans' = [plans EXCEPT ![o] = P]
  /\ UNCHANGED <<onHand, reserved, ledger, booking, restocked, warehouse, editing, importing, imported, edits>>

\* Mutants of Fits: the units are not checked again; nor is the warehouse.
FitsBlindly(o, w) == warehouse[w].status = "ACTIVE"
FitsAnywhere(o, w) == shortIn(w, o) = {}

\* What the conditional updates of a plan find: the warehouse may be inactive, or its units gone, since.
Fits(o, w) == warehouse[w].status = "ACTIVE" /\ shortIn(w, o) = {}

\* The units of order o in warehouse w, and its reservation.
reserveIn(o, w) ==
  /\ reserved' = [i \in Items |-> reserved[i] + IF i[2] = w THEN Want[o][i[1]] ELSE 0]
  /\ booking' = [booking EXCEPT ![o] = [status |-> "ACTIVE", w |-> w]]
  /\ plans' = [plans EXCEPT ![o] = {}]

\* reserveAll: the first plan left, undone when a line is short; after the last one the reservation is refused
\* and leaves no trace.
reserveAll(o) ==
  /\ \E c \in plans[o] :
       /\ IsFirst(c, plans[o])
       /\ \A v \in Lines(o) : ~Locked(<<v, c.w>>)
       /\ \/ Fits(o, c.w) /\ reserveIn(o, c.w)
          \/ ~Fits(o, c.w) /\ plans' = [plans EXCEPT ![o] = @ \ {c}] /\ UNCHANGED <<reserved, booking>>
  /\ UNCHANGED <<onHand, ledger, restocked, warehouse, editing, importing, imported, edits>>

\* Mutant: an expired reservation keeps its units.
leaveKeeping(o, status) ==
  /\ booking[o].status = "ACTIVE"
  /\ \A i \in Items : Holds(o, i) > 0 => ~Locked(i)
  /\ booking' = [booking EXCEPT ![o].status = status]
  /\ reserved' = [i \in Items |-> reserved[i] - IF status = "EXPIRED" THEN 0 ELSE Holds(o, i)]

\* Mutant: the reservation of stock that already left ends again.
leaveTwice(o, status) ==
  /\ booking[o].status \in {"ACTIVE", "COMMITTED"}
  /\ \A i \in Items : Holds(o, i) > 0 => ~Locked(i)
  /\ booking' = [booking EXCEPT ![o].status = status]
  /\ reserved' = [i \in Items |-> reserved[i] - Holds(o, i)]

\* leave: the active reservation of the order ends, once.
leave(o, status) ==
  /\ booking[o].status = "ACTIVE"
  /\ \A i \in Items : Holds(o, i) > 0 => ~Locked(i)
  /\ booking' = [booking EXCEPT ![o].status = status]
  /\ reserved' = [i \in Items |-> reserved[i] - Holds(o, i)]

\* Without an active reservation commit answers already-committed or not-active and changes nothing.
commit(o) ==
  /\ leave(o, "COMMITTED")
  /\ onHand' = [i \in Items |-> onHand[i] - Holds(o, i)]
  /\ ledger' = [i \in Items |-> ledger[i] - Holds(o, i)]
  /\ UNCHANGED <<plans, restocked, warehouse, editing, importing, imported, edits>>

free(o, status) ==
  /\ leave(o, status)
  /\ UNCHANGED <<onHand, ledger, plans, restocked, warehouse, editing, importing, imported, edits>>

-----------------------------------------------------------------------------
(* The ledger.                                                             *)

\* change and record: a signed quantity in an item, with its movement.
change(i, q) ==
  /\ ~Locked(i)
  /\ onHand' = [onHand EXCEPT ![i] = @ + q]
  /\ ledger' = [ledger EXCEPT ![i] = @ + q]
  /\ UNCHANGED <<reserved, booking, plans, warehouse, editing, importing, imported, edits>>

receive(i) ==
  /\ warehouse[i[2]].status = "ACTIVE"
  /\ onHand[i] < MaxOnHand
  /\ change(i, 1)
  /\ UNCHANGED restocked


\* adjust takes no lock of the warehouse, which may be inactive.
adjust(i, q) ==
  /\ warehouse[i[2]].status # "NONE"
  /\ onHand[i] + q <= MaxOnHand
  /\ onHand[i] + q >= reserved[i]
  /\ change(i, q)
  /\ UNCHANGED restocked

Sold(o, v) == IF booking[o].status = "COMMITTED" THEN Want[o][v] ELSE 0


\* A unit of a line comes back to the warehouse it left, even if inactive since, or to an active one the
\* staff names; the caller holds the lock of the order.
restock(o, v, w) ==
  /\ restocked[o][v] + 1 <= Sold(o, v)
  /\ w = booking[o].w \/ warehouse[w].status = "ACTIVE"
  /\ change(<<v, w>>, 1)
  /\ restocked' = [restocked EXCEPT ![o][v] = @ + 1]

\* An import records its file, which waits for another one of the same file and is refused if it committed;
\* then it locks its warehouses, all active, and its items, and reads them.
importLocks(s, f) ==
  /\ importing[s] = None /\ f \notin imported
  /\ \A t \in Staff : importing[t] # None => importing[t].file # f
  /\ \A i \in FileItems(f) : warehouse[i[2]].status = "ACTIVE" /\ ~Locked(i)
  /\ importing' = [importing EXCEPT ![s] = [file |-> f, read |-> onHand]]
  /\ UNCHANGED <<onHand, reserved, ledger, booking, plans, restocked, warehouse, editing, imported, edits>>

\* It writes the onHand it computed from what it read, and a movement per receipt.
writeReceipts(s) ==
  /\ importing[s] # None
  /\ LET f == importing[s].file
         total(i) == importing[s].read[i] + Files[f][i]
     IN /\ \A i \in FileItems(f) : total(i) <= MaxOnHand
        /\ onHand' = [i \in Items |-> IF i \in FileItems(f) THEN total(i) ELSE onHand[i]]
        /\ ledger' = [i \in Items |-> ledger[i] + Files[f][i]]
        /\ imported' = imported \cup {f}
  /\ importing' = [importing EXCEPT ![s] = None]
  /\ UNCHANGED <<reserved, booking, plans, restocked, warehouse, editing, edits>>

\* A dry run, an item over its limit or a failure rolls everything back.
importRollsBack(s) ==
  /\ importing[s] # None
  /\ importing' = [importing EXCEPT ![s] = None]
  /\ UNCHANGED <<onHand, reserved, ledger, booking, plans, restocked, warehouse, editing, imported, edits>>

-----------------------------------------------------------------------------
(* Warehouses.                                                             *)

CreateWarehouse(w, p) ==
  /\ warehouse[w].status = "NONE"
  /\ warehouse' = [warehouse EXCEPT ![w] = [status |-> "ACTIVE", priority |-> p]]
  /\ UNCHANGED <<onHand, reserved, ledger, booking, plans, restocked, editing, importing, imported, edits>>


\* With every active warehouse locked: not the last one, and no units held for orders.
DeactivateWarehouse(w) ==
  /\ warehouse[w].status = "ACTIVE"
  /\ \A x \in Active : ~WarehouseShared(x)
  /\ Cardinality(Active) > 1
  /\ \A v \in Variants : reserved[<<v, w>>] = 0
  /\ warehouse' = [warehouse EXCEPT ![w].status = "INACTIVE"]
  /\ UNCHANGED <<onHand, reserved, ledger, booking, plans, restocked, editing, importing, imported, edits>>

\* UpdateWarehouse finds the warehouse without a lock ...
UpdateWarehouse(s, w) ==
  /\ edits < MaxEdits /\ edits' = edits + 1
  /\ editing[s] = None /\ warehouse[w].status # "NONE"
  /\ editing' = [editing EXCEPT ![s] = [w |-> w, status |-> warehouse[w].status, priority |-> warehouse[w].priority]]
  /\ UNCHANGED <<onHand, reserved, ledger, booking, plans, restocked, warehouse, importing, imported>>

\* ... and saves every field of it, the status too, with what the staff changed.
save(s, p) ==
  /\ editing[s] # None
  /\ ~WarehouseShared(editing[s].w)
  /\ warehouse' = [warehouse EXCEPT ![editing[s].w] = [status |-> editing[s].status, priority |-> p]]
  /\ editing' = [editing EXCEPT ![s] = None]
  /\ UNCHANGED <<onHand, reserved, ledger, booking, plans, restocked, importing, imported, edits>>

-----------------------------------------------------------------------------
Next ==
  \/ \E o \in Orders : \/ reserve(o, ONE_WAREHOUSE_PER_ORDER(o))
                       \/ \E w \in Warehouses : reserve(o, fixedWarehouse(w, o))
                       \/ reserveAll(o) \/ commit(o) \/ free(o, "RELEASED") \/ free(o, "EXPIRED")
                       \/ \E v \in Variants, w \in Warehouses : restock(o, v, w)
  \/ \E i \in Items : receive(i) \/ \E q \in {-1, 1} : adjust(i, q)
  \/ \E s \in Staff : \/ \E f \in DOMAIN Files : importLocks(s, f)
                      \/ writeReceipts(s) \/ importRollsBack(s)
                      \/ \E w \in Warehouses : UpdateWarehouse(s, w)
                      \/ \E p \in Priorities : save(s, p)
  \/ \E w \in Warehouses : DeactivateWarehouse(w) \/ \E p \in Priorities : CreateWarehouse(w, p)

Spec == Init /\ [][Next]_vars

-----------------------------------------------------------------------------
(* Properties.                                                             *)

\* Every unit counted as reserved is held by an active reservation, and by one only: none leaks when
\* reservations, payments, expirations, restocks and imports interleave.
Units(f) == UNION {{o} \X (1..f[o]) : o \in DOMAIN f}
HeldUnits(i) == Units([o \in Orders |-> Holds(o, i)])
ReservedIsHeld == \A i \in Items : reserved[i] = Cardinality(HeldUnits(i))

\* BR-INV-01: no warehouse promises more units than it has.
NoOversell == \A i \in Items : reserved[i] <= onHand[i]

\* BR-INV-13: the movements of an item add up to its units, also when an import writes what it computed.
LedgerAddsUp == \A i \in Items : ledger[i] = onHand[i]

\* The restocks of a line, added up, never pass what it sold.
RestockedWithinSold == \A o \in Orders : \A v \in Variants : restocked[o][v] <= Sold(o, v)

\* ADR-0160: a deactivated warehouse holds no units for orders, and some warehouse always sells.
InactiveHoldsNothing(w) == warehouse[w].status = "INACTIVE" => \A v \in Variants : reserved[<<v, w>>] = 0
SomeWarehouseActive == Active # {}

\* An edit that read w inactive is saved, after another one, that had read it active before, activated it again.
ClosesAgain(w) ==
  \E s \in Staff :
    /\ editing[s] # None /\ editing'[s] = None
    /\ editing[s].w = w /\ editing[s].status = "INACTIVE" /\ warehouse[w].status = "ACTIVE"

\* canFulfillTogether finds nothing short exactly when reserve has a plan, and without the lines it answers
\* as short the order fits in one warehouse, if one is active.
AnswersAgree ==
  \A o \in Orders : Lines(o) # {} =>
    /\ shortInClosest(o) = {} <=> ONE_WAREHOUSE_PER_ORDER(o) # {}
    /\ SomeWarehouseActive => \E w \in Active : shortIn(w, o) \subseteq shortInClosest(o)
    /\ \A w \in Active : Cardinality(shortInClosest(o)) <= Cardinality(shortIn(w, o))

\* The inventory implements what it promises: whatever the plans, the locks, the imports and the edits of warehouses
\* do in between, an order takes its units from what is for sale in one warehouse at once, and gives exactly them back.
Promise == INSTANCE StockPromise WITH
  PromisedOrders <- Orders, PromisedVariants <- Variants, Places <- Warehouses, Wanted <- Want,
  promise <- booking, forSale <- [i \in Items |-> available(i)], broughtBack <- restocked
KeepsItsPromise == Promise!PromiseSpec

\* ADR-0076: a warehouse is deactivated for good.
DeactivatedForGood ==
  [][\A w \in Warehouses : warehouse[w].status = "INACTIVE" => warehouse'[w].status = "INACTIVE"]_vars

\* Whoever activates, deactivates and edits warehouses while orders reserve, only the save of an edit that closes a
\* warehouse again leaves units held in an inactive warehouse, or none active: neither a plan read before a deactivation
\* nor a deactivation racing a reservation or another deactivation does (reserveAll, DeactivateWarehouse, save).
KeepServing ==
  /\ \A w \in Warehouses : InactiveHoldsNothing(w) => InactiveHoldsNothing(w)' \/ ClosesAgain(w)
  /\ SomeWarehouseActive => SomeWarehouseActive' \/ \E w \in Warehouses : ClosesAgain(w)
WarehousesServe == [][KeepServing]_vars
=============================================================================
