------------------------------- MODULE Locks -------------------------------
(***************************************************************************)
(* The row locks that the transactions of the shop hold at the same time,  *)
(* in the order in which they ask for them: the checkouts, what ends or    *)
(* pays an order, the entries of stock, the warehouses and the carts.  A   *)
(* transaction is the list of its locks; it keeps them until it ends, but  *)
(* an attempt to reserve that is undone gives up the locks it took.        *)
(* PostgreSQL ends a circle of transactions that wait for each other by    *)
(* aborting one of them.                                                   *)
(***************************************************************************)
EXTENDS Naturals, Sequences, FiniteSets, SequencesExt

CONSTANTS
  LockTxs,        \* transactions at the same time, numbered from 1
  LockVariants,   \* the variants of every order, numbers in the order of their ids
  ItemId,         \* the id of the stock item of each variant and warehouse (1 and 2)
  MissingItems    \* the variants whose stock item in warehouse 2 nobody created yet

ASSUME LocksAssumption ==
  /\ LockTxs \in Nat \ {0} /\ LockVariants \subseteq Nat /\ LockVariants # {} /\ IsFiniteSet(LockVariants)
  /\ ItemId \in [LockVariants \X {1, 2} -> Nat] /\ MissingItems \subseteq LockVariants

VARIABLES
  script,   \* what each transaction does
  done,     \* how many of its steps it took
  held,     \* its locks: the step that took each, and how
  ended     \* transactions that committed or were aborted

locksVars == <<script, done, held, ended>>
LockTx == 1..LockTxs

-----------------------------------------------------------------------------
(* The transactions. *)

update(kind, id) == <<[do |-> "update", row |-> <<kind, id>>]>>
share(kind, id) == <<[do |-> "share", row |-> <<kind, id>>]>>
savepoint == <<[do |-> "savepoint", row |-> <<"none", 0>>]>>
undo == <<[do |-> "undo", row |-> <<"none", 0>>]>>

lockAll(kind, ids) == [k \in 1..Len(ids) |-> [do |-> "update", row |-> <<kind, ids[k]>>]]
existing(w) == IF w = 2 THEN LockVariants \ MissingItems ELSE LockVariants
byId(ids) == CHOOSE s \in [1..Cardinality(ids) -> ids] : \A i, j \in 1..Cardinality(ids) : i < j => s[i] < s[j]
itemsOf(variants, w) == {ItemId[<<v, w>>] : v \in variants}

reserveLocks(w) == share("warehouse", w) \o lockAll("item", byId(itemsOf(existing(w), w)))
\* Every plan is a step of its own, undone when some line is short.
reserveAllLocks(first, then) == savepoint \o reserveLocks(first) \o undo \o reserveLocks(then)
leaveLocks(o) == update("reservation", o) \o lockAll("item", byId(itemsOf(LockVariants, 1)))
\* The items that exist by id, and then the missing ones, created in the order of the lines.
restockLocks(w) == lockAll("item", byId(itemsOf(existing(w), w)))
                   \o lockAll("item", Reverse(byId(itemsOf(LockVariants \ existing(w), w))))
\* An import creates the items that are missing in the order of their variants, and locks them all.
createMissing(w) == LET missing == byId(LockVariants \ existing(w)) IN
                    lockAll("item", [k \in 1..Len(missing) |-> ItemId[<<missing[k], w>>]])
itemLocks(w) == createMissing(w) \o lockAll("item", byId(itemsOf(LockVariants, w)))
couponLock == update("coupon", 1)
customerCart == update("customer", 1) \o update("cart", 2)

placeGuestOrder(first, then) == update("cart", 1) \o couponLock \o reserveAllLocks(first, then)
placeCustomerOrder == customerCart \o reserveLocks(1)
placeStaffOrder(w) == share("warehouse", w) \o couponLock \o reserveLocks(w)
expireOrder(o) == update("order", o) \o leaveLocks(o) \o couponLock
cancelPending(o) == update("order", o) \o leaveLocks(o) \o update("payment", o) \o couponLock
cancelPaid(o, w) == update("order", o) \o update("shipment", o) \o update("payment", o) \o couponLock \o restockLocks(w)
payOrder(o) == update("order", o) \o leaveLocks(o)
payLate(o) == update("order", o) \o reserveLocks(1) \o leaveLocks(o) \o couponLock
restockOrder(o, w) == update("order", o) \o share("warehouse", w) \o restockLocks(w)
receiveStock(w) == share("warehouse", w) \o lockAll("item", <<ItemId[<<CHOOSE v \in LockVariants : TRUE, w>>]>>)
importReceipts == share("warehouse", 1) \o share("warehouse", 2) \o itemLocks(2)
deactivateWarehouse == update("warehouse", 1) \o update("warehouse", 2)
mergeCart == update("cart", 1) \o customerCart
restoreCart == update("customer", 1) \o update("cart", 3)
reorderLines(o) == update("order", o) \o customerCart
deleteCarts == customerCart \o update("cart", 3)
anonymizeOrders == update("order", 1) \o update("order", 2)

Scripts == <<
  placeGuestOrder(1, 2), placeGuestOrder(2, 1), placeCustomerOrder, placeStaffOrder(1), placeStaffOrder(2),
  expireOrder(1), expireOrder(2), cancelPending(1), cancelPaid(1, 2), payOrder(1), payLate(2),
  restockOrder(2, 1), restockOrder(2, 2), receiveStock(1), receiveStock(2), importReceipts, deactivateWarehouse,
  mergeCart, restoreCart, reorderLines(1), deleteCarts, anonymizeOrders>>

-----------------------------------------------------------------------------
(* The locks. *)

nextStep(t) == script[t][done[t] + 1]
Running(t) == t \notin ended /\ done[t] < Len(script[t])
\* Two locks of one row by two transactions; only shared ones go together.
InTheWay(s, t) ==
  /\ s # t /\ s \notin ended
  /\ \E l \in held[s] : l.row = nextStep(t).row /\ ~(l.do = "share" /\ nextStep(t).do = "share")
Blockers(t) == IF Running(t) /\ nextStep(t).do \in {"update", "share"} THEN {s \in LockTx : InTheWay(s, t)} ELSE {}

LocksInit ==
  /\ \E pick \in [LockTx -> 1..Len(Scripts)] :
       /\ \A t \in LockTx : t + 1 \in LockTx => pick[t] <= pick[t + 1]
       /\ script = [t \in LockTx |-> Scripts[pick[t]]]
  /\ done = [t \in LockTx |-> 0] /\ held = [t \in LockTx |-> {}] /\ ended = {}

takeLock(t) ==
  /\ Running(t) /\ nextStep(t).do \in {"update", "share"} /\ Blockers(t) = {}
  /\ held' = [held EXCEPT ![t] = @ \cup {[row |-> nextStep(t).row, do |-> nextStep(t).do, step |-> done[t] + 1]}]
  /\ done' = [done EXCEPT ![t] = @ + 1] /\ UNCHANGED <<script, ended>>

\* runNested: a savepoint, and the locks that going back to it gives up.
runNested(t) ==
  /\ Running(t) /\ nextStep(t).do \in {"savepoint", "undo"}
  /\ held' = IF nextStep(t).do = "savepoint" THEN held
             ELSE LET since == CHOOSE k \in 1..done[t] : script[t][k].do = "savepoint" IN
                  [held EXCEPT ![t] = {l \in @ : l.step < since}]
  /\ done' = [done EXCEPT ![t] = @ + 1] /\ UNCHANGED <<script, ended>>

finishTx(t) ==
  /\ t \notin ended /\ done[t] = Len(script[t])
  /\ ended' = ended \cup {t} /\ held' = [held EXCEPT ![t] = {}] /\ UNCHANGED <<script, done>>

Circle(S) == S # {} /\ \A t \in S : Blockers(t) \cap S # {}

\* PostgreSQL aborts a transaction of a circle.
abortCircle(t) ==
  /\ \E S \in SUBSET LockTx : t \in S /\ Circle(S)
  /\ ended' = ended \cup {t} /\ held' = [held EXCEPT ![t] = {}] /\ UNCHANGED <<script, done>>

LocksNext == \E t \in LockTx : takeLock(t) \/ runNested(t) \/ finishTx(t) \/ abortCircle(t)
LocksSpec == LocksInit /\ [][LocksNext]_locksVars

-----------------------------------------------------------------------------
(* Properties. *)

HoldsCoupon(t) == \E l \in held[t] : l.row[1] = "coupon"
WaitsFor(t, kinds) == nextStep(t).row[1] \in kinds
\* A transaction with the coupon that asks for stock, and another that does the opposite.
CouponInverted(S) ==
  /\ \E t \in S : HoldsCoupon(t) /\ WaitsFor(t, {"item", "warehouse"})
  /\ \E t \in S : WaitsFor(t, {"coupon"})
\* A restock that creates a stock item after locking others.
CreatesLast(S) == \E t \in S : Running(t) /\ WaitsFor(t, {"item"}) /\ nextStep(t).row[2] \in {ItemId[<<v, 2>>] : v \in MissingItems}

\* Transactions wait for each other in a circle only when one counted a coupon before its stock and another after it,
\* or over a stock item that somebody is creating: reservations take stock items by id, and carts after customers.
CirclesAreKnown == \A S \in SUBSET LockTx : Circle(S) => CouponInverted(S) \/ CreatesLast(S)

\* No transactions wait for each other in a circle.
NoCircularWait == \A S \in SUBSET LockTx : ~Circle(S)
=============================================================================
