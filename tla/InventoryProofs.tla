-------------------------- MODULE InventoryProofs --------------------------
(* The stock of every warehouse is consistent, for any orders, variants,     *)
(* warehouses, files and staff.                                              *)
EXTENDS Inventory, Folding

-----------------------------------------------------------------------------
(* Counting units.                                                         *)

\* A block of n units of one order has n elements.
LEMMA BlockSize ==
  ASSUME NEW o, NEW n \in Nat
  PROVE  IsFiniteSet({o} \X (1..n)) /\ Cardinality({o} \X (1..n)) = n
<1>1. IsFiniteSet({o}) /\ Cardinality({o}) = 1
  BY FS_Singleton
<1>2. IsFiniteSet(1..n) /\ Cardinality(1..n) = n
  BY FS_Interval
<1>3. \A S, T : IsFiniteSet(S) /\ IsFiniteSet(T) =>
        IsFiniteSet(S \X T) /\ Cardinality(S \X T) = Cardinality(S) * Cardinality(T)
  BY FS_Product, Zenon
<1>4. IsFiniteSet({o} \X (1..n)) /\ Cardinality({o} \X (1..n)) = Cardinality({o}) * Cardinality(1..n)
  BY <1>1, <1>2, <1>3, Zenon
<1> QED
  BY <1>1, <1>2, <1>4

\* The units of a function are those of one order and those of the others.
LEMMA UnitsSplit ==
  ASSUME NEW S, NEW f \in [S -> Nat], NEW o \in S
  PROVE  LET others == UNION {{x} \X (1..f[x]) : x \in S \ {o}}
         IN Units(f) = others \cup ({o} \X (1..f[o])) /\ others \cap ({o} \X (1..f[o])) = {}
  BY DEF Units

\* Changing what one order holds changes the count by the difference.
LEMMA UnitsChange ==
  ASSUME NEW S, NEW f \in [S -> Nat], NEW g \in [S -> Nat], NEW o \in S,
         \A x \in S \ {o} : g[x] = f[x], IsFiniteSet(Units(f))
  PROVE  IsFiniteSet(Units(g)) /\ Cardinality(Units(g)) = Cardinality(Units(f)) - f[o] + g[o]
<1> DEFINE others == UNION {{x} \X (1..f[x]) : x \in S \ {o}}
           Bf == {o} \X (1..f[o])
           Bg == {o} \X (1..g[o])
<1>1. Units(f) = others \cup Bf /\ others \cap Bf = {}
  BY UnitsSplit
<1>2. Units(g) = others \cup Bg /\ others \cap Bg = {}
  <2>1. others = UNION {{x} \X (1..g[x]) : x \in S \ {o}}
    OBVIOUS
  <2> QED
    BY <2>1, UnitsSplit
<1>3. IsFiniteSet(Bf) /\ Cardinality(Bf) = f[o] /\ IsFiniteSet(Bg) /\ Cardinality(Bg) = g[o]
  BY BlockSize
<1> HIDE DEF others, Bf, Bg
<1>4. IsFiniteSet(others)
  <2>1. others \in SUBSET Units(f)
    BY <1>1
  <2> QED
    BY <2>1, FS_Subset
<1>0. f[o] \in Nat /\ g[o] \in Nat
  OBVIOUS
<1>5. Cardinality({}) = 0
  BY FS_EmptySet
<1>6. Cardinality(Units(f)) = Cardinality(others) + f[o]
  <2>1. Cardinality(others \cup Bf) = Cardinality(others) + Cardinality(Bf) - Cardinality(others \cap Bf)
    BY <1>3, <1>4, FS_Union
  <2>2. Cardinality(others \cap Bf) = 0
    BY <1>1, <1>5
  <2>3. Cardinality(others) \in Nat
    BY <1>4, FS_CardinalityType
  <2> QED
    BY <1>0, <1>1, <1>3, <2>1, <2>2, <2>3
<1>7. Cardinality(Units(g)) = Cardinality(others) + g[o] /\ IsFiniteSet(Units(g))
  <2>1. /\ Cardinality(others \cup Bg) = Cardinality(others) + Cardinality(Bg) - Cardinality(others \cap Bg)
        /\ IsFiniteSet(others \cup Bg)
    BY <1>3, <1>4, FS_Union
  <2>2. Cardinality(others \cap Bg) = 0
    BY <1>2, <1>5
  <2>3. Cardinality(others) \in Nat
    BY <1>4, FS_CardinalityType
  <2> QED
    BY <1>0, <1>2, <1>3, <2>1, <2>2, <2>3
<1> QED
  BY <1>4, <1>6, <1>7, FS_CardinalityType

\* An order among those that hold units holds no more than all of them.
LEMMA UnitsBound ==
  ASSUME NEW S, NEW f \in [S -> Nat], NEW o \in S, IsFiniteSet(Units(f))
  PROVE  f[o] <= Cardinality(Units(f))
<1>1. {o} \X (1..f[o]) \in SUBSET Units(f)
  BY DEF Units
<1>2. Cardinality({o} \X (1..f[o])) <= Cardinality(Units(f))
  BY <1>1, FS_Subset
<1> QED
  BY <1>2, BlockSize

-----------------------------------------------------------------------------
(* The inductive invariant.                                                *)

\* What an import has read of its items is still true when it writes.
ImportReads ==
  \A s \in Staff : importing[s] # None =>
    \A i \in FileItems(importing[s].file) : importing[s].read[i] = onHand[i]

\* Two imports in progress have no item in common.
ImportsApart ==
  \A s, t \in Staff : s # t /\ importing[s] # None /\ importing[t] # None =>
    FileItems(importing[s].file) \cap FileItems(importing[t].file) = {}

\* While a reservation is tried the order has neither an active nor a committed one.
PlansOpen == \A o \in Orders : plans[o] # {} => booking[o].status \notin {"ACTIVE", "COMMITTED"}

HeldFinite == \A i \in Items : IsFiniteSet(HeldUnits(i))

StockInv ==
  /\ TypeOK /\ HeldFinite /\ ReservedIsHeld /\ NoOversell /\ LedgerAddsUp /\ RestockedWithinSold
  /\ ImportReads /\ ImportsApart /\ PlansOpen

-----------------------------------------------------------------------------
(* Types.                                                                  *)

\* What an order holds is a number of units.
LEMMA HoldsType ==
  ASSUME TypeOK, NEW i \in Items, NEW o \in Orders
  PROVE  Holds(o, i) \in Nat
<1>1. Want[o][i[1]] \in Nat
  BY InventoryAssumption DEF Items
<1> QED
  BY <1>1 DEF Holds

\* The plans are warehouses with their priorities.
LEMMA PlansType ==
  ASSUME TypeOK, NEW o \in Orders
  PROVE  /\ ONE_WAREHOUSE_PER_ORDER(o) \subseteq [w : Warehouses, priority : Priorities]
         /\ \A w \in Warehouses : fixedWarehouse(w, o) \subseteq [w : Warehouses, priority : Priorities]
<1>1. \A w \in Warehouses : warehouse[w].priority \in Priorities
  BY DEF TypeOK
<1>2. \A w \in Warehouses : WithPriority(w) \in [w : Warehouses, priority : Priorities]
  BY <1>1 DEF WithPriority
<1>3. ONE_WAREHOUSE_PER_ORDER(o) \subseteq [w : Warehouses, priority : Priorities]
  BY <1>2 DEF ONE_WAREHOUSE_PER_ORDER, Active
<1> QED
  BY <1>3 DEF fixedWarehouse

\* The rows that a plan writes keep their types.
LEMMA ReserveInTypes ==
  ASSUME TypeOK, NEW o \in Orders, NEW w \in Warehouses, reserveIn(o, w)
  PROVE  /\ reserved' \in [Items -> Nat]
         /\ booking' \in [Orders -> [status : {"NONE", "ACTIVE", "COMMITTED", "RELEASED", "EXPIRED"}, w : Warehouses]]
         /\ plans' \in [Orders -> SUBSET [w : Warehouses, priority : Priorities]]
<1>1. \A i \in Items : reserved[i] \in Nat /\ Want[o][i[1]] \in Nat
  BY InventoryAssumption DEF Items, TypeOK
<1>2. reserved' \in [Items -> Nat]
  BY <1>1 DEF reserveIn
<1>3. [status |-> "ACTIVE", w |-> w] \in [status : {"NONE", "ACTIVE", "COMMITTED", "RELEASED", "EXPIRED"}, w : Warehouses]
  OBVIOUS
<1>4. booking' \in [Orders -> [status : {"NONE", "ACTIVE", "COMMITTED", "RELEASED", "EXPIRED"}, w : Warehouses]]
  BY <1>3 DEF reserveIn, TypeOK
<1>5. plans' \in [Orders -> SUBSET [w : Warehouses, priority : Priorities]]
  BY DEF reserveIn, TypeOK
<1> QED
  BY <1>2, <1>4, <1>5

\* What leave does to the reservation of the order, field by field.
LEMMA LeaveBooking ==
  ASSUME TypeOK, NEW o \in Orders, NEW status \in {"COMMITTED", "RELEASED", "EXPIRED"}, leave(o, status)
  PROVE  /\ booking' \in [Orders -> [status : {"NONE", "ACTIVE", "COMMITTED", "RELEASED", "EXPIRED"}, w : Warehouses]]
         /\ booking'[o].status = status
         /\ \A x \in Orders \ {o} : booking'[x] = booking[x]
<1>1. booking[o] \in [status : {"NONE", "ACTIVE", "COMMITTED", "RELEASED", "EXPIRED"}, w : Warehouses]
  BY DEF TypeOK
<1>2. [booking[o] EXCEPT !.status = status] \in [status : {"NONE", "ACTIVE", "COMMITTED", "RELEASED", "EXPIRED"}, w : Warehouses]
  BY <1>1
<1>3. [booking[o] EXCEPT !.status = status].status = status
  BY <1>1
<1>4. booking' = [booking EXCEPT ![o] = [booking[o] EXCEPT !.status = status]]
  BY DEF leave
<1> QED
  BY <1>2, <1>3, <1>4 DEF TypeOK

-----------------------------------------------------------------------------
(* What the operations do to the units held.                               *)

\* When only the reservation of order o changes, the units held change by what it held and holds.
LEMMA HeldChange ==
  ASSUME TypeOK, TypeOK', NEW o \in Orders, NEW i \in Items,
         \A x \in Orders \ {o} : booking'[x] = booking[x], IsFiniteSet(HeldUnits(i))
  PROVE  /\ IsFiniteSet(HeldUnits(i)')
         /\ Cardinality(HeldUnits(i)') = Cardinality(HeldUnits(i)) - Holds(o, i) + Holds(o, i)'
<1>1. PICK f \in [Orders -> Nat] : f = [x \in Orders |-> Holds(x, i)]
  BY HoldsType
<1>2. PICK g \in [Orders -> Nat] : g = [x \in Orders |-> Holds(x, i)']
  <2>1. \A x \in Orders : Holds(x, i)' \in Nat
    <3>1. Want \in [Orders -> [Variants -> Nat]] /\ i[1] \in Variants
      BY InventoryAssumption DEF Items
    <3> QED
      BY <3>1 DEF Holds
  <2> QED
    BY <2>1
<1>3. HeldUnits(i) = Units(f) /\ HeldUnits(i)' = Units(g)
  BY <1>1, <1>2 DEF HeldUnits, Units
<1>4. \A x \in Orders \ {o} : g[x] = f[x]
  BY <1>1, <1>2 DEF Holds
<1>5. IsFiniteSet(Units(g)) /\ Cardinality(Units(g)) = Cardinality(Units(f)) - f[o] + g[o]
  BY <1>3, <1>4, UnitsChange
<1> QED
  BY <1>1, <1>2, <1>3, <1>5

\* The units of an order are among those reserved.
LEMMA HeldBound ==
  ASSUME TypeOK, HeldFinite, ReservedIsHeld, NEW o \in Orders, NEW i \in Items
  PROVE  Holds(o, i) \in Nat /\ Holds(o, i) <= reserved[i]
<1>1. PICK f \in [Orders -> Nat] : f = [x \in Orders |-> Holds(x, i)]
  BY HoldsType
<1>2. HeldUnits(i) = Units(f)
  BY <1>1 DEF HeldUnits
<1>3. f[o] <= Cardinality(Units(f))
  BY <1>2, UnitsBound DEF HeldFinite
<1> QED
  BY <1>1, <1>2, <1>3, HoldsType DEF ReservedIsHeld

\* What is not touched stays true.
LEMMA HeldSame ==
  ASSUME HeldFinite, ReservedIsHeld, UNCHANGED <<reserved, booking>>
  PROVE  HeldFinite' /\ ReservedIsHeld'
<1>1. \A i \in Items : HeldUnits(i)' = HeldUnits(i)
  BY DEF HeldUnits, Units, Holds
<1> QED
  BY <1>1 DEF HeldFinite, ReservedIsHeld

\* A step that touches neither stock, reservations, restocks nor imports keeps the invariant.
LEMMA StockSame ==
  ASSUME StockInv, TypeOK', UNCHANGED <<onHand, reserved, ledger, booking, restocked, importing>>, PlansOpen'
  PROVE  StockInv'
<1>1. HeldFinite' /\ ReservedIsHeld'
  BY HeldSame DEF StockInv
<1>2. NoOversell' /\ LedgerAddsUp'
  BY DEF StockInv, NoOversell, LedgerAddsUp
<1>3. RestockedWithinSold'
  BY DEF StockInv, RestockedWithinSold, Sold
<1>4. ImportReads' /\ ImportsApart'
  BY DEF StockInv, ImportReads, ImportsApart, FileItems
<1> QED
  BY <1>1, <1>2, <1>3, <1>4 DEF StockInv

-----------------------------------------------------------------------------
(* Every step keeps the invariant.                                         *)

\* The empty inventory satisfies the invariant.
LEMMA InitKeeps ==
  ASSUME Init
  PROVE  StockInv
<1>1. TypeOK
  <2>1. [status |-> "NONE", w |-> First] \in [status : {"NONE", "ACTIVE", "COMMITTED", "RELEASED", "EXPIRED"}, w : Warehouses]
    BY InventoryAssumption
  <2>2. booking \in [Orders -> [status : {"NONE", "ACTIVE", "COMMITTED", "RELEASED", "EXPIRED"}, w : Warehouses]]
    BY <2>1 DEF Init
  <2>3. warehouse \in [Warehouses -> [status : {"NONE", "ACTIVE", "INACTIVE"}, priority : Priorities]]
    <3>1. [status : {"NONE", "ACTIVE"}, priority : Priorities] \subseteq [status : {"NONE", "ACTIVE", "INACTIVE"}, priority : Priorities]
      OBVIOUS
    <3> QED
      BY <3>1 DEF Init
  <2>4. edits \in 0..MaxEdits
    BY InventoryAssumption DEF Init
  <2>5. restocked \in [Orders -> [Variants -> Nat]]
    BY DEF Init
  <2>6. plans \in [Orders -> SUBSET [w : Warehouses, priority : Priorities]]
    BY DEF Init
  <2>7. onHand \in [Items -> Nat] /\ reserved \in [Items -> Nat] /\ ledger \in [Items -> Int]
    BY DEF Init
  <2>8. editing \in [Staff -> Copies \cup {None}]
    BY DEF Init
  <2>9. importing \in [Staff -> [file : DOMAIN Files, read : [Items -> Nat]] \cup {None}] /\ imported \subseteq DOMAIN Files
    BY DEF Init
  <2> QED
    BY <2>2, <2>3, <2>4, <2>5, <2>6, <2>7, <2>8, <2>9 DEF TypeOK
<1>2. \A i \in Items : HeldUnits(i) = {}
  BY DEF Init, HeldUnits, Units, Holds
<1>3. HeldFinite /\ ReservedIsHeld
  BY <1>2, FS_EmptySet DEF Init, HeldFinite, ReservedIsHeld
<1>4. NoOversell /\ LedgerAddsUp
  BY DEF Init, NoOversell, LedgerAddsUp
<1>5. RestockedWithinSold
  BY DEF Init, RestockedWithinSold, Sold
<1>6. ImportReads /\ ImportsApart /\ PlansOpen
  BY DEF Init, ImportReads, ImportsApart, PlansOpen
<1> QED
  BY <1>1, <1>3, <1>4, <1>5, <1>6 DEF StockInv

\* Reading the plans of a reservation keeps it.
LEMMA ReserveKeeps ==
  ASSUME StockInv, NEW o \in Orders, NEW P \in SUBSET [w : Warehouses, priority : Priorities], reserve(o, P)
  PROVE  StockInv'
<1>1. TypeOK'
  BY DEF StockInv, reserve, TypeOK, Copies
<1>2. PlansOpen'
  BY DEF StockInv, reserve, PlansOpen, TypeOK
<1> QED
  BY <1>1, <1>2, StockSame DEF reserve

\* Trying a plan keeps it: its conditional updates find the units there, or change nothing.
LEMMA ReserveAllKeeps ==
  ASSUME StockInv, NEW o \in Orders, reserveAll(o)
  PROVE  StockInv'
<1>1. PICK c \in plans[o] :
        \/ Fits(o, c.w) /\ reserveIn(o, c.w)
        \/ plans' = [plans EXCEPT ![o] = @ \ {c}] /\ UNCHANGED <<reserved, booking>>
  BY DEF reserveAll
<1>2. c \in [w : Warehouses, priority : Priorities]
  BY DEF StockInv, TypeOK
<1>3. PICK w \in Warehouses : w = c.w
  BY <1>2
<1>4. CASE Fits(o, w) /\ reserveIn(o, w)
  <2>0. booking[o].status \notin {"ACTIVE", "COMMITTED"}
    BY DEF StockInv, PlansOpen
  <2>1. TypeOK'
    <3>1. /\ reserved' \in [Items -> Nat]
          /\ booking' \in [Orders -> [status : {"NONE", "ACTIVE", "COMMITTED", "RELEASED", "EXPIRED"}, w : Warehouses]]
          /\ plans' \in [Orders -> SUBSET [w : Warehouses, priority : Priorities]]
      BY <1>4, ReserveInTypes DEF StockInv
    <3> QED
      BY <3>1 DEF StockInv, reserveAll, TypeOK, Copies
  <2>2. /\ booking'[o] = [status |-> "ACTIVE", w |-> w]
        /\ \A x \in Orders \ {o} : booking'[x] = booking[x]
    BY <1>4 DEF StockInv, TypeOK, reserveIn
  <2>3. ASSUME NEW i \in Items
        PROVE  /\ IsFiniteSet(HeldUnits(i)') /\ reserved'[i] = Cardinality(HeldUnits(i)')
               /\ reserved'[i] <= onHand'[i]
    <3>1. Want[o] \in [Variants -> Nat] /\ i[1] \in Variants /\ i[2] \in Warehouses /\ i = <<i[1], i[2]>>
      BY InventoryAssumption DEF Items
    <3>2. reserved[i] \in Nat /\ onHand[i] \in Nat /\ reserved[i] = Cardinality(HeldUnits(i)) /\ reserved[i] <= onHand[i]
      BY DEF StockInv, TypeOK, ReservedIsHeld, NoOversell
    <3>3. Holds(o, i) = 0 /\ Holds(o, i)' = IF i[2] = w THEN Want[o][i[1]] ELSE 0
      BY <2>0, <2>2 DEF Holds
    <3>4. IsFiniteSet(HeldUnits(i)') /\ Cardinality(HeldUnits(i)') = Cardinality(HeldUnits(i)) - Holds(o, i) + Holds(o, i)'
      BY <2>1, <2>2, HeldChange DEF StockInv, HeldFinite
    <3>5. reserved'[i] = reserved[i] + (IF i[2] = w THEN Want[o][i[1]] ELSE 0)
      BY <1>4 DEF reserveIn
    <3>6. onHand'[i] = onHand[i]
      BY DEF reserveAll
    <3>7. i[2] = w => Want[o][i[1]] <= onHand[i] - reserved[i]
      <4>1. CASE Want[o][i[1]] > 0
        <5>1. i[2] = w => ~ (onHand[i] - reserved[i] < Want[o][i[1]])
          BY <1>4, <3>1, <4>1 DEF Fits, shortIn, Lines, available
        <5> QED
          BY <3>1, <3>2, <5>1
      <4>2. CASE ~ (Want[o][i[1]] > 0)
        BY <3>1, <3>2, <4>2
      <4> QED
        BY <4>1, <4>2
    <3> QED
      BY <3>1, <3>2, <3>3, <3>4, <3>5, <3>6, <3>7
  <2>4. HeldFinite' /\ ReservedIsHeld' /\ NoOversell'
    BY <2>3 DEF HeldFinite, ReservedIsHeld, NoOversell
  <2>5. LedgerAddsUp' /\ ImportReads' /\ ImportsApart'
    BY DEF StockInv, reserveAll, LedgerAddsUp, ImportReads, ImportsApart, FileItems
  <2>6. RestockedWithinSold'
    BY <2>0, <2>2 DEF StockInv, reserveAll, RestockedWithinSold, Sold
  <2>7. PlansOpen'
    BY <1>4, <2>2 DEF StockInv, reserveIn, PlansOpen, TypeOK
  <2> QED
    BY <2>1, <2>4, <2>5, <2>6, <2>7 DEF StockInv
<1>5. CASE plans' = [plans EXCEPT ![o] = @ \ {c}] /\ UNCHANGED <<reserved, booking>>
  <2>1. TypeOK'
    BY <1>5 DEF StockInv, reserveAll, TypeOK, Copies
  <2>2. PlansOpen'
    BY <1>5 DEF StockInv, PlansOpen, TypeOK
  <2> QED
    BY <1>5, <2>1, <2>2, StockSame DEF reserveAll
<1> QED
  BY <1>1, <1>3, <1>4, <1>5

\* The end of a reservation keeps it, whether its units leave (D) or come free.
LEMMA LeaveKeeps ==
  ASSUME StockInv, NEW o \in Orders, NEW status \in {"COMMITTED", "RELEASED", "EXPIRED"}, leave(o, status),
         NEW D \in [Items -> Int],
         \A i \in Items : D[i] = IF status = "COMMITTED" THEN Holds(o, i) ELSE 0,
         onHand' = [i \in Items |-> onHand[i] - D[i]], ledger' = [i \in Items |-> ledger[i] - D[i]],
         UNCHANGED <<plans, restocked, warehouse, editing, importing, imported, edits>>
  PROVE  StockInv'
<1>0. \A i \in Items : /\ Holds(o, i) \in Nat /\ Holds(o, i) <= reserved[i] /\ reserved[i] <= onHand[i]
                       /\ reserved[i] \in Nat /\ onHand[i] \in Nat /\ ledger[i] \in Int /\ ledger[i] = onHand[i]
  BY HeldBound DEF StockInv, TypeOK, NoOversell, LedgerAddsUp
<1>1. /\ booking' \in [Orders -> [status : {"NONE", "ACTIVE", "COMMITTED", "RELEASED", "EXPIRED"}, w : Warehouses]]
      /\ booking'[o].status = status
      /\ \A x \in Orders \ {o} : booking'[x] = booking[x]
  BY LeaveBooking DEF StockInv
<1>2. \A i \in Items : reserved'[i] = reserved[i] - Holds(o, i)
  BY DEF leave
<1>3. TypeOK'
  <2>1. reserved' \in [Items -> Nat]
    BY <1>0 DEF leave
  <2>2. onHand' \in [Items -> Nat] /\ ledger' \in [Items -> Int]
    BY <1>0
  <2> QED
    BY <1>1, <2>1, <2>2 DEF StockInv, TypeOK, Copies
<1>4. \A i \in Items : Holds(o, i)' = 0
  BY <1>1 DEF Holds
<1>5. ASSUME NEW i \in Items
      PROVE  IsFiniteSet(HeldUnits(i)') /\ reserved'[i] = Cardinality(HeldUnits(i)')
  <2>1. IsFiniteSet(HeldUnits(i)') /\ Cardinality(HeldUnits(i)') = Cardinality(HeldUnits(i)) - Holds(o, i) + Holds(o, i)'
    BY <1>1, <1>3, HeldChange DEF StockInv, HeldFinite
  <2>2. reserved[i] = Cardinality(HeldUnits(i))
    BY DEF StockInv, ReservedIsHeld
  <2> QED
    BY <1>0, <1>2, <1>4, <2>1, <2>2
<1>6. HeldFinite' /\ ReservedIsHeld'
  BY <1>5 DEF HeldFinite, ReservedIsHeld
<1>7. NoOversell' /\ LedgerAddsUp'
  BY <1>0, <1>2 DEF NoOversell, LedgerAddsUp
<1>8. RestockedWithinSold'
  <2>1. booking[o].status = "ACTIVE"
    BY DEF leave
  <2>2. \A v \in Variants : restocked[o][v] \in Nat /\ Want[o][v] \in Nat
    BY InventoryAssumption DEF StockInv, TypeOK
  <2>3. \A v \in Variants : restocked[o][v] <= 0
    BY <2>1 DEF StockInv, RestockedWithinSold, Sold
  <2>4. \A v \in Variants : restocked[o][v] <= Sold(o, v)'
    BY <2>2, <2>3 DEF Sold
  <2>5. \A x \in Orders \ {o} : \A v \in Variants : restocked[x][v] <= Sold(x, v)'
    BY <1>1 DEF StockInv, RestockedWithinSold, Sold
  <2> QED
    BY <2>4, <2>5 DEF RestockedWithinSold
<1>9. ImportReads'
  <2>1. ASSUME NEW s \in Staff, importing[s] # None, NEW i \in FileItems(importing[s].file)
        PROVE  onHand'[i] = onHand[i]
    <3>1. i \in Items /\ Locked(i)
      BY <2>1 DEF Locked, FileItems
    <3>2. ~ (Holds(o, i) > 0)
      BY <3>1 DEF leave
    <3> QED
      BY <1>0, <3>1, <3>2
  <2> QED
    BY <2>1 DEF StockInv, ImportReads, FileItems
<1>10. ImportsApart'
  BY DEF StockInv, ImportsApart, FileItems
<1>11. PlansOpen'
  <2>1. plans[o] = {}
    BY DEF StockInv, PlansOpen, leave
  <2> QED
    BY <1>1, <2>1 DEF StockInv, PlansOpen
<1> QED
  BY <1>3, <1>6, <1>7, <1>8, <1>9, <1>10, <1>11 DEF StockInv

\* A change of an item that nobody locked keeps the invariant, if the units reserved stay there.
LEMMA ChangeKeeps ==
  ASSUME StockInv, NEW i \in Items, NEW q \in Int, change(i, q), onHand[i] + q >= reserved[i],
         restocked' \in [Orders -> [Variants -> Nat]],
         \A o \in Orders : \A v \in Variants : restocked'[o][v] <= Sold(o, v)
  PROVE  StockInv'
<1>0. \A j \in Items : /\ onHand[j] \in Nat /\ reserved[j] \in Nat /\ ledger[j] \in Int
                       /\ ledger[j] = onHand[j] /\ reserved[j] <= onHand[j]
  BY DEF StockInv, TypeOK, LedgerAddsUp, NoOversell
<1>1. \A j \in Items : /\ onHand'[j] = IF j = i THEN onHand[i] + q ELSE onHand[j]
                       /\ ledger'[j] = IF j = i THEN ledger[i] + q ELSE ledger[j]
  BY DEF StockInv, TypeOK, change
<1>2. TypeOK'
  <2>1. onHand[i] + q \in Nat
    BY <1>0
  <2>2. onHand' \in [Items -> Nat]
    BY <2>1 DEF StockInv, TypeOK, change
  <2>3. ledger' \in [Items -> Int]
    BY <1>0 DEF StockInv, TypeOK, change
  <2> QED
    BY <2>2, <2>3 DEF StockInv, TypeOK, change, Copies
<1>3. HeldFinite' /\ ReservedIsHeld'
  BY HeldSame DEF StockInv, change
<1>4. NoOversell' /\ LedgerAddsUp'
  BY <1>0, <1>1 DEF change, NoOversell, LedgerAddsUp
<1>5. RestockedWithinSold'
  BY DEF change, RestockedWithinSold, Sold
<1>6. ImportReads'
  <2>1. ASSUME NEW s \in Staff, importing[s] # None, NEW j \in FileItems(importing[s].file)
        PROVE  onHand'[j] = onHand[j]
    <3>1. j \in Items /\ j # i
      BY <2>1 DEF change, Locked, FileItems
    <3> QED
      BY <1>1, <3>1
  <2> QED
    BY <2>1 DEF StockInv, change, ImportReads, FileItems
<1>7. ImportsApart' /\ PlansOpen'
  BY DEF StockInv, change, ImportsApart, FileItems, PlansOpen
<1> QED
  BY <1>2, <1>3, <1>4, <1>5, <1>6, <1>7 DEF StockInv

\* Restocking a unit keeps it.
LEMMA RestockKeeps ==
  ASSUME StockInv, NEW o \in Orders, NEW v \in Variants, NEW w \in Warehouses, restock(o, v, w)
  PROVE  StockInv'
<1>1. <<v, w>> \in Items /\ change(<<v, w>>, 1)
  BY DEF restock, Items
<1>2. onHand[<<v, w>>] + 1 >= reserved[<<v, w>>]
  BY <1>1 DEF StockInv, TypeOK, NoOversell
<1>3. restocked[o] \in [Variants -> Nat] /\ restocked \in [Orders -> [Variants -> Nat]]
  BY DEF StockInv, TypeOK
<1>4. restocked' = [restocked EXCEPT ![o] = [restocked[o] EXCEPT ![v] = restocked[o][v] + 1]]
  BY DEF restock
<1>5. [restocked[o] EXCEPT ![v] = restocked[o][v] + 1] \in [Variants -> Nat]
  BY <1>3
<1>6. restocked' \in [Orders -> [Variants -> Nat]]
  BY <1>3, <1>4, <1>5
<1>7. ASSUME NEW x \in Orders, NEW y \in Variants
      PROVE  restocked'[x][y] <= Sold(x, y)
  <2>1. restocked[x][y] <= Sold(x, y) /\ restocked[o][v] + 1 <= Sold(o, v)
    BY DEF StockInv, RestockedWithinSold, restock
  <2>2. restocked'[x][y] = IF x = o /\ y = v THEN restocked[o][v] + 1 ELSE restocked[x][y]
    BY <1>3, <1>4
  <2> QED
    BY <2>1, <2>2
<1> QED
  BY <1>1, <1>2, <1>6, <1>7, ChangeKeeps

\* Receipts and adjustments keep it.
LEMMA AdjustKeeps ==
  ASSUME StockInv, NEW i \in Items,
         receive(i) \/ \E q \in {-1, 1} : adjust(i, q)
  PROVE  StockInv'
<1>1. restocked' = restocked
  BY DEF receive, adjust
<1>2. /\ restocked' \in [Orders -> [Variants -> Nat]]
      /\ \A o \in Orders : \A v \in Variants : restocked'[o][v] <= Sold(o, v)
  BY <1>1 DEF StockInv, TypeOK, RestockedWithinSold
<1>3. onHand[i] \in Nat /\ reserved[i] \in Nat /\ reserved[i] <= onHand[i]
  BY DEF StockInv, TypeOK, NoOversell
<1>4. CASE receive(i)
  BY <1>2, <1>3, <1>4, ChangeKeeps DEF receive
<1>5. CASE \E q \in {-1, 1} : adjust(i, q)
  BY <1>2, <1>5, ChangeKeeps DEF adjust
<1> QED
  BY <1>4, <1>5

\* Locking the items of a file keeps it.
LEMMA ImportLocksKeeps ==
  ASSUME StockInv, NEW s \in Staff, NEW f \in DOMAIN Files, importLocks(s, f)
  PROVE  StockInv'
<1>1. PICK r \in [file : DOMAIN Files, read : [Items -> Nat]] : r.file = f /\ r.read = onHand /\ importing' = [importing EXCEPT ![s] = r]
  BY DEF StockInv, TypeOK, importLocks
<1>2. TypeOK'
  BY <1>1 DEF StockInv, TypeOK, importLocks, Copies
<1>3. importing'[s] = r /\ \A t \in Staff \ {s} : importing'[t] = importing[t]
  BY <1>1 DEF StockInv, TypeOK
<1>4. HeldFinite' /\ ReservedIsHeld'
  BY HeldSame DEF StockInv, importLocks
<1>5. NoOversell' /\ LedgerAddsUp' /\ RestockedWithinSold' /\ PlansOpen'
  BY DEF StockInv, importLocks, NoOversell, LedgerAddsUp, RestockedWithinSold, Sold, PlansOpen
<1>6. ImportReads'
  BY <1>1, <1>3 DEF StockInv, importLocks, ImportReads, FileItems
<1>7. ImportsApart'
  <2>1. \A t \in Staff : importing[t] # None => FileItems(importing[t].file) \cap FileItems(f) = {}
    BY DEF importLocks, Locked
  <2>2. \A g : FileItems(g)' = FileItems(g)
    BY DEF FileItems
  <2> QED
    BY <1>1, <1>3, <2>1, <2>2 DEF StockInv, ImportsApart
<1> QED
  BY <1>2, <1>4, <1>5, <1>6, <1>7 DEF StockInv

\* The end of an import keeps it when it touched only the items it had locked.
LEMMA ImportEndsKeeps ==
  ASSUME StockInv, NEW s \in Staff, importing[s] # None, importing' = [importing EXCEPT ![s] = None],
         TypeOK', NoOversell', LedgerAddsUp',
         \A i \in Items \ FileItems(importing[s].file) : onHand'[i] = onHand[i],
         UNCHANGED <<reserved, booking, plans, restocked>>
  PROVE  StockInv'
<1>1. importing'[s] = None /\ \A t \in Staff \ {s} : importing'[t] = importing[t]
  BY DEF StockInv, TypeOK
<1>2. HeldFinite' /\ ReservedIsHeld'
  BY HeldSame DEF StockInv
<1>3. RestockedWithinSold' /\ PlansOpen'
  BY DEF StockInv, RestockedWithinSold, Sold, PlansOpen
<1>4. ImportsApart'
  BY <1>1 DEF StockInv, ImportsApart, FileItems
<1>5. ImportReads'
  <2>1. ASSUME NEW t \in Staff, importing'[t] # None, NEW i \in FileItems(importing'[t].file)
        PROVE  importing'[t].read[i] = onHand'[i]
    <3>1. t # s /\ importing'[t] = importing[t] /\ importing[t] # None
      BY <1>1, <2>1
    <3>2. i \in Items /\ i \notin FileItems(importing[s].file)
      BY <2>1, <3>1 DEF StockInv, ImportsApart, FileItems
    <3> QED
      BY <2>1, <3>1, <3>2 DEF StockInv, ImportReads
  <2> QED
    BY <2>1 DEF ImportReads, FileItems
<1> QED
  BY <1>2, <1>3, <1>4, <1>5 DEF StockInv

\* Writing the receipts of a file keeps it: what was read is still there.
LEMMA WriteReceiptsKeeps ==
  ASSUME StockInv, NEW s \in Staff, writeReceipts(s)
  PROVE  StockInv'
<1>1. importing[s] # None /\ importing[s] \in [file : DOMAIN Files, read : [Items -> Nat]]
  BY DEF StockInv, TypeOK, writeReceipts
<1>2. PICK f \in DOMAIN Files : f = importing[s].file
  BY <1>1
<1>3. /\ onHand' = [i \in Items |-> IF i \in FileItems(f) THEN importing[s].read[i] + Files[f][i] ELSE onHand[i]]
      /\ ledger' = [i \in Items |-> ledger[i] + Files[f][i]]
      /\ imported' = imported \cup {f}
      /\ importing' = [importing EXCEPT ![s] = None]
      /\ UNCHANGED <<reserved, booking, plans, restocked, warehouse, editing, edits>>
  BY <1>2 DEF writeReceipts
<1>4. ASSUME NEW i \in Items
      PROVE  /\ onHand'[i] \in Nat /\ ledger'[i] \in Int /\ ledger'[i] = onHand'[i] /\ reserved'[i] <= onHand'[i]
             /\ (i \notin FileItems(f) => onHand'[i] = onHand[i])
  <2>1. /\ onHand[i] \in Nat /\ reserved[i] \in Nat /\ ledger[i] = onHand[i] /\ reserved[i] <= onHand[i]
    BY DEF StockInv, TypeOK, LedgerAddsUp, NoOversell
  <2>2. Files[f][i] \in Nat
    BY InventoryAssumption
  <2>3. i \in FileItems(f) => importing[s].read[i] = onHand[i]
    BY <1>1, <1>2 DEF StockInv, ImportReads
  <2>4. i \notin FileItems(f) => Files[f][i] = 0
    BY <2>2 DEF FileItems
  <2>5. onHand'[i] = onHand[i] + Files[f][i] /\ ledger'[i] = ledger[i] + Files[f][i] /\ reserved'[i] = reserved[i]
    BY <1>3, <2>1, <2>3, <2>4
  <2> QED
    BY <2>1, <2>2, <2>4, <2>5
<1>5. NoOversell' /\ LedgerAddsUp'
  BY <1>4 DEF NoOversell, LedgerAddsUp
<1>6. TypeOK'
  <2>1. onHand' \in [Items -> Nat] /\ ledger' \in [Items -> Int]
    BY <1>3, <1>4
  <2>2. importing' \in [Staff -> [file : DOMAIN Files, read : [Items -> Nat]] \cup {None}]
    BY <1>3 DEF StockInv, TypeOK
  <2> QED
    BY <1>3, <2>1, <2>2 DEF StockInv, TypeOK, Copies
<1> QED
  BY <1>1, <1>2, <1>3, <1>4, <1>5, <1>6, ImportEndsKeeps

\* Rolling an import back keeps it.
LEMMA ImportRollsBackKeeps ==
  ASSUME StockInv, NEW s \in Staff, importRollsBack(s)
  PROVE  StockInv'
<1>1. TypeOK'
  BY DEF StockInv, TypeOK, importRollsBack, Copies
<1>2. NoOversell' /\ LedgerAddsUp'
  BY DEF StockInv, importRollsBack, NoOversell, LedgerAddsUp
<1> QED
  BY <1>1, <1>2, ImportEndsKeeps DEF importRollsBack

\* The operations on warehouses keep it.
LEMMA WarehousesKeep ==
  ASSUME StockInv,
         \/ \E s \in Staff, w \in Warehouses : UpdateWarehouse(s, w)
         \/ \E s \in Staff, p \in Priorities : save(s, p)
         \/ \E w \in Warehouses : DeactivateWarehouse(w) \/ \E p \in Priorities : CreateWarehouse(w, p)
  PROVE  StockInv'
<1> DEFINE Row == [status : {"NONE", "ACTIVE", "INACTIVE"}, priority : Priorities]
<1>0. warehouse \in [Warehouses -> Row]
  BY DEF StockInv, TypeOK
<1>1. CASE \E s \in Staff, w \in Warehouses : UpdateWarehouse(s, w)
  <2>1. PICK s \in Staff, w \in Warehouses : UpdateWarehouse(s, w)
    BY <1>1
  <2>2. [w |-> w, status |-> warehouse[w].status, priority |-> warehouse[w].priority] \in Copies
    BY <1>0, <2>1 DEF UpdateWarehouse, Copies
  <2>3. editing' \in [Staff -> Copies \cup {None}]
    BY <2>1, <2>2 DEF UpdateWarehouse, StockInv, TypeOK
  <2>4. edits' \in 0..MaxEdits
    BY <2>1, InventoryAssumption DEF UpdateWarehouse, StockInv, TypeOK
  <2>5. TypeOK' /\ PlansOpen'
    BY <2>1, <2>3, <2>4 DEF UpdateWarehouse, StockInv, TypeOK, PlansOpen, Copies
  <2> QED
    BY <2>1, <2>5, StockSame DEF UpdateWarehouse
<1>2. CASE \E s \in Staff, p \in Priorities : save(s, p)
  <2>1. PICK s \in Staff, p \in Priorities : save(s, p)
    BY <1>2
  <2>2. editing[s] \in Copies
    BY <2>1 DEF save, StockInv, TypeOK
  <2>3. [status |-> editing[s].status, priority |-> p] \in Row
    BY <2>2 DEF Copies
  <2>4. warehouse' \in [Warehouses -> Row]
    BY <1>0, <2>1, <2>3 DEF save
  <2>5. editing' \in [Staff -> Copies \cup {None}]
    BY <2>1 DEF save, StockInv, TypeOK
  <2>6. TypeOK' /\ PlansOpen'
    BY <2>1, <2>4, <2>5 DEF save, StockInv, TypeOK, PlansOpen, Copies
  <2> QED
    BY <2>1, <2>6, StockSame DEF save
<1>3. CASE \E w \in Warehouses : DeactivateWarehouse(w)
  <2>1. PICK w \in Warehouses : DeactivateWarehouse(w)
    BY <1>3
  <2>2. [warehouse[w] EXCEPT !.status = "INACTIVE"] \in Row
    BY <1>0
  <2>3. warehouse' = [warehouse EXCEPT ![w] = [warehouse[w] EXCEPT !.status = "INACTIVE"]]
    BY <2>1 DEF DeactivateWarehouse
  <2>4. warehouse' \in [Warehouses -> Row]
    BY <1>0, <2>2, <2>3
  <2>5. TypeOK' /\ PlansOpen'
    BY <2>1, <2>4 DEF DeactivateWarehouse, StockInv, TypeOK, PlansOpen, Copies
  <2> QED
    BY <2>1, <2>5, StockSame DEF DeactivateWarehouse
<1>4. CASE \E w \in Warehouses, p \in Priorities : CreateWarehouse(w, p)
  <2>1. PICK w \in Warehouses, p \in Priorities : CreateWarehouse(w, p)
    BY <1>4
  <2>2. [status |-> "ACTIVE", priority |-> p] \in Row
    OBVIOUS
  <2>3. warehouse' \in [Warehouses -> Row]
    BY <1>0, <2>1, <2>2 DEF CreateWarehouse
  <2>4. TypeOK' /\ PlansOpen'
    BY <2>1, <2>3 DEF CreateWarehouse, StockInv, TypeOK, PlansOpen, Copies
  <2> QED
    BY <2>1, <2>4, StockSame DEF CreateWarehouse
<1> QED
  BY <1>1, <1>2, <1>3, <1>4

\* Every step keeps it.
LEMMA NextKeeps ==
  ASSUME StockInv, [Next]_vars
  PROVE  StockInv'
<1>1. ASSUME NEW o \in Orders, reserve(o, ONE_WAREHOUSE_PER_ORDER(o))
      PROVE  StockInv'
  <2>1. ONE_WAREHOUSE_PER_ORDER(o) \in SUBSET [w : Warehouses, priority : Priorities]
    BY PlansType DEF StockInv
  <2> QED
    BY <1>1, <2>1, ReserveKeeps
<1>2. ASSUME NEW o \in Orders, NEW w \in Warehouses, reserve(o, fixedWarehouse(w, o))
      PROVE  StockInv'
  <2>1. fixedWarehouse(w, o) \in SUBSET [w : Warehouses, priority : Priorities]
    BY PlansType DEF StockInv
  <2> QED
    BY <1>2, <2>1, ReserveKeeps
<1>3. ASSUME NEW o \in Orders, commit(o)
      PROVE  StockInv'
  <2>0. [i \in Items |-> Holds(o, i)] \in [Items -> Int]
    <3>1. \A i \in Items : Holds(o, i) \in Int
      BY HoldsType DEF StockInv
    <3> QED
      BY <3>1
  <2>1. PICK D \in [Items -> Int] : D = [i \in Items |-> Holds(o, i)]
    BY <2>0, Zenon
  <2>2. /\ leave(o, "COMMITTED")
        /\ onHand' = [i \in Items |-> onHand[i] - D[i]]
        /\ ledger' = [i \in Items |-> ledger[i] - D[i]]
        /\ UNCHANGED <<plans, restocked, warehouse, editing, importing, imported, edits>>
    BY <1>3, <2>1 DEF commit
  <2>3. \A i \in Items : D[i] = IF "COMMITTED" = "COMMITTED" THEN Holds(o, i) ELSE 0
    BY <2>1
  <2> QED
    BY <2>2, <2>3, LeaveKeeps
<1>4. ASSUME NEW o \in Orders, NEW status \in {"RELEASED", "EXPIRED"}, free(o, status)
      PROVE  StockInv'
  <2>0. [i \in Items |-> 0] \in [Items -> Int]
    OBVIOUS
  <2>1. PICK D \in [Items -> Int] : D = [i \in Items |-> 0]
    BY <2>0, Zenon
  <2>2. \A i \in Items : D[i] = IF status = "COMMITTED" THEN Holds(o, i) ELSE 0
    BY <2>1
  <2>3. /\ onHand' = [i \in Items |-> onHand[i] - D[i]]
        /\ ledger' = [i \in Items |-> ledger[i] - D[i]]
    BY <1>4, <2>1 DEF free, StockInv, TypeOK
  <2>4. /\ leave(o, status)
        /\ UNCHANGED <<plans, restocked, warehouse, editing, importing, imported, edits>>
    BY <1>4 DEF free
  <2> QED
    BY <2>2, <2>3, <2>4, LeaveKeeps
<1>5. CASE UNCHANGED vars
  <2>1. TypeOK' /\ PlansOpen'
    BY <1>5 DEF vars, StockInv, TypeOK, PlansOpen, Copies
  <2> QED
    BY <1>5, <2>1, StockSame DEF vars
<1> QED
  BY <1>1, <1>2, <1>3, <1>4, <1>5, ReserveAllKeeps, RestockKeeps, AdjustKeeps, ImportLocksKeeps, WriteReceiptsKeeps,
     ImportRollsBackKeeps, WarehousesKeep DEF Next

-----------------------------------------------------------------------------
(* Theorems.                                                               *)

\* The invariant holds in every reachable state.
THEOREM StockIsConsistent == Spec => []StockInv
<1>1. Init => StockInv
  BY InitKeeps
<1>2. StockInv /\ [Next]_vars => StockInv'
  BY NextKeeps
<1> QED
  BY <1>1, <1>2, PTL DEF Spec

\* The state of the inventory keeps its types: no conditional update takes an item below zero.
THEOREM TypeCorrect == Spec => []TypeOK
<1>1. StockInv => TypeOK
  BY DEF StockInv
<1> QED
  BY <1>1, StockIsConsistent, PTL

\* BR-INV-01: however reservations, payments, expirations, adjustments and imports interleave, no warehouse
\* promises more units than it has.
THEOREM NeverOversold == Spec => []NoOversell
<1>1. StockInv => NoOversell
  BY DEF StockInv
<1> QED
  BY <1>1, StockIsConsistent, PTL

\* The units reserved of an item are exactly those of the active reservations: reserve, commit, release and
\* expire neither leak nor free a unit twice.
THEOREM EveryReservedUnitIsHeld == Spec => []ReservedIsHeld
<1>1. StockInv => ReservedIsHeld
  BY DEF StockInv
<1> QED
  BY <1>1, StockIsConsistent, PTL

\* BR-INV-13: the movements of an item add up to its units on hand, the import that writes what it computed
\* included.
THEOREM LedgerIsComplete == Spec => []LedgerAddsUp
<1>1. StockInv => LedgerAddsUp
  BY DEF StockInv
<1> QED
  BY <1>1, StockIsConsistent, PTL

\* The restocks of an order line never pass what it sold, however many times staff restocks it.
THEOREM RestocksAreBounded == Spec => []RestockedWithinSold
<1>1. StockInv => RestockedWithinSold
  BY DEF StockInv
<1> QED
  BY <1>1, StockIsConsistent, PTL

-----------------------------------------------------------------------------
(* The inventory implements what it promises.                              *)

ForSale == [i \in Items |-> available(i)]

\* What a step does to the units for sale, item by item.
LEMMA ForSaleIs ==
  ASSUME NEW i \in Items
  PROVE  ForSale[i] = onHand[i] - reserved[i] /\ ForSale'[i] = onHand'[i] - reserved'[i]
  BY DEF ForSale, available

\* A step that touches no stock, reservation or restock is a stutter.
LEMMA PromiseStutters ==
  ASSUME UNCHANGED <<onHand, reserved, booking, restocked>>
  PROVE  UNCHANGED Promise!promiseVars
<1>1. ForSale' = ForSale
  BY DEF ForSale, available
<1> QED
  BY <1>1 DEF Promise!promiseVars, ForSale

\* A plan that fits takes its units from what is for sale in its warehouse.
LEMMA PromiseHolds ==
  ASSUME StockInv, NEW o \in Orders, reserveAll(o)
  PROVE  (\E w \in Warehouses : Promise!HoldUnits(o, w)) \/ UNCHANGED Promise!promiseVars
<1>1. PICK c \in plans[o] :
        \/ Fits(o, c.w) /\ reserveIn(o, c.w)
        \/ ~Fits(o, c.w) /\ UNCHANGED <<reserved, booking>>
  BY DEF reserveAll
<1>2. c.w \in Warehouses /\ onHand' = onHand /\ restocked' = restocked
  BY DEF reserveAll, StockInv, TypeOK
<1>3. CASE Fits(o, c.w) /\ reserveIn(o, c.w)
  <2>1. booking[o].status \notin {"ACTIVE", "COMMITTED"}
    BY <1>1 DEF StockInv, PlansOpen
  <2>2. \A i \in Items : onHand[i] \in Nat /\ reserved[i] \in Nat /\ reserved[i] <= onHand[i] /\ Want[o][i[1]] \in Nat
    BY InventoryAssumption DEF StockInv, TypeOK, NoOversell, Items
  <2>3. \A v \in Variants : Want[o][v] <= ForSale[<<v, c.w>>]
    <3> SUFFICES ASSUME NEW v \in Variants PROVE Want[o][v] <= ForSale[<<v, c.w>>]
      OBVIOUS
    <3>1. <<v, c.w>> \in Items /\ Want[o][v] \in Nat
      BY <1>2, InventoryAssumption DEF Items
    <3>2. ForSale[<<v, c.w>>] \in Nat /\ ForSale[<<v, c.w>>] = available(<<v, c.w>>)
      BY <2>2, <3>1 DEF ForSale, available
    <3>3. CASE Want[o][v] > 0
      BY <1>3, <3>1, <3>2, <3>3 DEF Fits, shortIn, Lines
    <3> QED
      BY <3>1, <3>2, <3>3
  <2>4. ForSale' = [i \in Items |-> ForSale[i] - IF i[2] = c.w THEN Want[o][i[1]] ELSE 0]
    BY <1>2, <1>3, <2>2 DEF ForSale, available, reserveIn
  <2>5. booking' = [booking EXCEPT ![o] = [status |-> "ACTIVE", w |-> c.w]]
    BY <1>3 DEF reserveIn
  <2> QED
    BY <1>2, <2>1, <2>3, <2>4, <2>5 DEF Promise!HoldUnits, Promise!PlaceItems, ForSale, Items
<1>4. CASE ~Fits(o, c.w) /\ UNCHANGED <<reserved, booking>>
  BY <1>2, <1>4, PromiseStutters
<1> QED
  BY <1>1, <1>3, <1>4

\* A committed reservation changes nothing that is for sale, and one that ends gives its units back.
LEMMA PromiseLeaves ==
  ASSUME StockInv, NEW o \in Orders, commit(o) \/ free(o, "RELEASED") \/ free(o, "EXPIRED")
  PROVE  Promise!SellUnits(o) \/ Promise!LetGo(o)
<1>1. \A i \in Items : onHand[i] \in Nat /\ reserved[i] \in Nat /\ Holds(o, i) \in Nat
  BY HoldsType DEF StockInv, TypeOK
<1>2. CASE commit(o)
  <2>1. /\ booking[o].status = "ACTIVE" /\ booking' = [booking EXCEPT ![o].status = "COMMITTED"]
        /\ restocked' = restocked
    BY <1>2 DEF commit, leave
  <2>2. ForSale' = ForSale
    BY <1>1, <1>2 DEF ForSale, available, commit, leave
  <2> QED
    BY <2>1, <2>2 DEF Promise!SellUnits, ForSale
<1>3. ASSUME NEW end \in {"RELEASED", "EXPIRED"}, free(o, end)
      PROVE  Promise!LetGo(o)
  <2>1. /\ booking[o].status = "ACTIVE" /\ booking' = [booking EXCEPT ![o].status = end]
        /\ restocked' = restocked
    BY <1>3 DEF free, leave
  <2>2. \A i \in Items : Holds(o, i) = Promise!unitsOf(o, i)
    BY <2>1 DEF Holds, Promise!unitsOf
  <2>3. ForSale' = [i \in Items |-> ForSale[i] + Promise!unitsOf(o, i)]
    BY <1>1, <1>3, <2>2 DEF ForSale, available, free, leave
  <2> QED
    BY <2>1, <2>3 DEF Promise!LetGo, Promise!PlaceItems, ForSale, Items
<1> QED
  BY <1>2, <1>3

\* A movement of one item moves what is for sale of it.
LEMMA ForSaleChanges ==
  ASSUME StockInv, NEW i \in Items, NEW q \in Int, change(i, q)
  PROVE  /\ ForSale' = [ForSale EXCEPT ![i] = @ + q]
         /\ booking' = booking
<1>1. \A j \in Items : onHand[j] \in Nat /\ reserved[j] \in Nat
  BY DEF StockInv, TypeOK
<1>2. \A j \in Items : onHand'[j] = IF j = i THEN onHand[j] + q ELSE onHand[j]
  BY DEF change, StockInv, TypeOK
<1>3. reserved' = reserved /\ booking' = booking
  BY DEF change
<1>4. \A j \in Items : ForSale'[j] = IF j = i THEN ForSale[j] + q ELSE ForSale[j]
  BY <1>1, <1>2, <1>3, ForSaleIs
<1>5. ForSale' = [j \in Items |-> ForSale'[j]] /\ ForSale = [j \in Items |-> ForSale[j]]
  BY DEF ForSale
<1> QED
  BY <1>3, <1>4, <1>5

\* Receipts, adjustments and imports bring units for sale, or take away some that nobody holds.
LEMMA PromiseSupplies ==
  ASSUME StockInv, NEW i \in Items, receive(i) \/ \E q \in {-1, 1} : adjust(i, q)
  PROVE  Promise!Supply \/ Promise!Withdraw(i)
<1>1. \E q \in {-1, 1} : change(i, q) /\ restocked' = restocked /\ (q = -1 => onHand[i] - 1 >= reserved[i])
  <2>1. CASE receive(i)
    <3>1. change(i, 1) /\ restocked' = restocked
      BY <2>1 DEF receive
    <3> QED
      BY <3>1
  <2>2. ASSUME NEW q \in {-1, 1}, adjust(i, q)
        PROVE  change(i, q) /\ restocked' = restocked /\ (q = -1 => onHand[i] - 1 >= reserved[i])
    <3>1. onHand[i] \in Nat /\ reserved[i] \in Nat
      BY DEF StockInv, TypeOK
    <3> QED
      BY <2>2, <3>1 DEF adjust
  <2> QED
    BY <2>1, <2>2
<1> PICK q \in {-1, 1} : change(i, q) /\ restocked' = restocked /\ (q = -1 => onHand[i] - 1 >= reserved[i])
  BY <1>1
<1>2. ForSale' = [ForSale EXCEPT ![i] = @ + q] /\ booking' = booking
  BY ForSaleChanges
<1>3. ForSale \in [Items -> Int]
  BY DEF ForSale, available, StockInv, TypeOK
<1>4. CASE q = 1
  <2>1. \A j \in Items : ForSale'[j] >= ForSale[j]
    BY <1>2, <1>3, <1>4
  <2> QED
    BY <1>1, <1>2, <2>1 DEF Promise!Supply, Promise!PlaceItems, ForSale, Items
<1>5. CASE q = -1
  <2>1. ForSale[i] > 0
    BY <1>1, <1>5, ForSaleIs DEF StockInv, TypeOK
  <2>2. ForSale' = [ForSale EXCEPT ![i] = @ - 1]
    BY <1>2, <1>3, <1>5
  <2> QED
    BY <1>1, <1>2, <2>1, <2>2 DEF Promise!Withdraw, ForSale
<1> QED
  BY <1>1, <1>4, <1>5

\* An import brings the units of its file, whatever it computed them from.
LEMMA PromiseImports ==
  ASSUME StockInv, NEW s \in Staff, writeReceipts(s)
  PROVE  Promise!Supply
<1>1. \A j \in Items : onHand'[j] >= onHand[j] /\ onHand[j] \in Nat /\ onHand'[j] \in Nat
  <2> SUFFICES ASSUME NEW j \in Items PROVE onHand'[j] >= onHand[j] /\ onHand[j] \in Nat /\ onHand'[j] \in Nat
    OBVIOUS
  <2>1. importing[s].file \in DOMAIN Files /\ importing[s] # None
    BY DEF writeReceipts, StockInv, TypeOK
  <2>2. Files[importing[s].file][j] \in Nat
    BY <2>1, InventoryAssumption
  <2>3. j \in FileItems(importing[s].file) => importing[s].read[j] = onHand[j]
    BY <2>1 DEF StockInv, ImportReads
  <2> QED
    BY <2>2, <2>3 DEF writeReceipts, StockInv, TypeOK
<1>2. \A j \in Items : ForSale'[j] >= ForSale[j]
  <2>1. reserved' = reserved /\ \A j \in Items : reserved[j] \in Nat
    BY DEF writeReceipts, StockInv, TypeOK
  <2> QED
    BY <1>1, <2>1, ForSaleIs
<1> QED
  BY <1>2 DEF Promise!Supply, Promise!PlaceItems, ForSale, Items, writeReceipts

\* A restock brings back a unit that was sold.
LEMMA PromiseBringsBack ==
  ASSUME StockInv, NEW o \in Orders, NEW v \in Variants, NEW w \in Warehouses, restock(o, v, w)
  PROVE  Promise!BringBack(o, v, w)
<1>1. <<v, w>> \in Items /\ restocked[o][v] \in Nat /\ Want[o][v] \in Nat
  BY InventoryAssumption DEF Items, StockInv, TypeOK
<1>2. booking[o].status = "COMMITTED" /\ restocked[o][v] < Want[o][v]
  BY <1>1 DEF restock, Sold
<1>3. ForSale' = [ForSale EXCEPT ![<<v, w>>] = @ + 1] /\ booking' = booking
  BY <1>1, ForSaleChanges DEF restock
<1> QED
  BY <1>2, <1>3 DEF Promise!BringBack, ForSale, restock

\* The inventory implements what it promises to the orders, for any orders, warehouses, files and staff.
THEOREM InventoryKeepsItsPromise == Spec => KeepsItsPromise
<1>1. Init => Promise!PromiseInit
  BY InventoryAssumption DEF Init, Promise!PromiseInit, Promise!PlaceItems, available, Items
<1>2. StockInv /\ [Next]_vars => [Promise!PromiseNext]_(Promise!promiseVars)
  <2> SUFFICES ASSUME StockInv, [Next]_vars PROVE Promise!PromiseNext \/ UNCHANGED Promise!promiseVars
    OBVIOUS
  <2>1. CASE \/ \E o \in Orders : reserve(o, ONE_WAREHOUSE_PER_ORDER(o)) \/ \E w \in Warehouses : reserve(o, fixedWarehouse(w, o))
             \/ \E s \in Staff : (\E f \in DOMAIN Files : importLocks(s, f)) \/ importRollsBack(s)
             \/ \E s \in Staff : (\E w \in Warehouses : UpdateWarehouse(s, w)) \/ (\E p \in Priorities : save(s, p))
             \/ \E w \in Warehouses : DeactivateWarehouse(w) \/ \E p \in Priorities : CreateWarehouse(w, p)
             \/ UNCHANGED vars
    <3>1. UNCHANGED <<onHand, reserved, booking, restocked>>
      BY <2>1 DEF reserve, importLocks, importRollsBack, UpdateWarehouse, save, DeactivateWarehouse, CreateWarehouse, vars
    <3> QED
      BY <3>1, PromiseStutters
  <2>2. ASSUME NEW i \in Items, receive(i) \/ \E q \in {-1, 1} : adjust(i, q)
        PROVE  Promise!PromiseNext
    BY <2>2, PromiseSupplies DEF Promise!PromiseNext, Promise!PlaceItems, Items
  <2>3. ASSUME NEW o \in Orders, NEW v \in Variants, NEW w \in Warehouses, restock(o, v, w)
        PROVE  Promise!PromiseNext
    BY <2>3, PromiseBringsBack DEF Promise!PromiseNext
  <2>4. ASSUME NEW o \in Orders, reserveAll(o) \/ commit(o) \/ free(o, "RELEASED") \/ free(o, "EXPIRED")
        PROVE  Promise!PromiseNext \/ UNCHANGED Promise!promiseVars
    BY <2>4, PromiseHolds, PromiseLeaves DEF Promise!PromiseNext
  <2>5. ASSUME NEW s \in Staff, writeReceipts(s)
        PROVE  Promise!PromiseNext
    BY <2>5, PromiseImports DEF Promise!PromiseNext
  <2> QED
    BY <2>1, <2>2, <2>3, <2>4, <2>5 DEF Next
<1> QED
  BY <1>1, <1>2, StockIsConsistent, PTL DEF Spec, KeepsItsPromise, Promise!PromiseSpec
-----------------------------------------------------------------------------
(* The warehouses.                                                         *)

\* A step that gives an inactive warehouse nothing more to hold, and leaves the warehouses alone, keeps them serving.
LEMMA ServedSame ==
  ASSUME TypeOK, TypeOK', UNCHANGED warehouse,
         \A i \in Items : warehouse[i[2]].status = "INACTIVE" => reserved'[i] <= reserved[i]
  PROVE  KeepServing
<1>1. SomeWarehouseActive => SomeWarehouseActive'
  BY DEF SomeWarehouseActive, Active
<1>2. ASSUME NEW w \in Warehouses, InactiveHoldsNothing(w), warehouse[w].status = "INACTIVE", NEW v \in Variants
      PROVE  reserved'[<<v, w>>] = 0
  <2>1. <<v, w>> \in Items /\ <<v, w>>[2] = w
    BY DEF Items
  <2>2. reserved[<<v, w>>] = 0
    BY <1>2 DEF InactiveHoldsNothing
  <2>3. reserved'[<<v, w>>] <= 0 /\ reserved'[<<v, w>>] \in Nat
    BY <1>2, <2>1, <2>2 DEF TypeOK
  <2> QED
    BY <2>3
<1>3. \A w \in Warehouses : InactiveHoldsNothing(w) => InactiveHoldsNothing(w)'
  BY <1>2 DEF InactiveHoldsNothing
<1> QED
  BY <1>1, <1>3 DEF KeepServing

\* A plan takes units of an active warehouse only; a reservation that ends gives back no more than it had.
LEMMA ServedByReservations ==
  ASSUME TypeOK, TypeOK', NEW o \in Orders,
         reserveAll(o) \/ commit(o) \/ free(o, "RELEASED") \/ free(o, "EXPIRED")
  PROVE  KeepServing
<1>1. CASE reserveAll(o)
  <2>1. PICK c \in plans[o] :
          \/ Fits(o, c.w) /\ reserveIn(o, c.w)
          \/ UNCHANGED reserved
    BY <1>1 DEF reserveAll
  <2>2. UNCHANGED warehouse
    BY <1>1 DEF reserveAll
  <2>3. ASSUME NEW i \in Items, warehouse[i[2]].status = "INACTIVE"
        PROVE  reserved'[i] <= reserved[i]
    <3>1. reserved[i] \in Nat
      BY DEF TypeOK
    <3>2. CASE UNCHANGED reserved
      BY <3>1, <3>2
    <3>3. CASE Fits(o, c.w) /\ reserveIn(o, c.w)
      <4>1. i[2] # c.w
        BY <2>3, <3>3 DEF Fits
      <4> QED
        BY <3>1, <3>3, <4>1 DEF reserveIn
    <3> QED
      BY <2>1, <3>2, <3>3
  <2> QED
    BY <2>2, <2>3, ServedSame
<1>2. CASE commit(o) \/ free(o, "RELEASED") \/ free(o, "EXPIRED")
  <2>1. UNCHANGED warehouse /\ reserved' = [i \in Items |-> reserved[i] - Holds(o, i)]
    BY <1>2 DEF commit, free, leave
  <2>2. \A i \in Items : reserved[i] \in Nat /\ Holds(o, i) \in Nat
    BY HoldsType DEF TypeOK
  <2>3. \A i \in Items : reserved'[i] <= reserved[i]
    BY <2>1, <2>2
  <2> QED
    BY <2>1, <2>3, ServedSame
<1> QED
  BY <1>1, <1>2

\* A new warehouse is active.
LEMMA ServedByCreation ==
  ASSUME TypeOK, NEW w \in Warehouses, NEW p \in Priorities, CreateWarehouse(w, p)
  PROVE  KeepServing
<1>1. /\ warehouse'[w].status = "ACTIVE"
      /\ \A x \in Warehouses \ {w} : warehouse'[x] = warehouse[x]
      /\ reserved' = reserved
  BY DEF CreateWarehouse, TypeOK
<1>2. SomeWarehouseActive'
  BY <1>1 DEF SomeWarehouseActive, Active
<1>3. \A x \in Warehouses : InactiveHoldsNothing(x) => InactiveHoldsNothing(x)'
  BY <1>1 DEF InactiveHoldsNothing
<1> QED
  BY <1>2, <1>3 DEF KeepServing

\* Deactivating leaves another active warehouse, and only takes one without units for orders.
LEMMA ServedByDeactivation ==
  ASSUME TypeOK, NEW w \in Warehouses, DeactivateWarehouse(w)
  PROVE  KeepServing
<1>1. /\ warehouse'[w].status = "INACTIVE" /\ warehouse[w].status = "ACTIVE"
      /\ \A x \in Warehouses \ {w} : warehouse'[x] = warehouse[x]
      /\ reserved' = reserved /\ \A v \in Variants : reserved[<<v, w>>] = 0
  BY DEF DeactivateWarehouse, TypeOK
<1>2. SomeWarehouseActive'
  <2>1. Cardinality({w}) = 1
    BY FS_Singleton
  <2>2. Active # {w}
    BY <2>1 DEF DeactivateWarehouse
  <2>3. PICK x \in Active : x # w
    BY <1>1, <2>2 DEF Active
  <2> QED
    BY <1>1, <2>3 DEF SomeWarehouseActive, Active
<1>3. \A x \in Warehouses : InactiveHoldsNothing(x) => InactiveHoldsNothing(x)'
  BY <1>1 DEF InactiveHoldsNothing
<1> QED
  BY <1>2, <1>3 DEF KeepServing

\* A warehouse that is being edited exists.
EditsExist == \A s \in Staff : editing[s] # None => warehouse[editing[s].w].status # "NONE"

\* No step removes a warehouse, and only one that exists is edited.
LEMMA EditsAlwaysExist == Spec => []EditsExist
<1>1. Init => EditsExist
  BY DEF Init, EditsExist
<1>2. TypeOK /\ EditsExist /\ [Next]_vars => EditsExist'
  <2> SUFFICES ASSUME TypeOK, EditsExist, [Next]_vars PROVE EditsExist'
    OBVIOUS
  <2>1. ASSUME UNCHANGED editing, NEW w \in Warehouses, \A x \in Warehouses \ {w} : warehouse'[x] = warehouse[x],
               warehouse'[w].status # "NONE"
        PROVE  EditsExist'
    <3> SUFFICES ASSUME NEW s \in Staff, editing[s] # None PROVE warehouse'[editing[s].w].status # "NONE"
      BY <2>1 DEF EditsExist
    <3>1. editing[s].w \in Warehouses /\ warehouse[editing[s].w].status # "NONE"
      BY DEF TypeOK, Copies, EditsExist
    <3> QED
      BY <2>1, <3>1
  <2>2. CASE UNCHANGED <<warehouse, editing>>
    BY <2>2 DEF EditsExist
  <2>3. ASSUME NEW w \in Warehouses, DeactivateWarehouse(w) \/ \E p \in Priorities : CreateWarehouse(w, p)
        PROVE  EditsExist'
    <3>1. /\ UNCHANGED editing /\ warehouse'[w].status # "NONE"
          /\ \A x \in Warehouses \ {w} : warehouse'[x] = warehouse[x]
      BY <2>3 DEF DeactivateWarehouse, CreateWarehouse, TypeOK
    <3> QED
      BY <2>1, <3>1
  <2>4. ASSUME NEW s \in Staff, NEW w \in Warehouses, UpdateWarehouse(s, w)
        PROVE  EditsExist'
    <3>1. /\ UNCHANGED warehouse /\ warehouse[w].status # "NONE" /\ editing'[s].w = w
          /\ \A x \in Staff \ {s} : editing'[x] = editing[x]
      BY <2>4 DEF UpdateWarehouse, TypeOK
    <3> QED
      BY <3>1 DEF EditsExist
  <2>5. ASSUME NEW s \in Staff, NEW p \in Priorities, save(s, p)
        PROVE  EditsExist'
    <3>1. editing[s].w \in Warehouses /\ editing[s].status # "NONE"
      BY <2>5 DEF save, TypeOK, Copies
    <3>2. /\ warehouse'[editing[s].w].status # "NONE"
          /\ \A x \in Warehouses \ {editing[s].w} : warehouse'[x] = warehouse[x]
          /\ editing'[s] = None /\ \A x \in Staff \ {s} : editing'[x] = editing[x]
      BY <2>5, <3>1 DEF save, TypeOK
    <3>3. ASSUME NEW x \in Staff, editing'[x] # None
          PROVE  warehouse'[editing'[x].w].status # "NONE"
      <4>1. x # s /\ editing'[x] = editing[x]
        BY <3>2, <3>3
      <4>2. editing[x].w \in Warehouses /\ warehouse[editing[x].w].status # "NONE"
        BY <3>3, <4>1 DEF TypeOK, Copies, EditsExist
      <4> QED
        BY <3>2, <4>1, <4>2
    <3> QED
      BY <3>3 DEF EditsExist
  <2> QED
    BY <2>2, <2>3, <2>4, <2>5 DEF Next, vars, reserve, reserveAll, commit, free, restock, receive, adjust, change,
       importLocks, writeReceipts, importRollsBack
<1> QED
  BY <1>1, <1>2, TypeCorrect, PTL DEF Spec

\* The save of an edit keeps the status, activates the warehouse again, or closes it again.
LEMMA ServedBySaving ==
  ASSUME TypeOK, EditsExist, NEW s \in Staff, NEW p \in Priorities, save(s, p)
  PROVE  KeepServing
<1> DEFINE w == editing[s].w
<1>0. warehouse[w].status # "NONE"
  BY DEF save, EditsExist
<1>1. w \in Warehouses /\ editing[s] # None /\ editing[s].status \in {"ACTIVE", "INACTIVE"} /\ editing'[s] = None
  BY DEF save, TypeOK, Copies
<1>2. /\ warehouse'[w].status = editing[s].status
      /\ \A x \in Warehouses \ {w} : warehouse'[x] = warehouse[x]
      /\ reserved' = reserved
  BY <1>1 DEF save, TypeOK
<1>3. ASSUME warehouse[w].status = "ACTIVE", editing[s].status = "INACTIVE"
      PROVE  ClosesAgain(w)
  BY <1>1, <1>3 DEF ClosesAgain
<1> HIDE DEF w
<1>4. \A x \in Warehouses : InactiveHoldsNothing(x) => InactiveHoldsNothing(x)' \/ ClosesAgain(x)
  <2> SUFFICES ASSUME NEW x \in Warehouses, InactiveHoldsNothing(x), ~ClosesAgain(x) PROVE InactiveHoldsNothing(x)'
    OBVIOUS
  <2>1. CASE x # w
    BY <1>2, <2>1 DEF InactiveHoldsNothing
  <2>2. CASE x = w /\ warehouse[w].status \in {"ACTIVE", "INACTIVE"}
    BY <1>1, <1>2, <1>3, <2>2 DEF InactiveHoldsNothing
  <2>3. warehouse[w].status \in {"ACTIVE", "INACTIVE"}
    BY <1>1, <1>0 DEF TypeOK
  <2> QED
    BY <2>1, <2>2, <2>3
<1>5. SomeWarehouseActive => SomeWarehouseActive' \/ ClosesAgain(w)
  <2> SUFFICES ASSUME NEW x \in Warehouses, warehouse[x].status = "ACTIVE", ~ClosesAgain(w) PROVE SomeWarehouseActive'
    BY DEF SomeWarehouseActive, Active
  <2>1. warehouse'[x].status = "ACTIVE"
    BY <1>1, <1>2, <1>3
  <2> QED
    BY <2>1 DEF SomeWarehouseActive, Active
<1> QED
  BY <1>1, <1>4, <1>5 DEF KeepServing

\* However many of the staff edit warehouses, only closing one again with a stale edit leaves units held in an inactive
\* warehouse, or none active, for any warehouses, orders and files (DeactivateWarehouse against reserve, UpdateWarehouse).
THEOREM WarehousesAlwaysServe == Spec => WarehousesServe
<1>1. StockInv /\ StockInv' /\ EditsExist /\ [Next]_vars => [KeepServing]_vars
  <2> SUFFICES ASSUME StockInv, StockInv', EditsExist, Next PROVE KeepServing
    OBVIOUS
  <2>1. TypeOK /\ TypeOK'
    BY DEF StockInv
  <2>2. CASE \/ \E o \in Orders : reserve(o, ONE_WAREHOUSE_PER_ORDER(o)) \/ \E w \in Warehouses : reserve(o, fixedWarehouse(w, o))
             \/ \E o \in Orders, v \in Variants, w \in Warehouses : restock(o, v, w)
             \/ \E i \in Items : receive(i) \/ \E q \in {-1, 1} : adjust(i, q)
             \/ \E s \in Staff : \/ \E f \in DOMAIN Files : importLocks(s, f)
                                 \/ writeReceipts(s) \/ importRollsBack(s)
                                 \/ \E w \in Warehouses : UpdateWarehouse(s, w)
    <3>1. UNCHANGED <<warehouse, reserved>>
      BY <2>2 DEF reserve, restock, receive, adjust, change, importLocks, writeReceipts, importRollsBack, UpdateWarehouse
    <3>2. \A i \in Items : reserved'[i] <= reserved[i]
      BY <2>1, <3>1 DEF TypeOK
    <3> QED
      BY <2>1, <3>1, <3>2, ServedSame
  <2>3. ASSUME NEW o \in Orders, reserveAll(o) \/ commit(o) \/ free(o, "RELEASED") \/ free(o, "EXPIRED")
        PROVE  KeepServing
    BY <2>1, <2>3, ServedByReservations
  <2>4. ASSUME NEW s \in Staff, NEW p \in Priorities, save(s, p)
        PROVE  KeepServing
    BY <2>1, <2>4, ServedBySaving
  <2>5. ASSUME NEW w \in Warehouses, DeactivateWarehouse(w) \/ \E p \in Priorities : CreateWarehouse(w, p)
        PROVE  KeepServing
    BY <2>1, <2>5, ServedByDeactivation, ServedByCreation
  <2> QED
    BY <2>2, <2>3, <2>4, <2>5 DEF Next
<1> QED
  BY <1>1, StockIsConsistent, EditsAlwaysExist, PTL DEF Spec, WarehousesServe

\* As long as no edit closes a warehouse again, an inactive one holds nothing and some warehouse always sells.
THEOREM ClosedWarehousesHoldNothing ==
  Spec /\ [][\A w \in Warehouses : ~ClosesAgain(w)]_vars => [](SomeWarehouseActive /\ \A w \in Warehouses : InactiveHoldsNothing(w))
<1> DEFINE Serving == SomeWarehouseActive /\ \A w \in Warehouses : InactiveHoldsNothing(w)
           Calm == \A w \in Warehouses : ~ClosesAgain(w)
<1>1. Init => Serving
  BY InventoryAssumption DEF Init, InactiveHoldsNothing, SomeWarehouseActive, Active, Items
<1>2. Serving /\ [KeepServing]_vars /\ [Calm]_vars => Serving'
  <2>1. CASE UNCHANGED vars
    BY <2>1 DEF vars, InactiveHoldsNothing, SomeWarehouseActive, Active
  <2>2. CASE ~UNCHANGED vars
    BY <2>2 DEF KeepServing
  <2> QED
    BY <2>1, <2>2
<1> QED
  BY <1>1, <1>2, WarehousesAlwaysServe, PTL DEF Spec, WarehousesServe

-----------------------------------------------------------------------------
(* The answers before a reservation.                                       *)

\* What an order is short of in a warehouse is counted.
LEMMA ShortIsCounted ==
  ASSUME NEW o \in Orders, NEW w
  PROVE  /\ IsFiniteSet(shortIn(w, o)) /\ Cardinality(shortIn(w, o)) \in Nat
         /\ Cardinality(shortIn(w, o)) = 0 <=> shortIn(w, o) = {}
<1>1. IsFiniteSet(Lines(o))
  BY InventoryAssumption DEF Lines
<1>2. shortIn(w, o) \in SUBSET Lines(o)
  BY DEF shortIn
<1>3. IsFiniteSet(shortIn(w, o))
  BY <1>1, <1>2, FS_Subset
<1> QED
  BY <1>3, FS_CardinalityType, FS_EmptySet

\* Among the active warehouses one is the closest: the fewest lines short, then the first by priority, then by code.
LEMMA SomeWarehouseIsClosest ==
  ASSUME TypeOK, NEW o \in Orders, Active # {}
  PROVE  \E w \in Active : \A x \in Active \ {w} :
           LET n(a) == Cardinality(shortIn(a, o))
           IN n(w) < n(x) \/ (~(n(x) < n(w)) /\ Before(WithPriority(w), WithPriority(x)))
<1> DEFINE n(a) == Cardinality(shortIn(a, o))
           p(a) == warehouse[a].priority
<1>0. \A a \in Active : n(a) \in Nat /\ p(a) \in Nat /\ a \in Nat
  BY ShortIsCounted, InventoryAssumption DEF TypeOK, Active
<1> HIDE DEF n, p
<1>1. PICK a1 \in Active : \A x \in Active : n(a1) <= n(x)
  <2>1. PICK m \in {n(a) : a \in Active} : \A k \in {n(a) : a \in Active} : m <= k
    BY <1>0, LeastNat
  <2> QED
    BY <2>1
<1> DEFINE A1 == {a \in Active : n(a) = n(a1)}
<1>2. PICK a2 \in A1 : \A x \in A1 : p(a2) <= p(x)
  <2>1. {p(a) : a \in A1} \subseteq Nat /\ {p(a) : a \in A1} # {}
    BY <1>0
  <2>2. PICK m \in {p(a) : a \in A1} : \A k \in {p(a) : a \in A1} : m <= k
    BY <2>1, LeastNat
  <2> QED
    BY <2>2
<1> DEFINE A2 == {a \in A1 : p(a) = p(a2)}
<1>3. PICK w \in A2 : \A x \in A2 : w <= x
  <2>1. A2 \subseteq Nat /\ A2 # {}
    BY <1>0
  <2> QED
    BY <2>1, LeastNat
<1>4. ASSUME NEW x \in Active \ {w}
      PROVE  n(w) < n(x) \/ (~(n(x) < n(w)) /\ Before(WithPriority(w), WithPriority(x)))
  <2>1. n(w) = n(a1) /\ p(w) = p(a2) /\ w \in Active
    BY <1>3
  <2>2. n(w) <= n(x)
    BY <1>1, <2>1
  <2>3. CASE n(w) = n(x)
    <3>1. x \in A1 /\ p(w) <= p(x)
      BY <1>2, <2>1, <2>3
    <3>2. p(w) < p(x) \/ (p(w) = p(x) /\ w < x)
      <4>1. CASE p(w) = p(x)
        <5>1. w <= x
          BY <1>3, <2>1, <3>1, <4>1
        <5> QED
          BY <1>0, <2>1, <4>1, <5>1
      <4>2. CASE p(w) # p(x)
        BY <1>0, <2>1, <3>1, <4>2
      <4> QED
        BY <4>1, <4>2
    <3>3. Before(WithPriority(w), WithPriority(x))
      BY <3>2 DEF Before, WithPriority, p
    <3> QED
      BY <1>0, <2>1, <2>3, <3>3
  <2>4. CASE n(w) # n(x)
    BY <1>0, <2>1, <2>2, <2>4
  <2> QED
    BY <2>3, <2>4
<1>5. w \in Active
  OBVIOUS
<1> QED
  BY <1>4, <1>5 DEF n

\* What canFulfillTogether answers as short is what some active warehouse is short of, and none is short of less.
LEMMA ClosestIsShortOfLeast ==
  ASSUME TypeOK, NEW o \in Orders, Active # {}
  PROVE  \E w \in Active : /\ shortInClosest(o) = shortIn(w, o)
                           /\ \A x \in Active : Cardinality(shortIn(w, o)) <= Cardinality(shortIn(x, o))
<1> DEFINE n(a) == Cardinality(shortIn(a, o))
           closest(w) == \A x \in Active \ {w} :
             n(w) < n(x) \/ (~(n(x) < n(w)) /\ Before(WithPriority(w), WithPriority(x)))
           w0 == CHOOSE w \in Active : closest(w)
<1>1. \E w \in Active : closest(w)
  BY SomeWarehouseIsClosest
<1>2. w0 \in Active /\ closest(w0)
  <2> HIDE DEF closest
  <2> QED
    BY <1>1
<1>3. shortInClosest(o) = shortIn(w0, o)
  BY DEF shortInClosest
<1>4. \A x \in Active : n(w0) <= n(x)
  <2>1. \A x \in Active : n(x) \in Nat
    BY ShortIsCounted
  <2> HIDE DEF n, w0
  <2> QED
    BY <1>2, <2>1
<1> QED
  BY <1>2, <1>3, <1>4

\* On the same stock, the three answers agree.
LEMMA TheAnswersAgree ==
  ASSUME TypeOK
  PROVE  AnswersAgree
<1> SUFFICES ASSUME NEW o \in Orders, Lines(o) # {}
             PROVE  /\ shortInClosest(o) = {} <=> ONE_WAREHOUSE_PER_ORDER(o) # {}
                    /\ SomeWarehouseActive => \E w \in Active : shortIn(w, o) \subseteq shortInClosest(o)
                    /\ \A w \in Active : Cardinality(shortInClosest(o)) <= Cardinality(shortIn(w, o))
  BY DEF AnswersAgree
<1>1. ONE_WAREHOUSE_PER_ORDER(o) # {} <=> \E x \in Active : shortIn(x, o) = {}
  BY DEF ONE_WAREHOUSE_PER_ORDER
<1>2. CASE Active = {}
  BY <1>1, <1>2 DEF shortInClosest, SomeWarehouseActive
<1>3. CASE Active # {}
  <2>1. PICK w \in Active : /\ shortInClosest(o) = shortIn(w, o)
                            /\ \A x \in Active : Cardinality(shortIn(w, o)) <= Cardinality(shortIn(x, o))
    BY <1>3, ClosestIsShortOfLeast
  <2>2. ASSUME NEW x \in Active, shortIn(x, o) = {}
        PROVE  shortIn(w, o) = {}
    <3>1. Cardinality(shortIn(w, o)) <= Cardinality(shortIn(x, o))
      BY <2>1
    <3>2. Cardinality(shortIn(x, o)) = 0
      BY <2>2, ShortIsCounted
    <3>3. Cardinality(shortIn(w, o)) \in Nat
      BY ShortIsCounted
    <3>4. Cardinality(shortIn(w, o)) = 0
      BY <3>1, <3>2, <3>3
    <3> QED
      BY <3>4, ShortIsCounted
  <2> QED
    BY <1>1, <2>1, <2>2
<1> QED
  BY <1>2, <1>3

\* The check without a lock, the reservation and the answer of what to leave out agree on the same stock, for any
\* warehouses, priorities and orders (canFulfillTogether, shortInClosestWarehouse, ONE_WAREHOUSE_PER_ORDER).
THEOREM TheAnswersAlwaysAgree == Spec => []AnswersAgree
<1>1. TypeOK => AnswersAgree
  BY TheAnswersAgree
<1> QED
  BY <1>1, TypeCorrect, PTL
=============================================================================
