---------------------------- MODULE StockPromise ----------------------------
(***************************************************************************)
(* What the inventory promises to the rest of the shop, without its locks, *)
(* plans, ledger, imports and warehouses to edit: an order holds all its   *)
(* units in one warehouse or none of them, the units it holds are not for  *)
(* sale, and they come back at most once.  Inventory implements it, and    *)
(* OrderLifecycle asks for nothing it does not promise (ReservationLife).  *)
(***************************************************************************)
EXTENDS Integers, TLAPS

CONSTANTS PromisedOrders, PromisedVariants, Places, Wanted

PlaceItems == PromisedVariants \X Places

VARIABLES
  promise,     \* of each order: the state of its reservation and its warehouse
  forSale,     \* of each variant and warehouse: the units anybody may take
  broughtBack  \* of each order and variant: the units that came back

promiseVars == <<promise, forSale, broughtBack>>

unitsOf(o, i) == IF i[2] = promise[o].w THEN Wanted[o][i[1]] ELSE 0

PromiseInit ==
  /\ promise \in [PromisedOrders -> [status : {"NONE"}, w : Places]]
  /\ forSale = [i \in PlaceItems |-> 0]
  /\ broughtBack = [o \in PromisedOrders |-> [v \in PromisedVariants |-> 0]]

\* All the units of the order, in one warehouse, at once.
HoldUnits(o, w) ==
  /\ promise[o].status \notin {"ACTIVE", "COMMITTED"}
  /\ \A v \in PromisedVariants : Wanted[o][v] <= forSale[<<v, w>>]
  /\ promise' = [promise EXCEPT ![o] = [status |-> "ACTIVE", w |-> w]]
  /\ forSale' = [i \in PlaceItems |-> forSale[i] - IF i[2] = w THEN Wanted[o][i[1]] ELSE 0]
  /\ UNCHANGED broughtBack

\* The units leave the warehouse: nobody else could take them anyway.
SellUnits(o) ==
  /\ promise[o].status = "ACTIVE"
  /\ promise' = [promise EXCEPT ![o].status = "COMMITTED"]
  /\ UNCHANGED <<forSale, broughtBack>>

LetGo(o) ==
  /\ promise[o].status = "ACTIVE"
  /\ \E end \in {"RELEASED", "EXPIRED"} : promise' = [promise EXCEPT ![o].status = end]
  /\ forSale' = [i \in PlaceItems |-> forSale[i] + unitsOf(o, i)]
  /\ UNCHANGED broughtBack

BringBack(o, v, w) ==
  /\ promise[o].status = "COMMITTED" /\ broughtBack[o][v] < Wanted[o][v]
  /\ forSale' = [forSale EXCEPT ![<<v, w>>] = @ + 1]
  /\ broughtBack' = [broughtBack EXCEPT ![o][v] = @ + 1]
  /\ UNCHANGED promise

\* Stock arrives, or the staff takes units nobody holds away.
Supply ==
  /\ \A i \in PlaceItems : forSale'[i] >= forSale[i]
  /\ UNCHANGED <<promise, broughtBack>>
Withdraw(i) ==
  /\ forSale[i] > 0
  /\ forSale' = [forSale EXCEPT ![i] = @ - 1]
  /\ UNCHANGED <<promise, broughtBack>>

PromiseNext ==
  \/ \E o \in PromisedOrders :
       \/ \E w \in Places : HoldUnits(o, w) \/ \E v \in PromisedVariants : BringBack(o, v, w)
       \/ SellUnits(o) \/ LetGo(o)
  \/ Supply \/ \E i \in PlaceItems : Withdraw(i)

PromiseSpec == PromiseInit /\ [][PromiseNext]_promiseVars

\* The reservation of each order, seen alone.
Life == INSTANCE ReservationLife WITH
  Reservers <- PromisedOrders, life <- [o \in PromisedOrders |-> promise[o].status],
  returned <- {o \in PromisedOrders : \E v \in PromisedVariants : broughtBack[o][v] > 0}

-----------------------------------------------------------------------------
(* Proofs. *)

\* The shapes of the promises and of what came back.
PromiseShape ==
  /\ promise \in [PromisedOrders -> [status : {"NONE", "ACTIVE", "COMMITTED", "RELEASED", "EXPIRED"}, w : Places]]
  /\ broughtBack \in [PromisedOrders -> [PromisedVariants -> Nat]]

\* Every step keeps the shapes.
LEMMA ShapeStep == PromiseShape /\ [PromiseNext]_promiseVars => PromiseShape'
<1> SUFFICES ASSUME PromiseShape, [PromiseNext]_promiseVars PROVE PromiseShape'
  OBVIOUS
<1>1. ASSUME NEW o \in PromisedOrders, NEW w \in Places, HoldUnits(o, w) PROVE PromiseShape'
  BY <1>1 DEF HoldUnits, PromiseShape
<1>2. ASSUME NEW o \in PromisedOrders, NEW v \in PromisedVariants, NEW w \in Places, BringBack(o, v, w) PROVE PromiseShape'
  BY <1>2 DEF BringBack, PromiseShape
<1>3. ASSUME NEW o \in PromisedOrders, SellUnits(o) PROVE PromiseShape'
  BY <1>3 DEF SellUnits, PromiseShape
<1>4. ASSUME NEW o \in PromisedOrders, LetGo(o) PROVE PromiseShape'
  BY <1>4 DEF LetGo, PromiseShape
<1>5. CASE Supply \/ \E i \in PlaceItems : Withdraw(i)
  BY <1>5 DEF Supply, Withdraw, PromiseShape
<1>6. CASE UNCHANGED promiseVars
  BY <1>6 DEF promiseVars, PromiseShape
<1> QED
  BY <1>1, <1>2, <1>3, <1>4, <1>5, <1>6 DEF PromiseNext

\* The state of each reservation, and the orders of which something came back.
States == [o \in PromisedOrders |-> promise[o].status]
SomethingBack == {o \in PromisedOrders : \E v \in PromisedVariants : broughtBack[o][v] > 0}

\* Every step of the promise is a step of the life of a reservation, or changes nothing of it.
LEMMA LifeStep == PromiseShape /\ [PromiseNext]_promiseVars => [Life!LifeNext]_(Life!lifeVars)
<1> SUFFICES ASSUME PromiseShape, [PromiseNext]_promiseVars PROVE [Life!LifeNext]_(Life!lifeVars)
  OBVIOUS
<1> USE DEF PromiseShape
<1>0. (broughtBack' = broughtBack => SomethingBack' = SomethingBack) /\ (promise' = promise => States' = States)
  BY DEF SomethingBack, States
<1>1. ASSUME NEW o \in PromisedOrders, NEW w \in Places, HoldUnits(o, w) PROVE Life!Reserve(o)
  <2>1. States[o] \in Life!Unheld /\ States' = [States EXCEPT ![o] = "ACTIVE"] /\ SomethingBack' = SomethingBack
    BY <1>0, <1>1 DEF HoldUnits, States, Life!Unheld
  <2> QED
    BY <2>1 DEF Life!Reserve, Life!become, States, SomethingBack
<1>2. ASSUME NEW o \in PromisedOrders, NEW v \in PromisedVariants, NEW w \in Places, BringBack(o, v, w) PROVE Life!Return(o)
  <2>1. States[o] = "COMMITTED" /\ States' = States
    BY <1>0, <1>2 DEF BringBack, States
  <2>2. SomethingBack' = SomethingBack \cup {o}
    <3>1. broughtBack'[o][v] > 0 /\ \A u \in PromisedVariants : broughtBack[o][u] > 0 => broughtBack'[o][u] > 0
      BY <1>2 DEF BringBack
    <3>2. \A p \in PromisedOrders \ {o} : broughtBack'[p] = broughtBack[p]
      BY <1>2 DEF BringBack
    <3> QED
      BY <3>1, <3>2 DEF SomethingBack
  <2> QED
    BY <2>1, <2>2 DEF Life!Return, States, SomethingBack
<1>3. ASSUME NEW o \in PromisedOrders, SellUnits(o) PROVE Life!Commit(o)
  <2>1. States[o] = "ACTIVE" /\ States' = [States EXCEPT ![o] = "COMMITTED"] /\ SomethingBack' = SomethingBack
    BY <1>0, <1>3 DEF SellUnits, States
  <2> QED
    BY <2>1 DEF Life!Commit, Life!become, States, SomethingBack
<1>4. ASSUME NEW o \in PromisedOrders, LetGo(o) PROVE Life!Release(o) \/ Life!Expire(o)
  <2>1. /\ States[o] = "ACTIVE" /\ SomethingBack' = SomethingBack
        /\ States' = [States EXCEPT ![o] = "RELEASED"] \/ States' = [States EXCEPT ![o] = "EXPIRED"]
    BY <1>0, <1>4 DEF LetGo, States
  <2> QED
    BY <2>1 DEF Life!Release, Life!Expire, Life!become, States, SomethingBack
<1>5. CASE Supply \/ (\E i \in PlaceItems : Withdraw(i)) \/ UNCHANGED promiseVars
  <2>1. promise' = promise /\ broughtBack' = broughtBack
    BY <1>5 DEF Supply, Withdraw, promiseVars
  <2> QED
    BY <1>0, <2>1 DEF Life!lifeVars, States, SomethingBack
<1> QED
  BY <1>1, <1>2, <1>3, <1>4, <1>5 DEF PromiseNext, Life!LifeNext

\* What the facade of the inventory promises implements the life of a reservation that the orders rely on: the stock of
\* an order leaves at most once, and only what was sold comes back.
THEOREM PromiseImplementsLife == PromiseSpec => Life!LifeSpec
<1>1. PromiseInit => PromiseShape /\ Life!LifeInit
  BY DEF PromiseInit, PromiseShape, Life!LifeInit
<1> QED
  BY <1>1, ShapeStep, LifeStep, PTL DEF PromiseSpec, Life!LifeSpec
=============================================================================
