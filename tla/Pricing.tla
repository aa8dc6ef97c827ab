------------------------------- MODULE Pricing -------------------------------
(***************************************************************************)
(* The prices of the variants in a list (src/modules/pricing): periods set *)
(* from now on, scheduled, cancelled, and imported from a file.  A change  *)
(* locks the row of its variants and reads the clock after that, so it is  *)
(* one action.  An import also checks its rows before it has the locks, at *)
(* a time that may be another when it writes.                              *)
(***************************************************************************)
EXTENDS Integers, Sequences, FiniteSets, SequencesExt

CONSTANTS
  PricedVariants,
  Amounts,        \* cents, positive
  PriceFiles,     \* the files of prices, rows in their order
  MaxPriceTime,   \* bound: instants are 0..MaxPriceTime, and a period may begin one later
  MaxPriceCalls   \* bound: changes asked for

Forever == MaxPriceTime + 2      \* the end of a period without one
Starts == 0..(MaxPriceTime + 1)
NoCompareAt == 0
Price == [amount : Amounts, compareAt : Amounts \cup {NoCompareAt}]
Period == [price : Price, from : Starts, to : 0..Forever]
PriceRows == [v : PricedVariants, price : Price, effectiveFrom : Starts]

ASSUME PricingAssumption ==
  /\ Amounts \subseteq Nat \ {0} /\ MaxPriceTime \in Nat /\ MaxPriceCalls \in Nat /\ PriceFiles \subseteq Seq(PriceRows)

VARIABLES
  periods,      \* price_periods of each variant
  priceClock,
  importRows,   \* the file an import checked and has not applied yet, or <<>>
  wished,       \* what was asked for and not cancelled, by variant: the price from each instant on, or none
  priceCalls

pricingVars == <<periods, priceClock, importRows, wished, priceCalls>>
NoPrice == [amount |-> 0, compareAt |-> NoCompareAt]

PricingInit ==
  /\ periods = [v \in PricedVariants |-> {}] /\ priceClock = 0 /\ importRows = <<>> /\ priceCalls = 0
  /\ wished = [v \in PricedVariants |-> [t \in Starts |-> NoPrice]]

-----------------------------------------------------------------------------
(* VariantPrice. *)

periodState(p, at) ==
  IF p.from > at THEN "SCHEDULED" ELSE IF p.to <= at THEN "PAST" ELSE "CURRENT"
inForceAt(list, at) == {p \in list : periodState(p, at) = "CURRENT"}
validCompareAt(price) == price.compareAt # NoCompareAt => price.compareAt > price.amount

\* Not after now: from now on.
startOf(effectiveFrom, now) == IF effectiveFrom > now THEN effectiveFrom ELSE now

nextStart(list, start) ==
  LET later == {p.from : p \in {q \in list : q.from > start}} IN
  IF later = {} THEN Forever ELSE CHOOSE t \in later : \A u \in later : t <= u

\* The periods after setting a price, and what that was.
set(list, price, effectiveFrom, now) ==
  LET start == startOf(effectiveFrom, now)
      same == {p \in list : p.from = start}
      containing == inForceAt(list, start)
      closed == {[p EXCEPT !.to = start] : p \in containing}
      new == [price |-> price, from |-> start, to |-> nextStart(list, start)]
      asItIs == same \cup (IF effectiveFrom <= now THEN inForceAt(list, now) ELSE {})
  IN IF ~validCompareAt(price) THEN [list |-> list, change |-> "invalid"]
     ELSE IF \E p \in asItIs : p.price = price THEN [list |-> list, change |-> "unchanged"]
     ELSE IF same # {} THEN [list |-> list, change |-> "overlap"]
     ELSE [list |-> (list \ containing) \cup closed \cup {new}, change |-> "new"]

\* The period before it lasts until the next one again.
cancelled(list, period) ==
  {IF p.to = period.from THEN [p EXCEPT !.to = period.to] ELSE p : p \in list \ {period}}

-----------------------------------------------------------------------------
(* The use cases. *)

Called == priceCalls < MaxPriceCalls /\ priceCalls' = priceCalls + 1
\* Nothing changes for a price already there, or refused.
Refused == UNCHANGED <<periods, wished>>

SetPrice(v, price, effectiveFrom) ==
  LET result == set(periods[v], price, effectiveFrom, priceClock) IN
  /\ Called
  /\ IF result.change \in {"invalid", "overlap"} THEN Refused
     ELSE /\ periods' = [periods EXCEPT ![v] = result.list]
          /\ wished' = [wished EXCEPT ![v][startOf(effectiveFrom, priceClock)] = price]
  /\ UNCHANGED <<priceClock, importRows>>

CanCancel(period) == period.from > priceClock

CancelPrice(v, period) ==
  /\ Called
  /\ IF ~CanCancel(period) THEN Refused
     ELSE /\ periods' = [periods EXCEPT ![v] = cancelled(@, period)]
          /\ wished' = [wished EXCEPT ![v][period.from] = NoPrice]
  /\ UNCHANGED <<priceClock, importRows>>

\* rejectRepeatedStarts, before the locks.
repeatedStart(rows, now) ==
  \E i, j \in 1..Len(rows) :
    i < j /\ rows[i].v = rows[j].v /\ startOf(rows[i].effectiveFrom, now) = startOf(rows[j].effectiveFrom, now)

checkImport(file) ==
  /\ Called /\ importRows = <<>>
  /\ importRows' = IF repeatedStart(file, priceClock) \/ \E i \in 1..Len(file) : ~validCompareAt(file[i].price)
                   THEN <<>> ELSE file
  /\ UNCHANGED <<periods, priceClock, wished>>

\* Every row in its order, over what the rows before it left.
applyRow(state, row) ==
  LET result == set(state.periods[row.v], row.price, row.effectiveFrom, priceClock) IN
  [periods |-> [state.periods EXCEPT ![row.v] = result.list],
   failed |-> state.failed \/ result.change \in {"invalid", "overlap"},
   wished |-> [state.wished EXCEPT ![row.v][startOf(row.effectiveFrom, priceClock)] = row.price]]

\* Mutant: the rows that fail are left out.
pricesAfterAnyway(state) == TRUE
pricesAfter(state) == ~state.failed

\* With the locks of its variants: all the rows, or none after an error or in a dry run.
applyImport(dryRun) ==
  LET after == FoldLeft(applyRow, [periods |-> periods, failed |-> FALSE, wished |-> wished], importRows) IN
  /\ importRows # <<>>
  /\ IF pricesAfter(after) /\ ~dryRun THEN periods' = after.periods /\ wished' = after.wished ELSE Refused
  /\ importRows' = <<>> /\ UNCHANGED <<priceClock, priceCalls>>

PriceTick == priceClock < MaxPriceTime /\ priceClock' = priceClock + 1 /\ UNCHANGED <<periods, importRows, wished, priceCalls>>

PricingNext ==
  \/ \E v \in PricedVariants : \/ \E price \in Price, from \in Starts : SetPrice(v, price, from)
                               \/ \E period \in periods[v] : CancelPrice(v, period)
  \/ \E file \in PriceFiles : checkImport(file)
  \/ \E dryRun \in BOOLEAN : applyImport(dryRun)
  \/ PriceTick
PricingSpec == PricingInit /\ [][PricingNext]_pricingVars

-----------------------------------------------------------------------------
(* Properties. *)

\* The periods of a variant form one line: each ends where the next begins, the last has no end, and a compare-at
\* price is above its price.
PricingTypeOK ==
  /\ periods \in [PricedVariants -> SUBSET Period] /\ priceClock \in 0..MaxPriceTime /\ priceCalls \in 0..MaxPriceCalls
  /\ \A v \in PricedVariants : \A p \in periods[v] :
       /\ p.from < p.to /\ validCompareAt(p.price)
       /\ p.to = Forever \/ \E q \in periods[v] : q.from = p.to
       /\ \A q \in periods[v] \ {p} : q.to <= p.from \/ q.from >= p.to

\* The last wish not after an instant.
Expected(v, at) ==
  LET wishes == {t \in 0..at : wished[v][t] # NoPrice} IN
  IF wishes = {} THEN {} ELSE {wished[v][CHOOSE t \in wishes : \A u \in wishes : u <= t]}

\* Whatever was set, scheduled, cancelled and imported in whatever order, at each instant the variant has exactly the
\* price last asked for from an instant not after it and not cancelled (at, currentPrices).
PricesAsAsked ==
  \A v \in PricedVariants, at \in Starts : {p.price : p \in inForceAt(periods[v], at)} = Expected(v, at)

\* No change reaches the past: the price that was in force at an instant gone by stays the same, as the orders of
\* then saw it (BR-PRC-04).
PastPricesStay ==
  [][\A v \in PricedVariants : \A at \in 0..(priceClock - 1) :
       {p.price : p \in inForceAt(periods'[v], at)} = {p.price : p \in inForceAt(periods[v], at)}]_pricingVars

\* A variant has the price asked for at each instant, and the past keeps its own (setPrice, schedule, cancel, import).
PricesHold == [](PricingTypeOK /\ PricesAsAsked) /\ PastPricesStay
=============================================================================
