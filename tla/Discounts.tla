------------------------------ MODULE Discounts ------------------------------
(***************************************************************************)
(* What an order costs: the discount of a promotion shared among its lines *)
(* (promotions/domain/promotion-discounts.ts), the automatic promotion it  *)
(* gets, its shipping and its VAT (ordering/domain/order.ts,               *)
(* shipping/domain/shipping-rate-calculator.ts), in whole cents.  A basket *)
(* and the promotions of the moment are put together step by step and then *)
(* assessed.                                                               *)
(***************************************************************************)
EXTENDS Integers, Sequences, FiniteSets, SequencesExt

CONSTANTS
  LineTotals,        \* totals a line may have, in cents
  MaxLines,          \* bound: lines of a basket
  Offers,            \* promotions: type, value, minimum subtotal, start and the lines each applies to
  MINIMUM_PAYMENT,
  TaxRate,           \* VAT, in basis points
  FlatFee, FreeShippingThreshold

ASSUME DiscountsAssumption ==
  /\ LineTotals \subseteq Nat \ {0} /\ MaxLines \in Nat
  /\ \A p \in Offers :
       /\ p.type \in {"PERCENTAGE", "AMOUNT"} /\ p.value \in Nat \ {0} /\ p.minimum \in Nat /\ p.start \in Nat
       /\ p.type = "PERCENTAGE" => p.value <= 100
  /\ {MINIMUM_PAYMENT, TaxRate, FlatFee, FreeShippingThreshold} \subseteq Nat

VARIABLES
  basket,    \* the total of each line
  offers,    \* the automatic promotions active now, in the order of their ids
  assessed   \* the promotion, the discount of each line and the totals, or none yet

discountVars == <<basket, offers, assessed>>

Least(a, b) == IF a < b THEN a ELSE b
Most(a, b) == IF a > b THEN a ELSE b
AddUp(s) == FoldLeft(LAMBDA sum, x : sum + x, 0, s)
NotYet == <<>>
NoOffer == [type |-> "NONE", value |-> 0, minimum |-> 0, start |-> 0, applies |-> {}]

-----------------------------------------------------------------------------
(* promotion-discounts.ts *)

appliesTo(p, i) == i \in p.applies
\* Which comes first: the larger, and the first of two alike.
comesFirst(s, i, j) == s[i] > s[j] \/ (s[i] = s[j] /\ i < j)
placeOf(s, I, i) == Cardinality({j \in I : comesFirst(s, j, i)}) + 1

percentageOf(total, value) == (total * value + 50) \div 100

\* Mutant: the cents left go to nobody.
centsLeftNot(left, n, place) == 0
\* The cents left by rounding down, one by one from the line of highest total on, and around again.
centsLeft(left, n, place) == left \div n + IF place <= left % n THEN 1 ELSE 0

discountsOf(p, lines) ==
  LET I == DOMAIN lines
      eligible == {i \in I : appliesTo(p, i)}
      total == AddUp([i \in I |-> IF i \in eligible THEN lines[i] ELSE 0])
      amount == Least(p.value, total)
      share(i) == IF i \in eligible THEN (amount * lines[i]) \div total ELSE 0
      left == amount - AddUp([i \in I |-> share(i)])
  IN CASE p.type = "PERCENTAGE" -> [i \in I |-> IF i \in eligible THEN percentageOf(lines[i], p.value) ELSE 0]
       [] p.type = "AMOUNT" /\ total = 0 -> [i \in I |-> 0]
       [] OTHER -> [i \in I |-> share(i) + IF i \in eligible THEN centsLeft(left, Cardinality(eligible), placeOf(lines, eligible, i)) ELSE 0]

\* What a line gives back of an excess, after the lines before it did.
takenBack(excess, before, discount) == Least(Most(excess - before, 0), discount)

\* What is missing to the least payment comes off the highest discounts first.
withMinimumPayment(discounts, lines) ==
  LET I == DOMAIN lines
      taken == AddUp(discounts)
      excess == Least(taken, MINIMUM_PAYMENT - (AddUp(lines) - taken))
      before(i) == AddUp([j \in I |-> IF comesFirst(discounts, j, i) THEN discounts[j] ELSE 0])
  IN [i \in I |-> discounts[i] - takenBack(excess, before(i), discounts[i])]

takenBy(p, lines) == AddUp(withMinimumPayment(discountsOf(p, lines), lines))

beats(p, taken, q, other) == taken > other \/ (taken = other /\ p.start < q.start)

\* The offers one after another, each against the best so far.
bestDiscount(ps, lines) ==
  LET better(best, p) ==
        IF /\ p.minimum <= AddUp(lines) /\ takenBy(p, lines) > 0
           /\ best = NoOffer \/ beats(p, takenBy(p, lines), best, takenBy(best, lines))
        THEN p ELSE best
  IN FoldLeft(better, NoOffer, ps)

-----------------------------------------------------------------------------
(* The totals of an order. *)

\* Half a cent up.
containedTax(amount) ==
  LET numerator == amount * TaxRate  denominator == 10000 + TaxRate IN
  (numerator \div denominator) + IF 2 * (numerator % denominator) >= denominator THEN 1 ELSE 0

isFree(subtotal, discount) == subtotal - discount >= FreeShippingThreshold
charge(subtotal, discount) == IF isFree(subtotal, discount) THEN 0 ELSE FlatFee

orderTotals(lines, discounts) ==
  LET subtotal == AddUp(lines)  discount == AddUp(discounts)  cost == charge(subtotal, discount) IN
  [subtotal |-> subtotal, discountTotal |-> discount, shippingCost |-> cost,
   taxTotal |-> AddUp([i \in DOMAIN lines |-> containedTax(lines[i] - discounts[i])]) + containedTax(cost),
   grandTotal |-> subtotal + cost - discount]

-----------------------------------------------------------------------------
DiscountsInit == basket = <<>> /\ offers = <<>> /\ assessed = NotYet

putLine(total) ==
  /\ assessed = NotYet /\ Len(basket) < MaxLines /\ basket' = Append(basket, total) /\ UNCHANGED <<offers, assessed>>

offer(p) ==
  /\ assessed = NotYet /\ p \notin Range(offers) /\ Len(offers) < 2 /\ offers' = Append(offers, p)
  /\ UNCHANGED <<basket, assessed>>

\* assess: the promotion of the order, its discounts and its totals.
assessBasket ==
  /\ assessed = NotYet /\ basket # <<>>
  /\ LET best == bestDiscount(offers, basket)
         discounts == IF best = NoOffer THEN [i \in DOMAIN basket |-> 0] ELSE withMinimumPayment(discountsOf(best, basket), basket)
     IN assessed' = [offer |-> best, discounts |-> discounts, totals |-> orderTotals(basket, discounts)]
  /\ UNCHANGED <<basket, offers>>

DiscountsNext == (\E total \in LineTotals : putLine(total)) \/ (\E p \in Offers : offer(p)) \/ assessBasket
DiscountsSpec == DiscountsInit /\ [][DiscountsNext]_discountVars

-----------------------------------------------------------------------------
(* Properties. *)

Done == assessed # NotYet
EligibleTotal(p) == AddUp([i \in DOMAIN basket |-> IF appliesTo(p, i) THEN basket[i] ELSE 0])

\* An amount is taken off to the last cent whatever the lines, or all they cost, and no line gets more than a cent
\* above its share; a percentage is within half a cent of it by line.  Lines that are not eligible pay in full
\* (discountsOf).
SharesAddUp ==
  \A n \in 1..Len(offers) :
    LET p == offers[n]  shares == discountsOf(p, basket) IN
    /\ p.type = "AMOUNT" => AddUp(shares) = Least(p.value, EligibleTotal(p))
    /\ \A i \in DOMAIN basket :
         /\ shares[i] \in 0..basket[i]
         /\ IF ~appliesTo(p, i) THEN shares[i] = 0
            ELSE IF p.type = "PERCENTAGE" THEN 2 * (100 * shares[i] - basket[i] * p.value) \in -100..100
            ELSE (shares[i] - 1) * EligibleTotal(p) <= Least(p.value, EligibleTotal(p)) * basket[i]

\* What is left to pay for the products is never below the least payment, or below what they cost if that is less,
\* and no more is taken back than that needs (withMinimumPayment).
PaysTheLeast ==
  Done => /\ \A i \in DOMAIN basket : assessed.discounts[i] \in 0..basket[i]
          /\ LET subtotal == AddUp(basket)
                 full == IF assessed.offer = NoOffer THEN 0 ELSE AddUp(discountsOf(assessed.offer, basket))
             IN AddUp(assessed.discounts) = Most(0, Least(full, subtotal - MINIMUM_PAYMENT))

\* No other promotion of the moment whose minimum the basket reaches would have taken off more, or as much having
\* started first (bestDiscount).
BestOffer ==
  Done => \A n \in 1..Len(offers) :
            LET p == offers[n]  taken == takenBy(p, basket)  got == AddUp(assessed.discounts) IN
            p.minimum <= AddUp(basket) /\ taken > 0 => taken < got \/ (taken = got /\ assessed.offer.start <= p.start)

\* The total is what the lines cost after their discounts, with shipping unless what is left of them reaches the
\* threshold; the VAT told is within half a cent, by line and for the shipping, of the one in the total.
TotalsAgree ==
  Done => LET t == assessed.totals  products == t.subtotal - t.discountTotal IN
          /\ t.grandTotal = AddUp([i \in DOMAIN basket |-> basket[i] - assessed.discounts[i]]) + t.shippingCost
          /\ t.shippingCost = IF products >= FreeShippingThreshold THEN 0 ELSE FlatFee
          /\ LET error == 2 * ((10000 + TaxRate) * t.taxTotal - TaxRate * t.grandTotal)
                 bound == (Len(basket) + 1) * (10000 + TaxRate)
             IN -bound <= error /\ error <= bound

\* The cents of a basket add up, from the share of each line to the total with its tax (assess, totals).
CentsAddUp == SharesAddUp /\ PaysTheLeast /\ BestOffer /\ TotalsAgree
=============================================================================
