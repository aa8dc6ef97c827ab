----------------------------- MODULE Promotions -----------------------------
(***************************************************************************)
(* A coupon of src/modules/promotions, the staff who edit and end it, and  *)
(* the orders that use it.  The staff reads the coupon without a lock and  *)
(* saves it by version.  A checkout reads it too, works out the discount,  *)
(* and counts its use later, with the row of the coupon locked until the   *)
(* order commits: the count does not change the version.                   *)
(***************************************************************************)
EXTENDS Naturals, FiniteSets

CONSTANTS
  CouponOrders,
  Emails,           \* normalized contact emails
  Editors,          \* requests of the staff
  Limits,           \* usage limits the staff may set
  MaxPromoTime,     \* bound: instants 0..MaxPromoTime
  MaxPromoEdits     \* bound: requests of the staff

ASSUME PromotionsAssumption ==
  Emails # {} /\ Limits \subseteq Nat \ {0} /\ MaxPromoTime \in Nat /\ MaxPromoEdits \in Nat

Never == MaxPromoTime + 1
PromoTimes == 0..MaxPromoTime
Discounts2 == {1, 2}       \* the terms that are locked once it starts
Terms == [discount : Discounts2, startsAt : PromoTimes, endsAt : 1..Never, usageLimit : Limits]

VARIABLES
  coupon,      \* its terms, whether the staff ended it, and its uses
  promoClock,
  promoEditing,     \* what each request of the staff read and will save, and whether the version it read is current
  buying,      \* how far each order is, its contact, and whether it was paid late
  promoEdits,       \* requests of the staff so far
  undercut     \* history: a limit was saved below the uses of then

promoVars == <<coupon, promoClock, promoEditing, buying, promoEdits, undercut>>

Idle == [kind |-> "idle"]

PromotionsInit ==
  /\ coupon \in [terms : {t \in Terms : t.discount = 1 /\ t.startsAt = 1 /\ t.endsAt = Never}, ended : {FALSE}, uses : {0}]
  /\ promoClock = 0 /\ undercut = FALSE /\ promoEdits = 0
  /\ promoEditing = [s \in Editors |-> Idle]
  /\ buying = [o \in CouponOrders |-> [status |-> "NEW", email |-> CHOOSE e \in Emails : TRUE, late |-> FALSE]]

promotionStatus(c, at) ==
  IF c.ended \/ c.terms.endsAt <= at THEN "ENDED" ELSE IF at < c.terms.startsAt THEN "SCHEDULED" ELSE "ACTIVE"

-----------------------------------------------------------------------------
(* The staff. *)

lockedOnceStarted(before, after) == before.discount = after.discount /\ before.startsAt = after.startsAt

\* A past start of a scheduled one moves to now.
nextTerms(c, t, at) ==
  IF promotionStatus(c, at) = "SCHEDULED" /\ t.startsAt < at THEN [t EXCEPT !.startsAt = at] ELSE t

editAllowed(c, t, at) ==
  /\ promotionStatus(c, at) # "ENDED"
  /\ t.endsAt > t.startsAt /\ t.usageLimit >= c.uses
  /\ promotionStatus(c, at) = "ACTIVE" => lockedOnceStarted(c.terms, t) /\ t.endsAt > at

Asked(s) == promoEditing[s] = Idle /\ promoEdits < MaxPromoEdits /\ promoEdits' = promoEdits + 1

\* UpdatePromotion reads the coupon and checks the change at this time ...
edit(s, t) ==
  /\ Asked(s)
  /\ LET next == nextTerms(coupon, t, promoClock) IN
     /\ editAllowed(coupon, next, promoClock) /\ next # coupon.terms
     /\ promoEditing' = [promoEditing EXCEPT ![s] = [kind |-> "save", current |-> TRUE, terms |-> next, ended |-> FALSE, at |-> promoClock]]
  /\ UNCHANGED <<coupon, promoClock, buying, undercut>>

\* ... and so does EndPromotion.
end(s) ==
  /\ Asked(s) /\ promotionStatus(coupon, promoClock) # "ENDED"
  /\ promoEditing' = [promoEditing EXCEPT ![s] = [kind |-> "save", current |-> TRUE, terms |-> coupon.terms, ended |-> TRUE, at |-> promoClock]]
  /\ UNCHANGED <<coupon, promoClock, buying, undercut>>

\* Mutant: the end of the coupon is no conflict.
sameVersionEnded(s) == promoEditing[s].current \/ coupon.ended
sameVersion(s) == promoEditing[s].current

\* save, if nobody else did since; the uses are not written.
savePromotion(s) ==
  /\ promoEditing[s] # Idle
  /\ IF sameVersion(s)
     THEN /\ coupon' = [coupon EXCEPT !.terms = promoEditing[s].terms, !.ended = promoEditing[s].ended]
          /\ undercut' = (undercut \/ promoEditing[s].terms.usageLimit < coupon.uses)
     ELSE UNCHANGED <<coupon, undercut>>
  /\ promoEditing' = [r \in Editors |-> CASE r = s -> Idle
                                    [] r # s /\ promoEditing[r] # Idle /\ sameVersion(s) -> [promoEditing[r] EXCEPT !.current = FALSE]
                                    [] OTHER -> promoEditing[r]]
  /\ UNCHANGED <<promoClock, buying, promoEdits>>

-----------------------------------------------------------------------------
(* The orders. *)

HasOrder(o) == buying[o].status = "LIVE"
usedCoupon(o) == \E p \in CouponOrders \ {o} : buying[p].email = buying[o].email /\ HasOrder(p)
Go(o, status) == buying' = [buying EXCEPT ![o].status = status]

\* couponFor: active, and with uses left.
assess(o, email) ==
  /\ buying[o].status = "NEW"
  /\ promotionStatus(coupon, promoClock) = "ACTIVE" /\ coupon.uses < coupon.terms.usageLimit
  /\ buying' = [buying EXCEPT ![o] = [status |-> "ASSESSED", email |-> email, late |-> FALSE]]
  /\ UNCHANGED <<coupon, promoClock, promoEditing, promoEdits, undercut>>

\* Mutants: the limit is not looked at again; once per customer is left to the quote.
hasUseLeftBlindly == TRUE
hasUseLeft == coupon.uses < coupon.terms.usageLimit
assertCouponUnusedNot(o) == TRUE
assertCouponUnused(o) == ~usedCoupon(o)

\* useCoupon counts the use and then, with the row locked, looks for another order of the customer; then the order is
\* inserted.  A refusal, here or of the stock, undoes the count.
useCoupon(o) ==
  /\ buying[o].status = "ASSESSED"
  /\ \/ /\ hasUseLeft /\ assertCouponUnused(o)
        /\ coupon' = [coupon EXCEPT !.uses = @ + 1] /\ Go(o, "LIVE")
     \/ Go(o, "NEW") /\ UNCHANGED coupon
  /\ UNCHANGED <<promoClock, promoEditing, promoEdits, undercut>>

removeUse(c) == IF c.uses > 0 THEN [c EXCEPT !.uses = @ - 1] ELSE c

\* release: the order expires, or is cancelled for good.
release(o, status) ==
  /\ HasOrder(o) /\ Go(o, status) /\ coupon' = removeUse(coupon)
  /\ UNCHANGED <<promoClock, promoEditing, promoEdits, undercut>>

\* recount: a late payment, past any limit.
recount(o) ==
  /\ buying[o].status = "EXPIRED"
  /\ buying' = [buying EXCEPT ![o].status = "LIVE", ![o].late = TRUE] /\ coupon' = [coupon EXCEPT !.uses = @ + 1]
  /\ UNCHANGED <<promoClock, promoEditing, promoEdits, undercut>>

PromoTick == promoClock < MaxPromoTime /\ promoClock' = promoClock + 1 /\ UNCHANGED <<coupon, promoEditing, buying, promoEdits, undercut>>

PromotionsNext ==
  \/ \E s \in Editors : (\E t \in Terms : edit(s, t)) \/ end(s) \/ savePromotion(s)
  \/ \E o \in CouponOrders : (\E email \in Emails : assess(o, email)) \/ useCoupon(o) \/ release(o, "EXPIRED") \/ release(o, "CANCELLED") \/ recount(o)
  \/ PromoTick
PromotionsSpec == PromotionsInit /\ [][PromotionsNext]_promoVars

-----------------------------------------------------------------------------
(* Properties. *)

Live == {o \in CouponOrders : HasOrder(o)}
Late == {o \in Live : buying[o].late}

\* The uses are the orders that hold one, and pass the limit only by orders paid late, or after the staff saved a
\* limit while a use was being counted (BR-PRM-12).
UsesAreOrders ==
  /\ coupon.uses = Cardinality(Live)
  /\ undercut \/ coupon.uses <= coupon.terms.usageLimit + Cardinality(Late)

\* Two orders of a customer never both have a coupon of once per customer, however their checkouts interleave, except
\* when one had expired and was paid late.
OncePerCustomer == \A o, p \in Live : buying[o].email = buying[p].email => o = p \/ Late \cap {o, p} # {}

\* A coupon the staff ended stays as it was: no edit that began before brings it back or changes it.
EndedIsFinal == [][coupon.ended => coupon'.ended /\ coupon'.terms = coupon.terms]_promoVars

\* Once the coupon started, its discount stays as the orders saw it: only an edit that began before the start, and is
\* saved after it, still changes it.
StartedKeepsDiscount ==
  [][promoClock >= coupon.terms.startsAt /\ coupon'.terms.discount # coupon.terms.discount =>
       \E s \in Editors : promoEditing[s] # Idle /\ promoEditing'[s] = Idle /\ promoEditing[s].at < coupon.terms.startsAt]_promoVars

\* The uses of a coupon are its orders, within its limits, and its terms are those its orders saw.
CouponsHold == [](UsesAreOrders /\ OncePerCustomer) /\ EndedIsFinal /\ StartedKeepsDiscount
=============================================================================
