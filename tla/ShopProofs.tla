----------------------------- MODULE ShopProofs -----------------------------
(***************************************************************************)
(* Proofs about what sells: coupons, carts, checkouts and discounts.       *)
(***************************************************************************)
EXTENDS Promotions, Shopping, Checkout, Discounts, Pricing, Folding, SequenceTheorems

-----------------------------------------------------------------------------
(* Coupons: the inductive invariant.                                       *)

Coupon == [terms : Terms, ended : BOOLEAN, uses : Nat]
EditRequest == [kind : {"save"}, current : BOOLEAN, terms : Terms, ended : BOOLEAN, at : PromoTimes]
CouponUse == [status : {"NEW", "ASSESSED", "LIVE", "EXPIRED", "CANCELLED"}, email : Emails, late : BOOLEAN]

PromoTypes ==
  /\ coupon \in Coupon /\ promoClock \in PromoTimes /\ undercut \in BOOLEAN /\ promoEdits \in Nat
  /\ promoEditing \in [Editors -> {Idle} \cup EditRequest]
  /\ buying \in [CouponOrders -> CouponUse]

\* A request whose version is current read this coupon: not ended, and with the discount it keeps or not started then.
ReadCurrent ==
  \A s \in Editors : promoEditing[s] # Idle /\ promoEditing[s].current =>
    /\ ~coupon.ended
    /\ promoEditing[s].terms.discount = coupon.terms.discount \/ promoEditing[s].at < coupon.terms.startsAt

\* An order is late only after it expired, and the orders with a use are counted.
LateExpired == \A o \in CouponOrders : buying[o].status \in {"NEW", "ASSESSED"} => ~buying[o].late
UsesCounted == IsFiniteSet(Live) /\ coupon.uses = Cardinality(Live)
WithinLimit == undercut \/ coupon.uses <= coupon.terms.usageLimit + Cardinality(Late)

PromoInv == PromoTypes /\ ReadCurrent /\ LateExpired /\ UsesCounted /\ WithinLimit /\ OncePerCustomer

\* The terms of a promotion are numbers.
LEMMA TermsFields ==
  ASSUME NEW t \in Terms
  PROVE  t.usageLimit \in Nat /\ t.startsAt \in Nat /\ t.endsAt \in Nat /\ t.startsAt \in PromoTimes
<1>1. t.usageLimit \in Limits /\ t.startsAt \in PromoTimes /\ t.endsAt \in 1..Never
  BY DEF Terms
<1>2. Limits \subseteq Nat /\ MaxPromoTime \in Nat
  BY PromotionsAssumption
<1>3. t.usageLimit \in Nat
  BY <1>1, <1>2
<1>4. t.startsAt \in Nat
  BY <1>1, <1>2 DEF PromoTimes
<1>5. t.endsAt \in Nat
  BY <1>1, <1>2 DEF Never
<1> QED
  BY <1>1, <1>3, <1>4, <1>5

\* The orders of before, with one more or one less.
LEMMA LiveFollows ==
  ASSUME PromoInv, NEW o \in CouponOrders, NEW new \in CouponUse, buying' = [buying EXCEPT ![o] = new]
  PROVE  /\ buying' \in [CouponOrders -> CouponUse]
         /\ Live' = IF new.status = "LIVE" THEN Live \cup {o} ELSE Live \ {o}
         /\ Late' = IF new.status = "LIVE" /\ new.late THEN Late \cup {o} ELSE Late \ {o}
         /\ IsFiniteSet(Late) /\ Late \subseteq Live
<1>1. buying' \in [CouponOrders -> CouponUse] /\ buying'[o] = new /\ \A p \in CouponOrders \ {o} : buying'[p] = buying[p]
  BY DEF PromoInv, PromoTypes
<1>2. Live' = {p \in CouponOrders : buying'[p].status = "LIVE"} /\ Live = {p \in CouponOrders : buying[p].status = "LIVE"}
  BY DEF Live, HasOrder
<1>3. Late' = {p \in Live' : buying'[p].late} /\ Late = {p \in Live : buying[p].late}
  BY DEF Late
<1>4. IsFiniteSet(Late) /\ Late \subseteq Live
  BY <1>3, FS_Subset DEF PromoInv, UsesCounted
<1>5. Live' = IF new.status = "LIVE" THEN Live \cup {o} ELSE Live \ {o}
  BY <1>1, <1>2
<1>6. Late' = IF new.status = "LIVE" /\ new.late THEN Late \cup {o} ELSE Late \ {o}
  BY <1>1, <1>3, <1>5
<1> QED
  BY <1>1, <1>4, <1>5, <1>6

\* The uses follow an order that gets one or gives one back.
LEMMA UseFollows ==
  ASSUME PromoInv, NEW o \in CouponOrders, NEW new \in CouponUse, buying' = [buying EXCEPT ![o] = new], NEW uses \in Nat,
         coupon' = [coupon EXCEPT !.uses = uses], UNCHANGED <<promoClock, promoEditing, promoEdits, undercut>>,
         new.status \in {"NEW", "ASSESSED"} => ~new.late,
         \/ new.status = "LIVE" /\ buying[o].status # "LIVE" /\ uses = coupon.uses + 1
         \/ new.status # "LIVE" /\ buying[o].status = "LIVE" /\ uses = coupon.uses - 1
         \/ new.status # "LIVE" /\ buying[o].status # "LIVE" /\ uses = coupon.uses,
         new.status = "LIVE" => new.late \/ /\ coupon.uses < coupon.terms.usageLimit
                                            /\ \A p \in Live : buying[p].email # new.email
  PROVE  PromoInv'
<1>1. /\ coupon \in Coupon /\ coupon.terms \in Terms /\ coupon.uses \in Nat /\ undercut \in BOOLEAN
      /\ promoEditing \in [Editors -> {Idle} \cup EditRequest] /\ buying \in [CouponOrders -> CouponUse]
  BY DEF PromoInv, PromoTypes, Coupon
<1>2. coupon' \in Coupon /\ coupon'.terms = coupon.terms /\ coupon'.ended = coupon.ended /\ coupon'.uses = uses
  BY <1>1 DEF Coupon
<1>3. /\ buying' \in [CouponOrders -> CouponUse]
      /\ Live' = IF new.status = "LIVE" THEN Live \cup {o} ELSE Live \ {o}
      /\ Late' = IF new.status = "LIVE" /\ new.late THEN Late \cup {o} ELSE Late \ {o}
      /\ IsFiniteSet(Late) /\ Late \subseteq Live
  BY LiveFollows
<1>4. buying'[o] = new /\ \A p \in CouponOrders \ {o} : buying'[p] = buying[p]
  BY <1>1
<1>5. PromoTypes'
  BY <1>2, <1>3 DEF PromoInv, PromoTypes
<1>6. ReadCurrent'
  BY <1>2 DEF PromoInv, ReadCurrent
<1>7. LateExpired'
  BY <1>4 DEF PromoInv, LateExpired
<1>8. IsFiniteSet(Live) /\ coupon.uses = Cardinality(Live) /\ (o \in Live <=> buying[o].status = "LIVE")
  BY DEF PromoInv, UsesCounted, Live, HasOrder
<1>9. UsesCounted'
  <2>1. CASE new.status = "LIVE"
    BY <1>3, <1>8, <2>1, FS_AddElement, <1>2 DEF UsesCounted
  <2>2. CASE new.status # "LIVE"
    BY <1>3, <2>2, <1>8, FS_RemoveElement, <1>2 DEF UsesCounted
  <2> QED
    BY <2>1, <2>2
<1>10. Cardinality(Late) \in Nat /\ coupon.terms.usageLimit \in Nat
  BY <1>1, <1>3, FS_CardinalityType, TermsFields
<1>11. ASSUME ~undercut
       PROVE  coupon'.uses <= coupon'.terms.usageLimit + Cardinality(Late')
  <2>0. coupon.uses <= coupon.terms.usageLimit + Cardinality(Late)
    BY <1>11 DEF PromoInv, WithinLimit
  <2>1. CASE new.status = "LIVE" /\ new.late
    <3>1. Late' = Late \cup {o} /\ o \notin Late
      BY <1>3, <1>8, <2>1
    <3>2. Cardinality(Late') = Cardinality(Late) + 1
      BY <1>3, <3>1, FS_AddElement
    <3>3. uses = coupon.uses + 1
      BY <2>1
    <3> QED
      BY <1>1, <1>2, <1>10, <2>0, <3>2, <3>3
  <2>2. CASE new.status = "LIVE" /\ ~new.late
    <3>1. Late' = Late \ {o} /\ o \notin Late
      BY <1>3, <1>8, <2>2
    <3>2. Late' = Late
      BY <3>1
    <3>3. uses = coupon.uses + 1 /\ coupon.uses < coupon.terms.usageLimit
      BY <2>2
    <3> QED
      BY <1>1, <1>2, <1>10, <3>2, <3>3
  <2>3. CASE new.status # "LIVE"
    <3>1. Late' = Late \ {o}
      BY <1>3, <2>3
    <3>2. Cardinality(Late') = IF o \in Late THEN Cardinality(Late) - 1 ELSE Cardinality(Late)
      BY <1>3, <3>1, FS_RemoveElement
    <3>3. CASE o \in Late
      <4>1. uses = coupon.uses - 1
        BY <1>3, <1>8, <2>3, <3>3
      <4> QED
        BY <1>1, <1>2, <1>10, <2>0, <3>2, <3>3, <4>1
    <3>4. CASE o \notin Late
      BY <1>1, <2>3, <1>2, <1>10, <2>0, <3>2, <3>4
    <3> QED
      BY <3>3, <3>4
  <2> QED
    BY <2>1, <2>2, <2>3
<1>12. WithinLimit'
  BY <1>1, <1>11 DEF WithinLimit
<1>13. OncePerCustomer'
  <2>1. ASSUME NEW p \in Live', NEW q \in Live', buying'[p].email = buying'[q].email, p # q
        PROVE  Late' \cap {p, q} # {}
    <3>1. CASE p # o /\ q # o
      BY <1>3, <1>4, <2>1, <3>1 DEF Live, PromoInv, OncePerCustomer
    <3>2. CASE p = o \/ q = o
      <4>1. new.status = "LIVE"
        BY <1>3, <3>2
      <4>2. CASE new.late
        BY <1>3, <3>2, <4>1, <4>2
      <4>3. CASE ~new.late
        BY <4>1, <4>3, <1>3, <1>4, <2>1, <3>2 DEF Live
      <4> QED
        BY <4>2, <4>3
    <3> QED
      BY <3>1, <3>2
  <2> QED
    BY <2>1 DEF OncePerCustomer
<1> QED
  BY <1>5, <1>6, <1>7, <1>9, <1>12, <1>13 DEF PromoInv

\* What a step leaves of a coupon that ended, and of the discount of one that started.
EndedStays == coupon.ended => coupon'.ended /\ coupon'.terms = coupon.terms
DiscountStays ==
  promoClock >= coupon.terms.startsAt /\ coupon'.terms.discount # coupon.terms.discount =>
    \E s \in Editors : promoEditing[s] # Idle /\ promoEditing'[s] = Idle /\ promoEditing[s].at < coupon.terms.startsAt
PromoDoes == PromoInv' /\ EndedStays /\ DiscountStays

\* An order that counts, uses, releases or counts again a coupon does what the invariant needs.
LEMMA OrderUses ==
  ASSUME PromoInv, NEW o \in CouponOrders,
         \/ \E email \in Emails : assess(o, email)
         \/ useCoupon(o)
         \/ \E status \in {"EXPIRED", "CANCELLED"} : release(o, status)
         \/ recount(o)
  PROVE  PromoDoes
<1> DEFINE b == buying[o]
<1>1. /\ coupon \in Coupon /\ coupon.uses \in Nat /\ buying \in [CouponOrders -> CouponUse] /\ b \in CouponUse
      /\ b.status \in {"NEW", "ASSESSED"} => ~b.late
  BY DEF PromoInv, PromoTypes, Coupon, LateExpired
<1>2. coupon = [coupon EXCEPT !.uses = coupon.uses]
  BY <1>1 DEF Coupon
<1>3. ASSUME NEW uses \in Nat, coupon' = [coupon EXCEPT !.uses = uses]
      PROVE  EndedStays /\ DiscountStays
  BY <1>1, <1>3 DEF Coupon, EndedStays, DiscountStays
<1>4. ASSUME NEW email \in Emails, assess(o, email)
      PROVE  PromoDoes
  <2> DEFINE new == [status |-> "ASSESSED", email |-> email, late |-> FALSE]
  <2>1. new \in CouponUse /\ new.status = "ASSESSED" /\ new.late = FALSE
    BY DEF CouponUse
  <2>2. /\ buying' = [buying EXCEPT ![o] = new] /\ b.status # "LIVE" /\ coupon' = [coupon EXCEPT !.uses = coupon.uses]
        /\ UNCHANGED <<promoClock, promoEditing, promoEdits, undercut>>
    BY <1>2, <1>4 DEF assess
  <2> HIDE DEF new
  <2> QED
    BY <1>1, <1>3, <2>1, <2>2, UseFollows DEF PromoDoes
<1>5. CASE useCoupon(o)
  <2>1. b.status = "ASSESSED" /\ UNCHANGED <<promoClock, promoEditing, promoEdits, undercut>>
    BY <1>5 DEF useCoupon
  <2>2. CASE hasUseLeft /\ assertCouponUnused(o) /\ coupon' = [coupon EXCEPT !.uses = @ + 1] /\ Go(o, "LIVE")
    <3> DEFINE new == [b EXCEPT !.status = "LIVE"]
    <3>1. new \in CouponUse /\ new.status = "LIVE" /\ new.email = b.email /\ new.late = b.late
      BY <1>1 DEF CouponUse
    <3>2. buying' = [buying EXCEPT ![o] = new] /\ coupon' = [coupon EXCEPT !.uses = coupon.uses + 1] /\ coupon.uses + 1 \in Nat
      BY <1>1, <2>2 DEF Go, Coupon
    <3>3. coupon.uses < coupon.terms.usageLimit /\ \A p \in Live : buying[p].email # new.email
      BY <2>1, <2>2, <3>1 DEF hasUseLeft, assertCouponUnused, usedCoupon, HasOrder, Live
    <3> HIDE DEF new
    <3> QED
      BY <1>3, <2>1, <3>1, <3>2, <3>3, UseFollows DEF PromoDoes
  <2>3. CASE Go(o, "NEW") /\ UNCHANGED coupon
    <3> DEFINE new == [b EXCEPT !.status = "NEW"]
    <3>1. new \in CouponUse /\ new.status = "NEW" /\ new.late = b.late
      BY <1>1 DEF CouponUse
    <3>2. buying' = [buying EXCEPT ![o] = new] /\ coupon' = [coupon EXCEPT !.uses = coupon.uses]
      BY <1>2, <2>3 DEF Go
    <3> HIDE DEF new
    <3> QED
      BY <1>1, <1>3, <2>1, <3>1, <3>2, UseFollows DEF PromoDoes
  <2> QED
    BY <1>5, <2>2, <2>3 DEF useCoupon
<1>6. ASSUME NEW status \in {"EXPIRED", "CANCELLED"}, release(o, status)
      PROVE  PromoDoes
  <2> DEFINE new == [b EXCEPT !.status = status]
  <2>1. new \in CouponUse /\ new.status = status
    BY <1>1 DEF CouponUse
  <2>2. b.status = "LIVE" /\ buying' = [buying EXCEPT ![o] = new] /\ UNCHANGED <<promoClock, promoEditing, promoEdits, undercut>>
    BY <1>6 DEF release, Go, HasOrder
  <2>3. coupon.uses > 0
    BY <2>2, FS_EmptySet, <1>1 DEF Live, HasOrder, PromoInv, UsesCounted
  <2>4. coupon' = [coupon EXCEPT !.uses = coupon.uses - 1] /\ coupon.uses - 1 \in Nat
    BY <1>1, <1>6, <2>3 DEF release, removeUse, Coupon
  <2> HIDE DEF new
  <2> QED
    BY <1>3, <2>1, <2>2, <2>4, UseFollows DEF PromoDoes
<1>7. CASE recount(o)
  <2> DEFINE new == [b EXCEPT !.status = "LIVE", !.late = TRUE]
  <2>1. new \in CouponUse /\ new.status = "LIVE" /\ new.late = TRUE
    BY <1>1 DEF CouponUse
  <2>2. b.status = "EXPIRED" /\ buying' = [buying EXCEPT ![o] = new] /\ UNCHANGED <<promoClock, promoEditing, promoEdits, undercut>>
    BY <1>7 DEF recount
  <2>3. coupon' = [coupon EXCEPT !.uses = coupon.uses + 1] /\ coupon.uses + 1 \in Nat
    BY <1>1, <1>7 DEF recount, Coupon
  <2> HIDE DEF new
  <2> QED
    BY <1>3, <2>1, <2>2, <2>3, UseFollows DEF PromoDoes
<1> QED
  BY <1>4, <1>5, <1>6, <1>7

\* A request of the staff reads the coupon, and what it will save keeps the discount of one that started.
LEMMA EditReads ==
  ASSUME PromoInv, NEW s \in Editors, (\E t \in Terms : edit(s, t)) \/ end(s)
  PROVE  PromoDoes
<1>1. /\ coupon \in Coupon /\ coupon.terms \in Terms /\ promoClock \in PromoTimes /\ promoEdits \in Nat
      /\ promoEditing \in [Editors -> {Idle} \cup EditRequest]
  BY DEF PromoInv, PromoTypes, Coupon
<1>2. ASSUME NEW terms \in Terms, NEW ended \in BOOLEAN, promoEdits' = promoEdits + 1, UNCHANGED <<coupon, promoClock, buying, undercut>>,
             promoEditing' = [promoEditing EXCEPT ![s] =
               [kind |-> "save", current |-> TRUE, terms |-> terms, ended |-> ended, at |-> promoClock]],
             promotionStatus(coupon, promoClock) # "ENDED",
             terms.discount = coupon.terms.discount \/ promoClock < coupon.terms.startsAt
      PROVE  PromoDoes
  <2> DEFINE e == [kind |-> "save", current |-> TRUE, terms |-> terms, ended |-> ended, at |-> promoClock]
  <2>1. e \in EditRequest /\ e.terms = terms /\ e.at = promoClock
    BY <1>1 DEF EditRequest
  <2>2. promoEditing' = [promoEditing EXCEPT ![s] = e]
    BY <1>2
  <2> HIDE DEF e
  <2>3. promoEditing' \in [Editors -> {Idle} \cup EditRequest] /\ \A x \in Editors : promoEditing'[x] = IF x = s THEN e ELSE promoEditing[x]
    BY <1>1, <2>1, <2>2
  <2>4. ~coupon.ended
    BY <1>2 DEF promotionStatus
  <2>5. PromoTypes'
    BY <1>1, <1>2, <2>3 DEF PromoInv, PromoTypes
  <2>6. ReadCurrent'
    BY <1>2, <2>1, <2>3, <2>4 DEF PromoInv, ReadCurrent
  <2>7. Live' = Live /\ Late' = Late
    BY <1>2 DEF Live, Late, HasOrder
  <2>8. LateExpired' /\ UsesCounted' /\ WithinLimit' /\ OncePerCustomer'
    BY <1>2, <2>7 DEF PromoInv, LateExpired, UsesCounted, WithinLimit, OncePerCustomer
  <2> QED
    BY <1>2, <2>5, <2>6, <2>8 DEF PromoInv, PromoDoes, EndedStays, DiscountStays
<1>3. ASSUME NEW t \in Terms, edit(s, t)
      PROVE  PromoDoes
  <2> DEFINE next == nextTerms(coupon, t, promoClock)
  <2>1. next \in Terms
    BY <1>1 DEF nextTerms, Terms
  <2>2. promotionStatus(coupon, promoClock) # "ENDED" /\ (promotionStatus(coupon, promoClock) = "ACTIVE" => next.discount = coupon.terms.discount)
    BY <1>3 DEF edit, editAllowed, lockedOnceStarted
  <2>3. next.discount = coupon.terms.discount \/ promoClock < coupon.terms.startsAt
    BY <2>2 DEF promotionStatus
  <2>4. /\ promoEdits' = promoEdits + 1 /\ UNCHANGED <<coupon, promoClock, buying, undercut>>
        /\ promoEditing' = [promoEditing EXCEPT ![s] =
             [kind |-> "save", current |-> TRUE, terms |-> next, ended |-> FALSE, at |-> promoClock]]
    BY <1>3 DEF edit, Asked
  <2> HIDE DEF next
  <2> QED
    BY <1>2, <2>1, <2>2, <2>3, <2>4
<1>4. CASE end(s)
  BY <1>4, <1>1, <1>2 DEF end, Asked
<1> QED
  BY <1>3, <1>4

\* A request saves, by version; nobody else has a current version then.
LEMMA PromotionSaved ==
  ASSUME PromoInv, NEW s \in Editors, savePromotion(s)
  PROVE  PromoDoes
<1> DEFINE e == promoEditing[s]
<1>1. /\ coupon \in Coupon /\ undercut \in BOOLEAN /\ promoEditing \in [Editors -> {Idle} \cup EditRequest]
      /\ coupon.uses \in Nat /\ coupon.terms \in Terms
  BY DEF PromoInv, PromoTypes, Coupon
<1>2. /\ e # Idle /\ e \in EditRequest /\ e.terms \in Terms /\ e.ended \in BOOLEAN /\ e.current \in BOOLEAN
      /\ UNCHANGED <<promoClock, buying, promoEdits>>
  BY <1>1 DEF savePromotion, EditRequest
<1>3. \A x \in Editors : promoEditing'[x] =
        CASE x = s -> Idle
          [] x # s /\ promoEditing[x] # Idle /\ e.current -> [promoEditing[x] EXCEPT !.current = FALSE]
          [] OTHER -> promoEditing[x]
  BY DEF savePromotion, sameVersion
<1>4. promoEditing' = [x \in Editors |-> promoEditing'[x]]
  BY DEF savePromotion
<1>5. ASSUME NEW x \in Editors
      PROVE  /\ promoEditing'[x] \in {Idle} \cup EditRequest
             /\ promoEditing'[x] # Idle /\ promoEditing'[x].current => promoEditing'[x] = promoEditing[x] /\ ~e.current
  <2>1. CASE x = s
    BY <1>3, <2>1
  <2>2. CASE x # s /\ promoEditing[x] # Idle /\ e.current
    <3> DEFINE old == [promoEditing[x] EXCEPT !.current = FALSE]
    <3>1. promoEditing[x] \in EditRequest
      BY <1>1, <2>2
    <3>2. old \in EditRequest /\ old.current = FALSE
      BY <3>1 DEF EditRequest
    <3>3. promoEditing'[x] = old
      BY <1>3, <2>2
    <3> QED
      BY <3>2, <3>3
  <2>3. CASE x # s /\ ~(promoEditing[x] # Idle /\ e.current)
    BY <1>3, <2>3, <1>1
  <2> QED
    BY <2>1, <2>2, <2>3
<1>6. promoEditing' \in [Editors -> {Idle} \cup EditRequest] /\ promoEditing'[s] = Idle
  BY <1>3, <1>4, <1>5
<1>7. Live' = Live /\ Late' = Late
  BY <1>2 DEF Live, Late, HasOrder
<1>8. LateExpired' /\ OncePerCustomer'
  BY <1>2, <1>7 DEF PromoInv, LateExpired, OncePerCustomer
<1>9. CASE e.current
  <2>1. ~coupon.ended /\ (e.terms.discount = coupon.terms.discount \/ e.at < coupon.terms.startsAt)
    BY <1>2, <1>9 DEF PromoInv, ReadCurrent
  <2>2. coupon' = [coupon EXCEPT !.terms = e.terms, !.ended = e.ended] /\ undercut' = (undercut \/ e.terms.usageLimit < coupon.uses)
    BY <1>9 DEF savePromotion, sameVersion
  <2>3. coupon' \in Coupon /\ coupon'.terms = e.terms /\ coupon'.uses = coupon.uses
    BY <1>1, <1>2, <2>2 DEF Coupon
  <2>4. PromoTypes'
    BY <2>2, <1>2, <1>6, <2>3 DEF PromoInv, PromoTypes
  <2>5. ReadCurrent'
    BY <1>5, <1>9 DEF ReadCurrent
  <2>6. UsesCounted'
    BY <1>7, <2>3 DEF PromoInv, UsesCounted
  <2>7. WithinLimit'
    <3>1. CASE undercut'
      BY <3>1 DEF WithinLimit
    <3>2. CASE ~undercut'
      <4>1. ~(e.terms.usageLimit < coupon.uses)
        BY <2>2, <3>2
      <4>2. Late \subseteq Live /\ IsFiniteSet(Live)
        BY DEF Late, PromoInv, UsesCounted
      <4>3. Cardinality(Late) \in Nat /\ e.terms.usageLimit \in Nat
        BY <1>2, <4>2, FS_Subset, FS_CardinalityType, TermsFields
      <4>4. coupon.uses <= e.terms.usageLimit + Cardinality(Late)
        BY <1>1, <4>1, <4>3
      <4> QED
        BY <1>7, <2>3, <4>4 DEF WithinLimit
    <3> QED
      BY <3>1, <3>2
  <2>8. EndedStays
    BY <2>1 DEF EndedStays
  <2>9. DiscountStays
    BY <1>2, <1>6, <2>1, <2>3 DEF DiscountStays
  <2> QED
    BY <1>8, <2>4, <2>5, <2>6, <2>7, <2>8, <2>9 DEF PromoInv, PromoDoes
<1>10. CASE ~e.current
  <2>1. UNCHANGED <<coupon, undercut>>
    BY <1>10 DEF savePromotion, sameVersion
  <2>2. PromoTypes'
    BY <1>2, <1>6, <2>1 DEF PromoInv, PromoTypes
  <2>3. ReadCurrent'
    BY <1>5, <2>1 DEF PromoInv, ReadCurrent
  <2>4. UsesCounted' /\ WithinLimit'
    BY <1>7, <2>1 DEF PromoInv, UsesCounted, WithinLimit
  <2> QED
    BY <1>8, <2>1, <2>2, <2>3, <2>4 DEF PromoInv, PromoDoes, EndedStays, DiscountStays
<1> QED
  BY <1>2, <1>9, <1>10

\* Promotions start unused.
LEMMA PromoStarts == PromotionsInit => PromoInv
<1> SUFFICES ASSUME PromotionsInit PROVE PromoInv
  OBVIOUS
<1> DEFINE b == [status |-> "NEW", email |-> CHOOSE e \in Emails : TRUE, late |-> FALSE]
<1>1. b \in CouponUse /\ b.status = "NEW" /\ b.late = FALSE
  BY PromotionsAssumption DEF CouponUse
<1>2. /\ buying = [o \in CouponOrders |-> b] /\ promoEditing = [s \in Editors |-> Idle]
      /\ promoClock = 0 /\ undercut = FALSE /\ promoEdits = 0
  BY DEF PromotionsInit
<1>3. coupon \in Coupon /\ coupon.uses = 0 /\ coupon.terms \in Terms
  <2> DEFINE T == {t \in Terms : t.discount = 1 /\ t.startsAt = 1 /\ t.endsAt = Never}
  <2>1. coupon \in [terms : T, ended : {FALSE}, uses : {0}] /\ T \subseteq Terms
    BY DEF PromotionsInit
  <2> HIDE DEF T
  <2>2. coupon = [terms |-> coupon.terms, ended |-> coupon.ended, uses |-> coupon.uses]
    BY <2>1
  <2>3. coupon.terms \in T /\ coupon.ended = FALSE /\ coupon.uses = 0
    BY <2>1
  <2>4. coupon.terms \in Terms
    BY <2>1, <2>3
  <2>5. coupon.ended \in BOOLEAN
    BY <2>3
  <2>6. coupon.uses \in Nat
    BY <2>3
  <2>7. coupon \in Coupon
    BY <2>2, <2>4, <2>5, <2>6 DEF Coupon
  <2> QED
    BY <2>3, <2>4, <2>7
<1> HIDE DEF b
<1>4. 0 \in PromoTimes
  BY PromotionsAssumption DEF PromoTimes
<1>5. PromoTypes
  BY <1>1, <1>2, <1>3, <1>4 DEF PromoTypes
<1>6. Live = {} /\ Late = {}
  BY <1>1, <1>2 DEF Live, Late, HasOrder
<1>7. UsesCounted
  BY <1>3, <1>6, FS_EmptySet DEF UsesCounted
<1>8. WithinLimit
  BY <1>3, <1>6, FS_EmptySet, TermsFields DEF WithinLimit
<1>9. ReadCurrent /\ LateExpired /\ OncePerCustomer
  BY <1>1, <1>2, <1>6 DEF ReadCurrent, LateExpired, OncePerCustomer
<1> QED
  BY <1>5, <1>7, <1>8, <1>9 DEF PromoInv

\* Each step keeps the invariant, ended promotions ended, and discounts as they were.
LEMMA PromoStep == PromoInv /\ [PromotionsNext]_promoVars => PromoInv' /\ [EndedStays]_promoVars /\ [DiscountStays]_promoVars
<1> SUFFICES ASSUME PromoInv, [PromotionsNext]_promoVars PROVE PromoInv' /\ [EndedStays]_promoVars /\ [DiscountStays]_promoVars
  OBVIOUS
<1>1. CASE UNCHANGED promoVars
  <2>1. Live' = Live /\ Late' = Late
    BY <1>1 DEF promoVars, Live, Late, HasOrder
  <2> QED
    BY <1>1, <2>1 DEF promoVars, PromoInv, PromoTypes, ReadCurrent, LateExpired, UsesCounted, WithinLimit, OncePerCustomer
<1>2. CASE PromoTick
  <2>1. UNCHANGED <<coupon, promoEditing, buying, promoEdits, undercut>> /\ promoClock' \in PromoTimes
    BY <1>2, PromotionsAssumption DEF PromoTick, PromoInv, PromoTypes, PromoTimes
  <2>2. Live' = Live /\ Late' = Late
    BY <2>1 DEF Live, Late, HasOrder
  <2>3. PromoInv'
    BY <2>1, <2>2 DEF PromoInv, PromoTypes, ReadCurrent, LateExpired, UsesCounted, WithinLimit, OncePerCustomer
  <2> QED
    BY <2>1, <2>3 DEF EndedStays, DiscountStays
<1>3. ASSUME NEW s \in Editors, (\E t \in Terms : edit(s, t)) \/ end(s)
      PROVE  PromoDoes
  BY <1>3, EditReads
<1>4. ASSUME NEW s \in Editors, savePromotion(s)
      PROVE  PromoDoes
  BY <1>4, PromotionSaved
<1>5. ASSUME NEW o \in CouponOrders,
             \/ \E email \in Emails : assess(o, email)
             \/ useCoupon(o)
             \/ \E status \in {"EXPIRED", "CANCELLED"} : release(o, status)
             \/ recount(o)
      PROVE  PromoDoes
  BY <1>5, OrderUses
<1>6. ASSUME PromotionsNext, ~PromoTick
      PROVE  PromoDoes
  BY <1>3, <1>4, <1>5, <1>6 DEF PromotionsNext
<1> QED
  BY <1>1, <1>2, <1>6 DEF PromoDoes

\* For any number of orders, emails and requests of the staff: the uses of a coupon are its orders, past the limit only by
\* orders paid late or a limit saved meanwhile, once per customer; a coupon that ended stays as it was, and one that
\* started keeps its discount unless an edit began before (useCoupon, release, recount, UpdatePromotion, EndPromotion).
THEOREM CouponsAlwaysHold == PromotionsSpec => CouponsHold
<1>1. PromoInv => UsesAreOrders /\ OncePerCustomer
  BY DEF PromoInv, UsesCounted, WithinLimit, UsesAreOrders
<1>2. PromotionsSpec => [](UsesAreOrders /\ OncePerCustomer)
  BY <1>1, PromoStarts, PromoStep, PTL DEF PromotionsSpec
<1>3. PromotionsSpec => [][EndedStays]_promoVars /\ [][DiscountStays]_promoVars
  BY PromoStarts, PromoStep, PTL DEF PromotionsSpec
<1>4. [][EndedStays]_promoVars => EndedIsFinal
  BY PTL DEF EndedIsFinal, EndedStays
<1>5. [][DiscountStays]_promoVars => StartedKeepsDiscount
  BY PTL DEF StartedKeepsDiscount, DiscountStays
<1> QED
  BY <1>2, <1>3, <1>4, <1>5 DEF CouponsHold

-----------------------------------------------------------------------------
(* Carts: the inductive invariant.                                         *)

CartRow == [status : {"NONE", "ACTIVE", "CHECKED_OUT", "MERGED", "DELETED"}, owner : Owners,
            lines : CartLines, into : CartIds \cup {NoCart}]
ShopOrder == [status : {"NONE", "PENDING", "PAID", "EXPIRED", "CANCELLED"}, cart : CartIds \cup {NoCart}, owner : Owners,
              lines : CartLines, expired : BOOLEAN, usedSince : BOOLEAN, delivered : BOOLEAN, restored : Nat, reopened : BOOLEAN]

ShopTypes == carts \in [CartIds -> CartRow] /\ shopOrders \in [ShopOrders -> ShopOrder]

\* How far an order is: with a cart once it is placed, and with an event only once it expired.
OrderSound(x) ==
  /\ x.status = "NONE" <=> x.cart = NoCart
  /\ x.status \in {"NONE", "PENDING"} => ~x.expired
  /\ ~x.expired => ~x.usedSince /\ ~x.delivered /\ x.restored = 0
  /\ x.restored <= 1 /\ (x.restored = 1 => x.usedSince)

\* An order that may still give its lines back: its cart waits for it, and for no other, unless it is excused.
Awaits(x) == x.status = "PENDING" \/ (x.expired /\ ~x.usedSince)
Waiting ==
  \A o \in ShopOrders : LET x == shopOrders[o] IN
    Awaits(x) => (carts[x.cart].status = "CHECKED_OUT" /\ carts[x.cart].owner = x.owner) \/ Excused(x.cart)
OneAwaits ==
  \A o, p \in ShopOrders :
    Awaits(shopOrders[o]) /\ Awaits(shopOrders[p]) /\ shopOrders[o].cart = shopOrders[p].cart => o = p \/ Excused(shopOrders[o].cart)
UsedRestored ==
  \A o \in ShopOrders : LET x == shopOrders[o] IN
    /\ x.expired /\ x.usedSince /\ x.restored = 0 => Excused(x.cart)
    /\ x.delivered => x.usedSince \/ Excused(x.cart)
OneActive == \A b \in Buyers : \A c, d \in ActiveOf(b) : c = d

ShopInv ==
  /\ ShopTypes /\ (\A o \in ShopOrders : OrderSound(shopOrders[o])) /\ Waiting /\ OneAwaits /\ UsedRestored /\ OneActive

\* An excuse stays: orders keep their carts, and a deleted cart is never used again.
LEMMA ExcusesStay ==
  ASSUME \A o \in ShopOrders : /\ shopOrders'[o].cart = shopOrders[o].cart \/ shopOrders[o].cart = NoCart
                               /\ shopOrders[o].reopened => shopOrders'[o].reopened,
         \A c \in CartIds : carts[c].status = "DELETED" => carts'[c].status = "DELETED"
  PROVE  \A c \in CartIds : Excused(c) => Excused(c)'
<1> SUFFICES ASSUME NEW c \in CartIds, Excused(c) PROVE Excused(c)'
  OBVIOUS
<1>1. CASE carts[c].status = "DELETED"
  BY <1>1 DEF Excused
<1>2. CASE ReopenedUnder(c)
  BY ShoppingAssumption, <1>2 DEF CartIds, NoCart, Excused, ReopenedUnder
<1> QED
  BY <1>1, <1>2 DEF Excused

\* An order as it was, except that its cart was used now.
Kept(a, b, touched) ==
  /\ b \in ShopOrder /\ b.status = a.status /\ b.cart = a.cart /\ b.owner = a.owner /\ b.expired = a.expired
  /\ b.usedSince = (IF a.cart \in touched THEN a.expired ELSE a.usedSince)
  /\ b.delivered = a.delivered /\ b.restored = a.restored /\ (a.reopened => b.reopened)

\* An order keeps what is known of its cart when the cart is used again.
LEMMA UsedKeeps ==
  ASSUME NEW a \in ShopOrder, NEW touched
  PROVE  /\ Kept(a, IF a.cart \in touched THEN [a EXCEPT !.usedSince = a.expired] ELSE a, touched)
         /\ Kept(a, [IF a.cart \in touched THEN [a EXCEPT !.usedSince = a.expired] ELSE a EXCEPT !.reopened = TRUE], touched)
<1> DEFINE b == IF a.cart \in touched THEN [a EXCEPT !.usedSince = a.expired] ELSE a
<1>1. b \in ShopOrder /\ Kept(a, b, touched)
  BY DEF ShopOrder, Kept
<1> HIDE DEF b
<1>2. Kept(a, [b EXCEPT !.reopened = TRUE], touched)
  BY <1>1 DEF ShopOrder, Kept
<1> QED
  BY <1>1, <1>2 DEF b

\* Carts are used, and no order waits for one of them without an excuse.
LEMMA CartsUsed ==
  ASSUME ShopInv, NEW touched, carts' \in [CartIds -> CartRow], OneActive', shopOrders' \in [ShopOrders -> ShopOrder],
         \A o \in ShopOrders : Kept(shopOrders[o], shopOrders'[o], touched),
         \A c \in CartIds : carts[c].status = "DELETED" => carts'[c].status = "DELETED",
         \A o \in ShopOrders : Awaits(shopOrders[o]) =>
           LET c == shopOrders[o].cart IN
           \/ Excused(c)
           \/ Excused(c)'
           \/ c \notin touched /\ carts'[c].status = carts[c].status /\ carts'[c].owner = carts[c].owner
  PROVE  ShopInv'
<1>1. \A c \in CartIds : Excused(c) => Excused(c)'
  BY ExcusesStay DEF Kept
<1>2. ASSUME NEW o \in ShopOrders
      PROVE  /\ OrderSound(shopOrders[o]) /\ Kept(shopOrders[o], shopOrders'[o], touched) /\ shopOrders[o] \in ShopOrder
             /\ shopOrders'[o].cart = shopOrders[o].cart
             /\ Awaits(shopOrders[o]) \/ shopOrders[o].expired \/ shopOrders[o].delivered => shopOrders[o].cart \in CartIds
  BY DEF ShopInv, ShopTypes, OrderSound, Kept, Awaits, ShopOrder
<1>3. ASSUME NEW o \in ShopOrders
      PROVE  OrderSound(shopOrders'[o])
  BY <1>2 DEF OrderSound, Kept, ShopOrder
<1>4. ASSUME NEW o \in ShopOrders, Awaits(shopOrders'[o])
      PROVE  Awaits(shopOrders[o])
  BY <1>2, <1>4 DEF Awaits, Kept, ShopOrder, OrderSound
<1>5. Waiting'
  <2>1. ASSUME NEW o \in ShopOrders, Awaits(shopOrders'[o]), ~Excused(shopOrders[o].cart)'
        PROVE  carts'[shopOrders'[o].cart].status = "CHECKED_OUT" /\ carts'[shopOrders'[o].cart].owner = shopOrders'[o].owner
    <3> DEFINE c == shopOrders[o].cart
    <3>1. Awaits(shopOrders[o]) /\ c \in CartIds /\ shopOrders'[o].cart = c /\ shopOrders'[o].owner = shopOrders[o].owner
      BY <1>2, <1>4, <2>1 DEF Kept
    <3>2. ~Excused(c)' /\ ~Excused(c)
      BY <1>1, <2>1, <3>1 DEF Kept
    <3>3. carts[c].status = "CHECKED_OUT" /\ carts[c].owner = shopOrders[o].owner
      BY <3>1, <3>2 DEF ShopInv, Waiting
    <3>4. carts'[c].status = carts[c].status /\ carts'[c].owner = carts[c].owner
      BY <3>1, <3>2
    <3> QED
      BY <3>1, <3>3, <3>4
  <2> QED
    BY <2>1 DEF Waiting
<1>6. OneAwaits'
  <2>1. ASSUME NEW o \in ShopOrders, NEW p \in ShopOrders, Awaits(shopOrders'[o]), Awaits(shopOrders'[p]),
               shopOrders'[o].cart = shopOrders'[p].cart, o # p
        PROVE  Excused(shopOrders[o].cart)'
    BY <1>2, <1>4, <2>1, <1>1 DEF ShopInv, OneAwaits
  <2> QED
    BY <2>1 DEF OneAwaits
<1>7. UsedRestored'
  <2>1. ASSUME NEW o \in ShopOrders, shopOrders'[o].expired, shopOrders'[o].usedSince, shopOrders'[o].restored = 0
        PROVE  Excused(shopOrders[o].cart)'
    <3>1. PICK c \in CartIds : c = shopOrders[o].cart /\ c = shopOrders'[o].cart /\ shopOrders[o].expired /\ shopOrders[o].restored = 0
      BY <1>2, <2>1 DEF Kept
    <3>2. CASE shopOrders[o].usedSince
      BY <1>1, <3>1, <3>2 DEF ShopInv, UsedRestored
    <3>3. CASE ~shopOrders[o].usedSince
      BY <1>2, <2>1, <3>1, <3>3, <1>1 DEF Awaits, Kept, ShopOrder
    <3> QED
      BY <3>2, <3>3
  <2>2. ASSUME NEW o \in ShopOrders, shopOrders'[o].delivered, ~shopOrders'[o].usedSince
        PROVE  Excused(shopOrders[o].cart)'
    BY <1>2, <2>2, <1>1 DEF Kept, OrderSound, ShopOrder, ShopInv, UsedRestored
  <2> QED
    BY <2>1, <2>2 DEF UsedRestored
<1> QED
  BY <1>3, <1>5, <1>6, <1>7 DEF ShopInv, ShopTypes

-----------------------------------------------------------------------------
(* Lines, and carts that are used.                                         *)

\* Adding to lines and setting a quantity leave lines of a cart.
LEMMA LinesStay ==
  /\ NoLines \in CartLines
  /\ \A lines, items \in CartLines : addCapped(lines, items) \in CartLines
  /\ \A lines \in CartLines, v \in CartVariants, q \in Quantities : [lines EXCEPT ![v] = q] \in CartLines
<1>1. MAX_LINE_QUANTITY \in Nat
  BY ShoppingAssumption
<1>2. NoLines \in CartLines
  BY <1>1 DEF NoLines, CartLines, Quantities
<1>3. ASSUME NEW lines \in CartLines, NEW items \in CartLines
      PROVE  addCapped(lines, items) \in CartLines
  <2>1. ASSUME NEW v \in CartVariants
        PROVE  (IF lines[v] + items[v] > MAX_LINE_QUANTITY THEN MAX_LINE_QUANTITY ELSE lines[v] + items[v]) \in Quantities
    BY <1>1 DEF CartLines, Quantities
  <2> QED
    BY <2>1 DEF addCapped, CartLines
<1>4. \A lines \in CartLines, v \in CartVariants, q \in Quantities : [lines EXCEPT ![v] = q] \in CartLines
  BY DEF CartLines
<1> QED
  BY <1>2, <1>3, <1>4

\* What is still sold of an order are lines of a cart.
LEMMA SoldLines ==
  ASSUME ShopInv, NEW o \in ShopOrders, NEW sold
  PROVE  soldOf(o, sold) \in CartLines
<1>1. shopOrders[o].lines \in CartLines /\ 0 \in Quantities
  BY ShoppingAssumption DEF ShopInv, ShopTypes, ShopOrder, Quantities
<1> QED
  BY <1>1 DEF soldOf, CartLines

\* Saving a cart keeps what is known of the orders.
LEMMA SaveKeeps ==
  ASSUME ShopInv, NEW touched, shopOrders' = used(shopOrders, touched)
  PROVE  shopOrders' \in [ShopOrders -> ShopOrder] /\ \A o \in ShopOrders : Kept(shopOrders[o], shopOrders'[o], touched)
<1>1. shopOrders \in [ShopOrders -> ShopOrder]
  BY DEF ShopInv, ShopTypes
<1>2. ASSUME NEW o \in ShopOrders
      PROVE  Kept(shopOrders[o], shopOrders'[o], touched) /\ shopOrders'[o] \in ShopOrder
  <2> DEFINE a == shopOrders[o]
  <2>1. shopOrders'[o] = IF a.cart \in touched THEN [a EXCEPT !.usedSince = a.expired] ELSE a
    BY DEF used
  <2>2. a \in ShopOrder
    BY <1>1
  <2>3. Kept(a, shopOrders'[o], touched)
    BY <2>1, <2>2, UsedKeeps
  <2> QED
    BY <2>3 DEF Kept
<1>3. shopOrders' = [o \in ShopOrders |-> shopOrders'[o]]
  BY DEF used
<1> QED
  BY <1>2, <1>3

\* Carts that no order waits for are used, and the others stay as they were or are deleted.
LEMMA OpenUsed ==
  ASSUME ShopInv, NEW touched, NEW new \in [CartIds -> CartRow], saveCart(new, touched), OneActive',
         \A c \in CartIds : carts[c].status = "CHECKED_OUT" =>
           new[c].status = "DELETED" \/ (c \notin touched /\ new[c].status = carts[c].status /\ new[c].owner = carts[c].owner),
         \A c \in CartIds : carts[c].status = "DELETED" => new[c].status = "DELETED"
  PROVE  ShopInv'
<1>1. carts' = new /\ shopOrders' = used(shopOrders, touched)
  BY DEF saveCart
<1>2. ASSUME NEW o \in ShopOrders, Awaits(shopOrders[o]), ~Excused(shopOrders[o].cart)
      PROVE  LET c == shopOrders[o].cart IN
             Excused(c)' \/ (c \notin touched /\ carts'[c].status = carts[c].status /\ carts'[c].owner = carts[c].owner)
  <2>1. PICK c \in CartIds : c = shopOrders[o].cart
    BY <1>2 DEF ShopInv, ShopTypes, OrderSound, Awaits, ShopOrder
  <2>2. shopOrders'[o].cart = c
    BY <1>1, <2>1, SaveKeeps DEF Kept
  <2>3. carts[c].status = "CHECKED_OUT"
    BY <1>2, <2>1 DEF ShopInv, Waiting
  <2>4. CASE new[c].status = "DELETED"
    BY <1>1, <2>2, <2>4 DEF Excused
  <2>5. CASE new[c].status # "DELETED"
    BY <1>1, <2>1, <2>3, <2>5
  <2> QED
    BY <2>4, <2>5
<1> QED
  BY <1>1, <1>2, SaveKeeps, CartsUsed

\* A saved cart is the only active one of its owner.
LEMMA OneCartUsed ==
  ASSUME ShopInv, NEW c \in CartIds, NEW row \in CartRow, NEW touched \in SUBSET {c}, saveCart([carts EXCEPT ![c] = row], touched),
         carts[c].status \in {"NONE", "ACTIVE"}, row.status = "ACTIVE",
         row.owner = Guest \/ ActiveOf(row.owner) \subseteq {c}
  PROVE  ShopInv'
<1> DEFINE new == [carts EXCEPT ![c] = row]
<1>1. carts \in [CartIds -> CartRow]
  BY DEF ShopInv, ShopTypes
<1>2. new \in [CartIds -> CartRow] /\ \A d \in CartIds : new[d] = IF d = c THEN row ELSE carts[d]
  BY <1>1
<1>3. carts' = new /\ saveCart(new, touched)
  BY DEF saveCart
<1> HIDE DEF new
<1>4. OneActive'
  <2>1. ASSUME NEW b \in Buyers, NEW d \in ActiveOf(b)', NEW e \in ActiveOf(b)'
        PROVE  d = e
    <3>1. /\ d \in CartIds /\ new[d].status = "ACTIVE" /\ new[d].owner = b
          /\ e \in CartIds /\ new[e].status = "ACTIVE" /\ new[e].owner = b
      BY <1>3 DEF ActiveOf, IsActive
    <3>2. b # Guest
      BY ShoppingAssumption
    <3>3. (d # c => d \in ActiveOf(b)) /\ (e # c => e \in ActiveOf(b))
      BY <1>2, <3>1 DEF ActiveOf, IsActive
    <3>4. CASE d = c \/ e = c
      BY <1>2, <3>1, <3>2, <3>3, <3>4
    <3>5. CASE d # c /\ e # c
      BY <3>3, <3>5 DEF ShopInv, OneActive
    <3> QED
      BY <3>4, <3>5
  <2> QED
    BY <2>1 DEF OneActive
<1> QED
  BY <1>2, <1>3, <1>4, OpenUsed

\* The cart a change is for is active or new, and stays the only active one of its customer.
LEMMA CartAtHand ==
  ASSUME ShopInv, NEW owner \in Owners, NEW c \in CartIds, CartFor(owner, c) \/ (owner = Guest /\ Unopened(c))
  PROVE  LET cart == atHand(owner, c) IN
         /\ cart \in CartRow /\ cart.status = "ACTIVE" /\ cart.owner = owner /\ carts[c].status \in {"NONE", "ACTIVE"}
         /\ owner = Guest \/ ActiveOf(owner) \subseteq {c}
<1>1. carts \in [CartIds -> CartRow] /\ Guest \in Owners
  BY DEF ShopInv, ShopTypes, Owners
<1>2. CASE IsActive(c)
  <2>1. carts[c].owner = owner
    BY <1>2 DEF CartFor, GuestCart, ActiveOf, IsActive, Unopened
  <2>2. owner = Guest \/ ActiveOf(owner) \subseteq {c}
    BY <1>2, <2>1 DEF ActiveOf, ShopInv, OneActive, Owners
  <2> QED
    BY <1>1, <1>2, <2>1, <2>2 DEF atHand, IsActive
<1>3. CASE ~IsActive(c)
  <2>1. carts[c].status = "NONE" /\ (owner = Guest \/ ActiveOf(owner) = {})
    BY <1>3 DEF CartFor, GuestCart, ActiveOf, Unopened
  <2>2. opened(owner) \in CartRow /\ opened(owner).status = "ACTIVE" /\ opened(owner).owner = owner
    BY LinesStay DEF opened, CartRow
  <2> QED
    BY <1>3, <2>1, <2>2 DEF atHand
<1> QED
  BY <1>2, <1>3

\* A row with other lines.
LEMMA WithLines ==
  ASSUME NEW row \in CartRow, NEW lines \in CartLines
  PROVE  LET new == [row EXCEPT !.lines = lines] IN new \in CartRow /\ new.status = row.status /\ new.owner = row.owner
  BY DEF CartRow

\* Each change of a cart keeps the invariant.
LEMMA CartChanges ==
  ASSUME ShopInv, NEW c \in CartIds,
         \/ createGuestCart(c)
         \/ \E owner \in Owners, v \in CartVariants, q \in 1..MAX_LINE_QUANTITY : addLine(owner, c, v, q) \/ changeLine(c, v, q)
         \/ \E v \in CartVariants : removeLine(c, v)
         \/ \E o \in ShopOrders, sold \in SUBSET CartVariants : reorder(o, c, sold)
  PROVE  ShopInv'
<1>0. carts \in [CartIds -> CartRow] /\ shopOrders \in [ShopOrders -> ShopOrder] /\ Guest \in Owners /\ 0 \in Quantities
  BY ShoppingAssumption DEF ShopInv, ShopTypes, Owners, Quantities
<1>1. ASSUME createGuestCart(c)
      PROVE  ShopInv'
  <2>1. opened(Guest) \in CartRow /\ opened(Guest).status = "ACTIVE" /\ opened(Guest).owner = Guest
    BY <1>0, LinesStay DEF opened, CartRow
  <2>2. saveCart([carts EXCEPT ![c] = opened(Guest)], {}) /\ carts[c].status = "NONE"
    BY <1>1 DEF createGuestCart, Unopened
  <2> QED
    BY <2>1, <2>2, OneCartUsed
<1>2. ASSUME NEW owner \in Owners, NEW v \in CartVariants, NEW q \in 1..MAX_LINE_QUANTITY, addLine(owner, c, v, q)
      PROVE  ShopInv'
  <2> DEFINE cart == atHand(owner, c)
             row == [cart EXCEPT !.lines = [cart.lines EXCEPT ![v] = cart.lines[v] + q]]
  <2>1. /\ cart \in CartRow /\ cart.status = "ACTIVE" /\ cart.owner = owner /\ carts[c].status \in {"NONE", "ACTIVE"}
        /\ owner = Guest \/ ActiveOf(owner) \subseteq {c}
    BY <1>2, CartAtHand DEF addLine
  <2>2. cart.lines \in CartLines /\ cart.lines[v] + q \in Quantities
    BY <1>2, <2>1 DEF addLine, CartRow
  <2>3. saveCart([carts EXCEPT ![c] = row], {c})
    BY <1>2 DEF addLine
  <2> HIDE DEF cart
  <2>4. row \in CartRow /\ row.status = "ACTIVE" /\ row.owner = owner
    BY <2>1, <2>2, LinesStay, WithLines
  <2> HIDE DEF row
  <2> QED
    BY <2>1, <2>3, <2>4, OneCartUsed
<1>3. ASSUME NEW lines \in CartLines, IsActive(c), saveCart([carts EXCEPT ![c] = [carts[c] EXCEPT !.lines = lines]], {c})
      PROVE  ShopInv'
  <2> DEFINE row == [carts[c] EXCEPT !.lines = lines]
  <2>1. row \in CartRow /\ row.status = "ACTIVE" /\ row.owner = carts[c].owner /\ carts[c].status = "ACTIVE" /\ row.owner \in Owners
    BY <1>0, <1>3, WithLines DEF IsActive, CartRow
  <2>2. row.owner = Guest \/ ActiveOf(row.owner) \subseteq {c}
    BY <1>3, <2>1 DEF ActiveOf, ShopInv, OneActive, Owners
  <2>3. saveCart([carts EXCEPT ![c] = row], {c})
    BY <1>3
  <2> HIDE DEF row
  <2> QED
    BY <2>1, <2>2, <2>3, OneCartUsed
<1>4. ASSUME NEW v \in CartVariants, NEW q \in 1..MAX_LINE_QUANTITY, changeLine(c, v, q)
      PROVE  ShopInv'
  <2>1. carts[c].lines \in CartLines /\ q \in Quantities
    BY <1>0 DEF CartRow, Quantities
  <2>2. [carts[c].lines EXCEPT ![v] = q] \in CartLines
    BY <2>1, LinesStay
  <2>3. IsActive(c) /\ saveCart([carts EXCEPT ![c] = [carts[c] EXCEPT !.lines = [carts[c].lines EXCEPT ![v] = q]]], {c})
    BY <1>4 DEF changeLine
  <2> QED
    BY <1>3, <2>2, <2>3
<1>5. ASSUME NEW v \in CartVariants, removeLine(c, v)
      PROVE  ShopInv'
  BY <1>0, LinesStay, <1>5, <1>3 DEF CartRow, removeLine
<1>6. ASSUME NEW o \in ShopOrders, NEW sold \in SUBSET CartVariants, reorder(o, c, sold)
      PROVE  ShopInv'
  <2> DEFINE owner == shopOrders[o].owner
             cart == atHand(owner, c)
             items == soldOf(o, sold)
             row == [cart EXCEPT !.lines = addCapped(cart.lines, items)]
  <2>0. owner \in Owners
    BY <1>0 DEF ShopOrder
  <2>1. /\ cart \in CartRow /\ cart.status = "ACTIVE" /\ cart.owner = owner /\ carts[c].status \in {"NONE", "ACTIVE"}
        /\ owner = Guest \/ ActiveOf(owner) \subseteq {c}
    BY <1>6, <2>0, CartAtHand DEF reorder
  <2>2. items \in CartLines
    BY SoldLines
  <2>3. saveCart([carts EXCEPT ![c] = row], {c})
    BY <1>6 DEF reorder, copyOrderLines
  <2> HIDE DEF cart, items, owner
  <2>4. row \in CartRow /\ row.status = "ACTIVE" /\ row.owner = owner
    BY <2>1, <2>2, LinesStay, WithLines DEF CartRow
  <2> HIDE DEF row
  <2> QED
    BY <2>1, <2>3, <2>4, OneCartUsed
<1> QED
  BY <1>1, <1>2, <1>4, <1>5, <1>6

\* At a sign in, the guest's cart is adopted or absorbed.
LEMMA CartsMerge ==
  ASSUME ShopInv, NEW b \in Buyers, NEW g \in CartIds, merge(b, g)
  PROVE  ShopInv'
<1>1. carts \in [CartIds -> CartRow] /\ carts[g].status = "ACTIVE" /\ carts[g].owner = Guest /\ b \in Owners /\ b # Guest
  BY ShoppingAssumption DEF ShopInv, ShopTypes, merge, GuestCart, IsActive, Owners
<1>2. CASE ActiveOf(b) = {}
  <2> DEFINE row == [carts[g] EXCEPT !.owner = b]
  <2>1. row \in CartRow /\ row.status = "ACTIVE" /\ row.owner = b
    BY <1>1 DEF CartRow
  <2>2. saveCart([carts EXCEPT ![g] = row], {g})
    BY <1>2 DEF merge, adoptBy
  <2> HIDE DEF row
  <2> QED
    BY <1>1, <1>2, <2>1, <2>2, OneCartUsed
<1>3. ASSUME NEW own \in ActiveOf(b), saveCart(absorb(own, g), {own, g})
      PROVE  ShopInv'
  <2> DEFINE new == absorb(own, g)
             lines == addCapped(carts[own].lines, carts[g].lines)
             rowOwn == [carts[own] EXCEPT !.lines = lines]
             rowG == [carts[g] EXCEPT !.status = "MERGED", !.into = own]
  <2>1. own \in CartIds /\ carts[own].status = "ACTIVE" /\ carts[own].owner = b /\ own # g
    BY <1>1 DEF ActiveOf, IsActive
  <2>2. lines \in CartLines
    BY <1>1, <2>1, LinesStay DEF CartRow
  <2>3. rowOwn \in CartRow /\ rowOwn.status = "ACTIVE" /\ rowOwn.owner = b
    <3> HIDE DEF lines
    <3> QED
      BY <1>1, <2>1, <2>2, WithLines
  <2>4. rowG \in CartRow /\ rowG.status = "MERGED"
    BY <1>1, <2>1 DEF CartRow
  <2>5. \A d \in CartIds : new[d] = IF d = own THEN rowOwn ELSE IF d = g THEN rowG ELSE carts[d]
    BY <1>1, <2>1 DEF absorb
  <2>6. new = [d \in CartIds |-> new[d]]
    BY <1>1 DEF absorb
  <2> HIDE DEF new, rowOwn, rowG
  <2>7. new \in [CartIds -> CartRow]
    BY <1>1, <2>3, <2>4, <2>5, <2>6
  <2>8. carts' = new /\ saveCart(new, {own, g})
    BY <1>3 DEF saveCart, new
  <2>9. OneActive'
    <3>1. ASSUME NEW x \in Buyers, NEW d \in ActiveOf(x)'
          PROVE  d \in ActiveOf(x)
      BY <2>8, <2>1, <2>3, <2>4, <2>5 DEF ActiveOf, IsActive
    <3> QED
      BY <3>1 DEF ShopInv, OneActive
  <2> QED
    BY <1>1, <2>1, <2>5, <2>7, <2>8, <2>9, OpenUsed
<1> QED
  BY <1>2, <1>3 DEF merge

\* Deleting carts does.
LEMMA CartsDeleted ==
  ASSUME ShopInv, (\E b \in Buyers : deleteCartsOf(b)) \/ (\E c \in CartIds : deleteInactive(c))
  PROVE  ShopInv'
<1>1. carts \in [CartIds -> CartRow]
  BY DEF ShopInv, ShopTypes
<1>2. PICK gone \in SUBSET CartIds :
        saveCart([c \in CartIds |-> IF c \in gone THEN [carts[c] EXCEPT !.status = "DELETED", !.lines = NoLines] ELSE carts[c]], {})
  <2>1. ASSUME NEW b \in Buyers, deleteCartsOf(b)
        PROVE  \E gone \in SUBSET CartIds :
          saveCart([c \in CartIds |-> IF c \in gone THEN [carts[c] EXCEPT !.status = "DELETED", !.lines = NoLines] ELSE carts[c]], {})
    <3> DEFINE own == {c \in CartIds : carts[c].owner = b /\ carts[c].status \notin {"NONE", "DELETED"}}
               gone == own \cup {c \in CartIds : carts[c].status = "MERGED" /\ carts[c].into \in own}
    <3>1. gone \in SUBSET CartIds
      OBVIOUS
    <3>2. saveCart([c \in CartIds |-> IF c \in gone THEN [carts[c] EXCEPT !.status = "DELETED", !.lines = NoLines] ELSE carts[c]], {})
      BY <2>1 DEF deleteCartsOf
    <3> HIDE DEF gone
    <3> QED
      BY <3>1, <3>2
  <2>2. ASSUME NEW d \in CartIds, deleteInactive(d)
        PROVE  \E gone \in SUBSET CartIds :
          saveCart([c \in CartIds |-> IF c \in gone THEN [carts[c] EXCEPT !.status = "DELETED", !.lines = NoLines] ELSE carts[c]], {})
    <3>1. [carts EXCEPT ![d] = [carts[d] EXCEPT !.status = "DELETED", !.lines = NoLines]]
            = [c \in CartIds |-> IF c \in {d} THEN [carts[c] EXCEPT !.status = "DELETED", !.lines = NoLines] ELSE carts[c]]
      BY <1>1
    <3>2. saveCart([carts EXCEPT ![d] = [carts[d] EXCEPT !.status = "DELETED", !.lines = NoLines]], {})
      BY <2>2 DEF deleteInactive
    <3> QED
      BY <3>1, <3>2
  <2> QED
    BY <2>1, <2>2
<1> DEFINE new == [c \in CartIds |-> IF c \in gone THEN [carts[c] EXCEPT !.status = "DELETED", !.lines = NoLines] ELSE carts[c]]
<1>3. ASSUME NEW c \in CartIds
      PROVE  new[c] \in CartRow /\ (new[c].status = "DELETED" \/ new[c] = carts[c])
  <2>1. carts[c] \in CartRow
    BY <1>1
  <2> DEFINE row == [carts[c] EXCEPT !.status = "DELETED", !.lines = NoLines]
  <2>2. row \in CartRow /\ row.status = "DELETED"
    BY <2>1, LinesStay DEF CartRow
  <2>3. new[c] = IF c \in gone THEN row ELSE carts[c]
    OBVIOUS
  <2> HIDE DEF row, new
  <2> QED
    BY <2>1, <2>2, <2>3
<1>4. new \in [CartIds -> CartRow] /\ carts' = new /\ saveCart(new, {})
  BY <1>2, <1>3 DEF saveCart
<1> HIDE DEF new
<1>5. OneActive'
  BY <1>3, <1>4 DEF ActiveOf, IsActive, ShopInv, OneActive
<1> QED
  BY <1>3, <1>4, <1>5, OpenUsed

-----------------------------------------------------------------------------
(* Orders.                                                                 *)

\* A cart is never numbered like no cart.
LEMMA NoCartIsNone == NoCart \notin CartIds
  BY ShoppingAssumption DEF NoCart, CartIds

\* Placing an order from a cart does.
LEMMA OrderPlaced ==
  ASSUME ShopInv, NEW o \in ShopOrders, NEW c \in CartIds, placeCartOrder(o, c)
  PROVE  ShopInv'
<1> DEFINE a == shopOrders[o]
           new == [a EXCEPT !.status = "PENDING", !.cart = c, !.owner = carts[c].owner, !.lines = carts[c].lines]
           out == [carts[c] EXCEPT !.status = "CHECKED_OUT"]
           base == used(shopOrders, {c})
<1>1. /\ carts \in [CartIds -> CartRow] /\ shopOrders \in [ShopOrders -> ShopOrder] /\ a \in ShopOrder /\ carts[c] \in CartRow
      /\ OrderSound(a) /\ a.status = "NONE" /\ a.cart = NoCart /\ carts[c].status = "ACTIVE" /\ c # NoCart
  BY NoCartIsNone DEF ShopInv, ShopTypes, OrderSound, placeCartOrder, FreeOrder, IsActive
<1>2. /\ new \in ShopOrder /\ new.status = "PENDING" /\ new.cart = c /\ new.owner = carts[c].owner /\ new.expired = a.expired
      /\ new.usedSince = a.usedSince /\ new.delivered = a.delivered /\ new.restored = a.restored
  BY <1>1 DEF ShopOrder, CartRow
<1>3. out \in CartRow /\ out.status = "CHECKED_OUT" /\ out.owner = carts[c].owner
  BY <1>1 DEF CartRow
<1>4. carts' = [carts EXCEPT ![c] = out]
  BY DEF placeCartOrder, checkOut
<1>5. base[o] = a /\ DOMAIN base = ShopOrders /\ base = [p \in ShopOrders |-> base[p]]
  BY <1>1 DEF used
<1>6. ASSUME NEW p \in ShopOrders
      PROVE  Kept(shopOrders[p], base[p], {c})
  BY <1>1, UsedKeeps DEF used
<1> HIDE DEF base
<1>7. shopOrders' = [base EXCEPT ![o] = [base[o] EXCEPT !.status = "PENDING", !.cart = c, !.owner = carts[c].owner, !.lines = carts[c].lines]]
  BY DEF placeCartOrder, base
<1>8. shopOrders'[o] = new /\ \A p \in ShopOrders \ {o} : shopOrders'[p] = base[p]
  BY <1>5, <1>7
<1>9. shopOrders' = [p \in ShopOrders |-> shopOrders'[p]]
  BY <1>5, <1>7
<1> HIDE DEF new, out, a
<1>10. carts' \in [CartIds -> CartRow] /\ carts'[c] = out /\ \A d \in CartIds \ {c} : carts'[d] = carts[d]
  BY <1>1, <1>3, <1>4
<1>11. \A p \in ShopOrders \ {o} : Kept(shopOrders[p], shopOrders'[p], {c}) /\ shopOrders'[p].cart = shopOrders[p].cart
  BY <1>6, <1>8 DEF Kept
<1>12. ShopTypes'
  BY <1>2, <1>8, <1>11, <1>9, <1>10 DEF Kept, ShopTypes
<1>13. \A d \in CartIds : Excused(d) => Excused(d)'
  <2>1. ASSUME NEW p \in ShopOrders
        PROVE  /\ shopOrders'[p].cart = shopOrders[p].cart \/ shopOrders[p].cart = NoCart
               /\ shopOrders[p].reopened => shopOrders'[p].reopened
    <3>1. CASE p = o
      BY <1>1, <3>1, <1>8 DEF new, a, ShopOrder
    <3>2. CASE p # o
      BY <1>11, <3>2 DEF Kept
    <3> QED
      BY <3>1, <3>2
  <2>2. \A d \in CartIds : carts[d].status = "DELETED" => carts'[d].status = "DELETED"
    BY <1>1, <1>10
  <2> QED
    BY <2>1, <2>2, ExcusesStay
<1>14. OrderSound(new) /\ Awaits(new) /\ ~new.expired /\ ~new.delivered
  BY <1>1, <1>2 DEF OrderSound, Awaits, ShopOrder
<1>15. ASSUME NEW p \in ShopOrders \ {o}
       PROVE  /\ OrderSound(shopOrders'[p])
              /\ Awaits(shopOrders'[p]) => Awaits(shopOrders[p]) /\ shopOrders[p].cart \in CartIds
              /\ Awaits(shopOrders[p]) /\ shopOrders[p].cart = c => Excused(c)'
  BY <1>1, <1>11, <1>13 DEF ShopInv, OrderSound, Kept, Awaits, ShopOrder, Waiting
<1>16. Waiting'
  <2>1. ASSUME NEW p \in ShopOrders, Awaits(shopOrders'[p]), ~Excused(shopOrders[p].cart)'
        PROVE  carts'[shopOrders'[p].cart].status = "CHECKED_OUT" /\ carts'[shopOrders'[p].cart].owner = shopOrders'[p].owner
    <3>1. CASE p = o
      BY <1>2, <1>3, <1>8, <1>10, <3>1
    <3>2. CASE p # o
      BY <1>11, <1>15, <2>1, <3>2, <1>13, <1>10 DEF ShopInv, Waiting, Kept
    <3> QED
      BY <3>1, <3>2
  <2> QED
    BY <2>1 DEF Waiting
<1>17. OneAwaits'
  <2>1. ASSUME NEW p \in ShopOrders, NEW q \in ShopOrders, Awaits(shopOrders'[p]), Awaits(shopOrders'[q]),
               shopOrders'[p].cart = shopOrders'[q].cart, p # q
        PROVE  Excused(shopOrders[p].cart)'
    <3>1. CASE p = o \/ q = o
      BY <2>1, <1>2, <1>8, <3>1, <1>11, <1>15
    <3>2. CASE p # o /\ q # o
      BY <1>11, <1>15, <2>1, <3>2, <1>13 DEF ShopInv, OneAwaits
    <3> QED
      BY <3>1, <3>2
  <2> QED
    BY <2>1 DEF OneAwaits
<1>18. UsedRestored'
  <2>1. ASSUME NEW p \in ShopOrders,
               \/ shopOrders'[p].expired /\ shopOrders'[p].usedSince /\ shopOrders'[p].restored = 0
               \/ shopOrders'[p].delivered /\ ~shopOrders'[p].usedSince
        PROVE  Excused(shopOrders[p].cart)'
    <3>1. p # o
      BY <1>8, <1>14, <2>1
    <3>2. OrderSound(shopOrders[p]) /\ shopOrders[p] \in ShopOrder /\ Kept(shopOrders[p], shopOrders'[p], {c})
      BY <1>1, <1>11, <3>1 DEF ShopInv
    <3>3. PICK d \in CartIds : d = shopOrders[p].cart /\ d = shopOrders'[p].cart /\ shopOrders[p].expired
      BY <2>1, <3>2 DEF Kept, OrderSound, ShopOrder
    <3>4. CASE Awaits(shopOrders[p]) /\ d = c
      BY <1>15, <3>1, <3>3, <3>4
    <3>5. CASE ~(Awaits(shopOrders[p]) /\ d = c)
      BY <2>1, <3>2, <3>3, <3>5, <1>13 DEF Kept, Awaits, ShopOrder, ShopInv, UsedRestored
    <3> QED
      BY <3>4, <3>5
  <2> QED
    BY <2>1 DEF UsedRestored
<1>19. OneActive'
  BY <1>3, <1>10 DEF ActiveOf, IsActive, ShopInv, OneActive
<1> QED
  BY <1>8, <1>12, <1>14, <1>15, <1>16, <1>17, <1>18, <1>19 DEF ShopInv

\* One order moves, with the same cart and without giving anything back.
LEMMA OrderMoved ==
  ASSUME ShopInv, NEW o \in ShopOrders, NEW new \in ShopOrder, UNCHANGED carts, shopOrders' = [shopOrders EXCEPT ![o] = new],
         OrderSound(new), Awaits(new) => Awaits(shopOrders[o]),
         new.cart = shopOrders[o].cart, new.owner = shopOrders[o].owner, new.usedSince = shopOrders[o].usedSince,
         new.restored = shopOrders[o].restored, new.reopened = shopOrders[o].reopened,
         new.delivered => shopOrders[o].delivered \/ shopOrders[o].usedSince \/ Excused(shopOrders[o].cart)
  PROVE  ShopInv'
<1> DEFINE a == shopOrders[o]
<1>1. shopOrders \in [ShopOrders -> ShopOrder] /\ OrderSound(a) /\ a \in ShopOrder
  BY DEF ShopInv, ShopTypes
<1>2. /\ shopOrders' \in [ShopOrders -> ShopOrder] /\ shopOrders'[o] = new
      /\ \A p \in ShopOrders \ {o} : shopOrders'[p] = shopOrders[p]
  BY <1>1
<1>3. \A p \in ShopOrders : shopOrders'[p].cart = shopOrders[p].cart /\ shopOrders'[p].reopened = shopOrders[p].reopened
  BY <1>2
<1>4. \A d : Excused(d)' <=> Excused(d)
  BY <1>3 DEF Excused, ReopenedUnder
<1>5. ASSUME NEW p \in ShopOrders
      PROVE  /\ OrderSound(shopOrders'[p]) /\ (Awaits(shopOrders'[p]) => Awaits(shopOrders[p]))
             /\ shopOrders'[p].owner = shopOrders[p].owner
             /\ shopOrders'[p].usedSince = shopOrders[p].usedSince /\ shopOrders'[p].restored = shopOrders[p].restored
             /\ shopOrders'[p].delivered => shopOrders[p].delivered \/ shopOrders[p].usedSince \/ Excused(shopOrders[p].cart)
  BY <1>2 DEF ShopInv
<1>6. ASSUME NEW p \in ShopOrders
      PROVE  Excused(shopOrders[p].cart)' <=> Excused(shopOrders[p].cart)
  BY <1>3, <1>4
<1>7. Waiting'
  BY <1>3, <1>5, <1>6 DEF ShopInv, Waiting
<1>8. OneAwaits'
  BY <1>3, <1>5, <1>6 DEF ShopInv, OneAwaits
<1>9. UsedRestored'
  BY <1>1, <1>5, <1>3, <1>6 DEF ShopInv, OrderSound, UsedRestored
<1>10. OneActive'
  BY DEF ShopInv, OneActive, ActiveOf, IsActive
<1> QED
  BY <1>2, <1>5, <1>7, <1>8, <1>9, <1>10 DEF ShopInv, ShopTypes

\* An order that expires, is paid or cancelled does.
LEMMA OrderMoves ==
  ASSUME ShopInv, NEW o \in ShopOrders, expireShopOrder(o) \/ payShopOrder(o) \/ cancelOrder(o)
  PROVE  ShopInv'
<1> DEFINE a == shopOrders[o]
<1>1. a \in ShopOrder /\ OrderSound(a)
  BY DEF ShopInv, ShopTypes
<1>2. CASE expireShopOrder(o)
  <2> DEFINE new == [a EXCEPT !.status = "EXPIRED", !.expired = TRUE]
  <2>1. /\ new \in ShopOrder /\ new.status = "EXPIRED" /\ new.expired = TRUE /\ new.cart = a.cart /\ new.owner = a.owner
        /\ new.usedSince = a.usedSince /\ new.restored = a.restored /\ new.reopened = a.reopened /\ new.delivered = a.delivered
    BY <1>1 DEF ShopOrder
  <2>2. shopOrders' = [shopOrders EXCEPT ![o] = new] /\ UNCHANGED carts /\ a.status = "PENDING"
    BY <1>2 DEF expireShopOrder
  <2> HIDE DEF new
  <2>3. OrderSound(new) /\ Awaits(a)
    BY <1>1, <2>1, <2>2 DEF OrderSound, Awaits, ShopOrder
  <2> QED
    BY <2>1, <2>2, <2>3, OrderMoved
<1>3. ASSUME NEW status \in {"PAID", "CANCELLED"}, a.status \in {"PENDING", "EXPIRED", "PAID"}, UNCHANGED carts,
             shopOrders' = [shopOrders EXCEPT ![o] = [a EXCEPT !.status = status]]
      PROVE  ShopInv'
  <2> DEFINE new == [a EXCEPT !.status = status]
  <2>1. /\ new \in ShopOrder /\ new.status = status /\ new.expired = a.expired /\ new.cart = a.cart /\ new.owner = a.owner
        /\ new.usedSince = a.usedSince /\ new.restored = a.restored /\ new.reopened = a.reopened /\ new.delivered = a.delivered
    BY <1>1 DEF ShopOrder
  <2>2. shopOrders' = [shopOrders EXCEPT ![o] = new]
    BY <1>3
  <2> HIDE DEF new
  <2>3. OrderSound(new) /\ (Awaits(new) => Awaits(a))
    BY <1>1, <1>3, <2>1 DEF OrderSound, Awaits, ShopOrder
  <2> QED
    BY <1>3, <2>1, <2>2, <2>3, OrderMoved
<1>4. CASE payShopOrder(o)
  BY <1>3, <1>4 DEF payShopOrder
<1>5. CASE cancelOrder(o)
  BY <1>3, <1>5 DEF cancelOrder
<1> QED
  BY <1>2, <1>4, <1>5

\* The lines of an expired order come back: only its own cart waited for it.
LEMMA OrderRestored ==
  ASSUME ShopInv, NEW o \in ShopOrders, NEW source \in CartIds, source = shopOrders[o].cart,
         shopOrders[o].expired, ~shopOrders[o].usedSince, NEW touched, source \in touched,
         carts' \in [CartIds -> CartRow], OneActive', shopOrders' \in [ShopOrders -> ShopOrder],
         \A c \in CartIds : carts[c].status = "DELETED" => carts'[c].status = "DELETED",
         \A c \in CartIds \ {source} : carts[c].status = "CHECKED_OUT" =>
           c \notin touched /\ carts'[c].status = carts[c].status /\ carts'[c].owner = carts[c].owner,
         \A p \in ShopOrders \ {o} : Kept(shopOrders[p], shopOrders'[p], touched),
         shopOrders'[o].status = shopOrders[o].status, shopOrders'[o].cart = source, shopOrders'[o].expired = TRUE,
         shopOrders'[o].usedSince = TRUE, shopOrders'[o].restored = shopOrders[o].restored + 1,
         shopOrders[o].reopened => shopOrders'[o].reopened
  PROVE  ShopInv'
<1>1. /\ shopOrders \in [ShopOrders -> ShopOrder] /\ \A p \in ShopOrders : OrderSound(shopOrders[p]) /\ shopOrders[p] \in ShopOrder
      /\ source # NoCart
  BY NoCartIsNone DEF ShopInv, ShopTypes
<1>2. \A p \in ShopOrders : shopOrders'[p].cart = shopOrders[p].cart /\ (shopOrders[p].reopened => shopOrders'[p].reopened)
  BY DEF Kept
<1>3. \A d \in CartIds : Excused(d) => Excused(d)'
  BY <1>2, ExcusesStay
<1>4. OrderSound(shopOrders'[o]) /\ ~Awaits(shopOrders'[o]) /\ shopOrders'[o].restored = 1
  <2>1. shopOrders[o].restored = 0 /\ shopOrders[o].status \notin {"NONE", "PENDING"}
    <3>1. shopOrders[o].restored \in Nat /\ shopOrders[o].restored <= 1
      BY <1>1 DEF OrderSound, ShopOrder
    <3>2. shopOrders[o].restored # 1 /\ shopOrders[o].status \notin {"NONE", "PENDING"}
      BY <1>1 DEF OrderSound
    <3> QED
      BY <3>1, <3>2
  <2>2. shopOrders'[o].restored = 1
    BY <2>1
  <2> QED
    BY <1>1, <2>1, <2>2 DEF OrderSound, Awaits
<1>5. ASSUME NEW p \in ShopOrders \ {o}
      PROVE  OrderSound(shopOrders'[p]) /\ (Awaits(shopOrders'[p]) => Awaits(shopOrders[p]) /\ shopOrders[p].cart \in CartIds)
  BY <1>1 DEF OrderSound, Kept, Awaits, ShopOrder
<1>6. ASSUME NEW p \in ShopOrders \ {o}, Awaits(shopOrders[p]), NEW c \in CartIds, c = shopOrders[p].cart
      PROVE  Excused(c) \/ (/\ carts[c].status = "CHECKED_OUT" /\ c \notin touched /\ carts'[c].status = "CHECKED_OUT"
                            /\ carts'[c].owner = shopOrders[p].owner)
  BY <1>6 DEF ShopInv, OneAwaits, Awaits, Waiting
<1>7. Waiting'
  <2>1. ASSUME NEW p \in ShopOrders, Awaits(shopOrders'[p]), ~Excused(shopOrders[p].cart)'
        PROVE  carts'[shopOrders'[p].cart].status = "CHECKED_OUT" /\ carts'[shopOrders'[p].cart].owner = shopOrders'[p].owner
    <3>1. p # o
      BY <1>4, <2>1
    <3>2. PICK d \in CartIds : d = shopOrders[p].cart /\ d = shopOrders'[p].cart /\ Awaits(shopOrders[p])
      BY <1>2, <1>5, <2>1, <3>1
    <3>3. ~Excused(d)
      BY <1>3, <2>1, <3>2
    <3>4. shopOrders'[p].owner = shopOrders[p].owner
      BY <3>1 DEF Kept
    <3>5. carts'[d].status = "CHECKED_OUT" /\ carts'[d].owner = shopOrders[p].owner
      BY <1>6, <3>1, <3>2, <3>3, ZenonT(30)
    <3> QED
      BY <3>2, <3>4, <3>5
  <2> QED
    BY <2>1 DEF Waiting
<1>8. OneAwaits'
  <2>1. ASSUME NEW p \in ShopOrders, NEW q \in ShopOrders, Awaits(shopOrders'[p]), Awaits(shopOrders'[q]),
               shopOrders'[p].cart = shopOrders'[q].cart, p # q
        PROVE  Excused(shopOrders[p].cart)'
    <3>1. p # o /\ q # o
      BY <1>4, <2>1
    <3>2. PICK d \in CartIds : d = shopOrders[p].cart /\ d = shopOrders'[p].cart /\ Awaits(shopOrders[p])
      BY <1>2, <1>5, <2>1, <3>1
    <3>3. Awaits(shopOrders[q]) /\ shopOrders[q].cart = d
      BY <1>2, <1>5, <2>1, <3>1, <3>2
    <3>4. Excused(d)
      BY <2>1, <3>2, <3>3 DEF ShopInv, OneAwaits
    <3>5. Excused(d)'
      BY <1>3, <3>4
    <3> QED
      BY <3>2, <3>5
  <2> QED
    BY <2>1 DEF OneAwaits
<1>9. UsedRestored'
  <2>1. ASSUME NEW p \in ShopOrders,
               \/ shopOrders'[p].expired /\ shopOrders'[p].usedSince /\ shopOrders'[p].restored = 0
               \/ shopOrders'[p].delivered /\ ~shopOrders'[p].usedSince
        PROVE  Excused(shopOrders[p].cart)'
    <3>1. p # o
      BY <1>4, <2>1
    <3>2. OrderSound(shopOrders[p]) /\ shopOrders[p] \in ShopOrder /\ Kept(shopOrders[p], shopOrders'[p], touched)
      BY <1>1, <3>1
    <3>3. PICK d \in CartIds : d = shopOrders[p].cart /\ d = shopOrders'[p].cart /\ shopOrders[p].expired
      BY <2>1, <3>2 DEF Kept, OrderSound, ShopOrder
    <3>4. CASE Awaits(shopOrders[p]) /\ d \in touched
      <4>1. Excused(d)
        BY <1>6, <3>1, <3>3, <3>4
      <4>2. Excused(d)'
        BY <1>3, <4>1
      <4> QED
        BY <3>3, <4>2
    <3>5. CASE ~(Awaits(shopOrders[p]) /\ d \in touched)
      BY <2>1, <3>2, <3>3, <3>5, <1>3 DEF Kept, Awaits, ShopOrder, ShopInv, UsedRestored
    <3> QED
      BY <3>4, <3>5
  <2> QED
    BY <2>1 DEF UsedRestored
<1> QED
  BY <1>4, <1>5, <1>7, <1>8, <1>9 DEF ShopInv, ShopTypes

\* The event of an expired order does, however late it comes.
LEMMA EventArrives ==
  ASSUME ShopInv, NEW o \in ShopOrders, restoreExpiredOrder(o)
  PROVE  ShopInv'
<1> DEFINE a == shopOrders[o]
           source == a.cart
           given == [a EXCEPT !.delivered = TRUE, !.restored = a.restored + 1]
           count == [shopOrders EXCEPT ![o] = given]
<1>1. /\ a \in ShopOrder /\ OrderSound(a) /\ a.expired /\ source \in CartIds /\ carts \in [CartIds -> CartRow]
      /\ shopOrders \in [ShopOrders -> ShopOrder] /\ carts[source] \in CartRow
  BY DEF ShopInv, ShopTypes, OrderSound, ShopOrder, restoreExpiredOrder
<1>2. CASE unexpected(o) \/ alreadyRestored(o)
  <2> DEFINE new == [a EXCEPT !.delivered = TRUE]
  <2>1. /\ new \in ShopOrder /\ new.status = a.status /\ new.expired = a.expired /\ new.cart = a.cart /\ new.owner = a.owner
        /\ new.usedSince = a.usedSince /\ new.restored = a.restored /\ new.reopened = a.reopened
    BY <1>1 DEF ShopOrder
  <2>2. shopOrders' = [shopOrders EXCEPT ![o] = new] /\ UNCHANGED carts
    BY <1>2 DEF restoreExpiredOrder
  <2> HIDE DEF new
  <2>3. OrderSound(new) /\ (Awaits(new) => Awaits(a))
    BY <1>1, <2>1 DEF OrderSound, Awaits, ShopOrder
  <2>4. a.usedSince \/ Excused(a.cart)
    BY <1>1, <1>2 DEF unexpected, alreadyRestored, ShopInv, Waiting, Awaits, Excused
  <2> QED
    BY <2>1, <2>2, <2>3, <2>4, OrderMoved
<1>3. CASE ~(unexpected(o) \/ alreadyRestored(o))
  <2>1. ~a.usedSince /\ carts[source].status = "CHECKED_OUT" /\ carts[source].owner = a.owner
    BY <1>3 DEF unexpected, alreadyRestored
  <2>2. /\ given \in ShopOrder /\ given.status = a.status /\ given.cart = source /\ given.expired = a.expired
        /\ given.restored = a.restored + 1 /\ given.reopened = a.reopened
    <3>1. PICK n \in Nat : n = a.restored + 1
      BY <1>1 DEF ShopOrder
    <3>2. given = [a EXCEPT !.delivered = TRUE, !.restored = n]
      BY <3>1
    <3> QED
      BY <1>1, <3>1, <3>2 DEF ShopOrder
  <2>3. count \in [ShopOrders -> ShopOrder] /\ count[o] = given /\ \A p \in ShopOrders \ {o} : count[p] = shopOrders[p]
    BY <1>1, <2>2
  <2>4. [shopOrders EXCEPT ![o].delivered = TRUE, ![o].restored = @ + 1] = count
    BY <1>1
  <2> HIDE DEF count, given
  <2>5. ASSUME NEW touched, source \in touched, shopOrders' = used(count, touched)
        PROVE  /\ shopOrders' \in [ShopOrders -> ShopOrder]
               /\ \A p \in ShopOrders \ {o} : Kept(shopOrders[p], shopOrders'[p], touched)
               /\ shopOrders'[o].status = a.status /\ shopOrders'[o].cart = source /\ shopOrders'[o].expired = TRUE
               /\ shopOrders'[o].usedSince = TRUE /\ shopOrders'[o].restored = a.restored + 1
               /\ a.reopened => shopOrders'[o].reopened
    <3>1. ASSUME NEW p \in ShopOrders
          PROVE  Kept(count[p], shopOrders'[p], touched)
      BY <2>5, <2>3, UsedKeeps DEF used
    <3>2. shopOrders' = [p \in ShopOrders |-> shopOrders'[p]] /\ \A p \in ShopOrders : shopOrders'[p] \in ShopOrder
      BY <2>5, <3>1 DEF used, Kept
    <3>3. Kept(given, shopOrders'[o], touched)
      BY <2>3, <3>1
    <3>4. shopOrders'[o].usedSince = TRUE /\ shopOrders'[o].expired = TRUE
      BY <1>1, <2>2, <2>5, <3>3 DEF Kept, ShopOrder
    <3> QED
      BY <2>2, <2>3, <3>1, <3>2, <3>3, <3>4 DEF Kept
  <2>6. CASE receiver(o) = {}
    <3> DEFINE row == [carts[source] EXCEPT !.status = "ACTIVE"]
    <3>1. row \in CartRow /\ row.status = "ACTIVE" /\ row.owner = a.owner
      BY <1>1, <2>1 DEF CartRow
    <3>2. carts' = [carts EXCEPT ![source] = row] /\ shopOrders' = used(count, {source})
      BY <1>3, <2>4, <2>6 DEF restoreExpiredOrder, reactivate
    <3> HIDE DEF row
    <3>3. carts' \in [CartIds -> CartRow] /\ carts'[source] = row /\ \A c \in CartIds \ {source} : carts'[c] = carts[c]
      BY <1>1, <3>1, <3>2
    <3>4. OneActive'
      <4>1. ASSUME NEW b \in Buyers, NEW d \in ActiveOf(b)', NEW e \in ActiveOf(b)'
            PROVE  d = e
        <5>1. /\ d \in CartIds /\ carts'[d].status = "ACTIVE" /\ carts'[d].owner = b
              /\ e \in CartIds /\ carts'[e].status = "ACTIVE" /\ carts'[e].owner = b
          BY DEF ActiveOf, IsActive
        <5>2. (d # source => d \in ActiveOf(b)) /\ (e # source => e \in ActiveOf(b))
          BY <3>3, <5>1 DEF ActiveOf, IsActive
        <5>3. CASE d = source \/ e = source
          BY <3>1, <3>3, <5>1, <5>3, <2>6, ShoppingAssumption, <5>2 DEF receiver
        <5>4. CASE d # source /\ e # source
          BY <5>2, <5>4 DEF ShopInv, OneActive
        <5> QED
          BY <5>3, <5>4
      <4> QED
        BY <4>1 DEF OneActive
    <3>5. \A c \in CartIds : carts[c].status = "DELETED" => carts'[c].status = "DELETED"
      BY <2>1, <3>3
    <3>6. \A c \in CartIds \ {source} : carts[c].status = "CHECKED_OUT" =>
            c \notin {source} /\ carts'[c].status = carts[c].status /\ carts'[c].owner = carts[c].owner
      BY <3>3
    <3>11. /\ shopOrders' \in [ShopOrders -> ShopOrder]
           /\ \A p \in ShopOrders \ {o} : Kept(shopOrders[p], shopOrders'[p], {source})
           /\ shopOrders'[o].status = a.status /\ shopOrders'[o].cart = source /\ shopOrders'[o].expired = TRUE
           /\ shopOrders'[o].usedSince = TRUE /\ shopOrders'[o].restored = a.restored + 1
           /\ a.reopened => shopOrders'[o].reopened
      BY <2>5, <3>2
    <3>12. PICK src \in CartIds, touched \in SUBSET CartIds : src = source /\ touched = {source}
      BY <1>1
    <3> HIDE DEF source
    <3>13. src \in touched /\ src = shopOrders[o].cart
      BY <3>12 DEF source
    <3>14. \A c \in CartIds \ {src} : carts[c].status = "CHECKED_OUT" =>
             c \notin touched /\ carts'[c].status = carts[c].status /\ carts'[c].owner = carts[c].owner
      BY <3>6, <3>12
    <3>15. /\ \A p \in ShopOrders \ {o} : Kept(shopOrders[p], shopOrders'[p], touched)
           /\ shopOrders'[o].cart = src
      BY <3>11, <3>12
    <3> QED
      BY <1>1, <2>1, <3>3, <3>4, <3>5, <3>11, <3>13, <3>14, <3>15, OrderRestored
  <2>7. ASSUME NEW own \in receiver(o), carts' = absorbOrder(own, source, a.lines), shopOrders' = used(count, {own, source})
        PROVE  ShopInv'
    <3> DEFINE lines == addCapped(carts[own].lines, a.lines)
               rowOwn == [carts[own] EXCEPT !.lines = lines]
               rowSource == [carts[source] EXCEPT !.status = "MERGED", !.into = own]
    <3>1. own \in CartIds /\ carts[own].status = "ACTIVE" /\ own # source /\ carts[own] \in CartRow
      BY <1>1, <2>1 DEF receiver, ActiveOf, IsActive
    <3>2. lines \in CartLines
      BY <1>1, <3>1, LinesStay DEF CartRow, ShopOrder
    <3>3. rowOwn \in CartRow /\ rowOwn.status = "ACTIVE" /\ rowOwn.owner = carts[own].owner
      <4> HIDE DEF lines
      <4> QED
        BY <3>1, <3>2, WithLines
    <3>4. rowSource \in CartRow /\ rowSource.status = "MERGED"
      BY <1>1, <3>1 DEF CartRow
    <3>5. \A d \in CartIds : carts'[d] = IF d = own THEN rowOwn ELSE IF d = source THEN rowSource ELSE carts[d]
      BY <1>1, <2>7, <3>1 DEF absorbOrder
    <3>6. carts' = [d \in CartIds |-> carts'[d]]
      BY <1>1, <2>7 DEF absorbOrder
    <3> HIDE DEF rowOwn, rowSource
    <3>7. carts' \in [CartIds -> CartRow]
      BY <1>1, <3>3, <3>4, <3>5, <3>6
    <3>8. OneActive'
      BY <3>1, <3>3, <3>4, <3>5 DEF ActiveOf, IsActive, ShopInv, OneActive
    <3>9. \A c \in CartIds : carts[c].status = "DELETED" => carts'[c].status = "DELETED"
      BY <2>1, <3>1, <3>5
    <3>10. \A c \in CartIds \ {source} : carts[c].status = "CHECKED_OUT" =>
             c \notin {own, source} /\ carts'[c].status = carts[c].status /\ carts'[c].owner = carts[c].owner
      BY <3>1, <3>5
    <3>11. /\ shopOrders' \in [ShopOrders -> ShopOrder]
           /\ \A p \in ShopOrders \ {o} : Kept(shopOrders[p], shopOrders'[p], {own, source})
           /\ shopOrders'[o].status = a.status /\ shopOrders'[o].cart = source /\ shopOrders'[o].expired = TRUE
           /\ shopOrders'[o].usedSince = TRUE /\ shopOrders'[o].restored = a.restored + 1
           /\ a.reopened => shopOrders'[o].reopened
      BY <2>5, <2>7
    <3>12. PICK src \in CartIds, touched \in SUBSET CartIds : src = source /\ touched = {own, source}
      BY <1>1, <3>1
    <3> HIDE DEF source
    <3>13. src \in touched /\ src = shopOrders[o].cart
      BY <3>12 DEF source
    <3> QED
      BY <1>1, <2>1, <3>7, <3>8, <3>9, <3>10, <3>11, <3>12, <3>13, OrderRestored
  <2> QED
    BY <1>3, <2>4, <2>6, <2>7 DEF restoreExpiredOrder
<1> QED
  BY <1>2, <1>3

\* The staff reopens the cart of a guest: the orders that were not settled excuse it.
LEMMA CartReopened ==
  ASSUME ShopInv, NEW o \in ShopOrders, NEW sold \in SUBSET CartVariants, reorderForGuest(o, sold)
  PROVE  ShopInv'
<1> DEFINE c == shopOrders[o].cart
           items == soldOf(o, sold)
<1>1. /\ carts \in [CartIds -> CartRow] /\ shopOrders \in [ShopOrders -> ShopOrder] /\ shopOrders[o].status = "CANCELLED"
      /\ carts[c].owner = Guest /\ carts[c].status \in {"ACTIVE", "CHECKED_OUT"}
  BY DEF ShopInv, ShopTypes, reorderForGuest, linesToReorder
<1>2. c \in CartIds /\ carts[c] \in CartRow
  BY <1>1 DEF ShopInv, OrderSound, ShopOrder
<1>3. items \in CartLines
  BY SoldLines
<1>4. CASE IsActive(c)
  <2> DEFINE row == [carts[c] EXCEPT !.lines = addCapped(carts[c].lines, items)]
  <2>1. row \in CartRow /\ row.status = "ACTIVE" /\ row.owner = Guest
    BY <1>2, <1>3, LinesStay, <1>1, <1>4, WithLines DEF CartRow, IsActive
  <2>2. saveCart([carts EXCEPT ![c] = row], {c})
    BY <1>4 DEF reorderForGuest, copyOrderLines
  <2> HIDE DEF row
  <2>3. PICK d \in CartIds : d = c
    BY <1>2
  <2> HIDE DEF c
  <2>4. saveCart([carts EXCEPT ![d] = row], {d}) /\ carts[d].status = "ACTIVE" /\ {d} \in SUBSET {d}
    BY <1>4, <2>2, <2>3 DEF IsActive
  <2> QED
    BY <2>1, <2>4, OneCartUsed
<1>5. CASE ~IsActive(c)
  <2> DEFINE lines == addCapped(NoLines, items)
             row == [carts[c] EXCEPT !.status = "ACTIVE", !.lines = lines]
  <2>1. lines \in CartLines
    BY <1>3, LinesStay
  <2>2. row \in CartRow /\ row.status = "ACTIVE" /\ row.owner = Guest
    <3> HIDE DEF lines
    <3> QED
      BY <1>1, <1>2, <2>1 DEF CartRow
  <2>3. carts' = [carts EXCEPT ![c] = row]
    BY <1>5 DEF reorderForGuest, reopenWith
  <2> HIDE DEF row
  <2>4. carts' \in [CartIds -> CartRow] /\ carts'[c] = row /\ \A d \in CartIds \ {c} : carts'[d] = carts[d]
    BY <1>1, <1>2, <2>2, <2>3
  <2> DEFINE os == used(shopOrders, {c})
  <2>5. shopOrders' = [p \in ShopOrders |-> IF os[p].cart = c /\ Unsettled(p) THEN [os[p] EXCEPT !.reopened = TRUE] ELSE os[p]]
    BY <1>5 DEF reorderForGuest
  <2>6. ASSUME NEW p \in ShopOrders
        PROVE  /\ Kept(shopOrders[p], shopOrders'[p], {c}) /\ shopOrders'[p] \in ShopOrder
               /\ shopOrders[p].cart = c /\ Unsettled(p) => shopOrders'[p].reopened
    <3> DEFINE x == shopOrders[p]
               y == IF x.cart \in {c} THEN [x EXCEPT !.usedSince = x.expired] ELSE x
    <3>1. x \in ShopOrder
      BY <1>1
    <3>2. os[p] = y
      BY DEF used
    <3>3. Kept(x, y, {c}) /\ Kept(x, [y EXCEPT !.reopened = TRUE], {c})
      BY <3>1, UsedKeeps
    <3>4. shopOrders'[p] = IF os[p].cart = c /\ Unsettled(p) THEN [os[p] EXCEPT !.reopened = TRUE] ELSE os[p]
      BY <2>5
    <3> HIDE DEF y, x, os, c
    <3>5. y.cart = x.cart /\ y \in ShopOrder /\ [y EXCEPT !.reopened = TRUE].reopened = TRUE
      BY <3>3 DEF Kept, ShopOrder
    <3>6. Kept(x, shopOrders'[p], {c}) /\ (x.cart = c /\ Unsettled(p) => shopOrders'[p].reopened)
      BY <3>2, <3>3, <3>4, <3>5
    <3> QED
      BY <3>6 DEF Kept, x
  <2>7. shopOrders' \in [ShopOrders -> ShopOrder]
    <3> HIDE DEF os
    <3> QED
      BY <2>5, <2>6
  <2>8. OneActive'
    <3>1. ASSUME NEW x \in Buyers, NEW d \in ActiveOf(x)'
          PROVE  d \in ActiveOf(x)
      BY <2>2, <2>4, ShoppingAssumption DEF ActiveOf, IsActive
    <3> QED
      BY <3>1 DEF ShopInv, OneActive
  <2>9. \A d \in CartIds : carts[d].status = "DELETED" => carts'[d].status = "DELETED"
    BY <1>1, <2>4
  <2>10. ASSUME NEW p \in ShopOrders, Awaits(shopOrders[p]), ~Excused(shopOrders[p].cart), NEW d \in CartIds, d = shopOrders[p].cart
         PROVE  Excused(d)' \/ (d \notin {c} /\ carts'[d].status = carts[d].status /\ carts'[d].owner = carts[d].owner)
    <3>1. CASE d # c
      BY <2>4, <3>1
    <3>2. CASE d = c
      <4>1. Unsettled(p)
        BY <2>10 DEF Unsettled, Awaits, ShopInv, UsedRestored
      <4>2. shopOrders'[p].reopened /\ shopOrders'[p].cart = d
        BY <2>6, <2>10, <3>2, <4>1 DEF Kept
      <4>3. Excused(d)'
        BY <4>2 DEF Excused, ReopenedUnder
      <4> QED
        BY <4>3
    <3> QED
      BY <3>1, <3>2
  <2>11. \A p \in ShopOrders : Awaits(shopOrders[p]) => shopOrders[p].cart \in CartIds
    BY DEF ShopInv, ShopTypes, OrderSound, Awaits, ShopOrder
  <2>12. PICK touched \in SUBSET CartIds : touched = {c}
    BY <1>2
  <2>13. /\ \A p \in ShopOrders : Kept(shopOrders[p], shopOrders'[p], touched)
         /\ \A p \in ShopOrders : Awaits(shopOrders[p]) =>
              \/ Excused(shopOrders[p].cart)
              \/ Excused(shopOrders[p].cart)'
              \/ /\ shopOrders[p].cart \notin touched /\ carts'[shopOrders[p].cart].status = carts[shopOrders[p].cart].status
                 /\ carts'[shopOrders[p].cart].owner = carts[shopOrders[p].cart].owner
    <3>1. ASSUME NEW p \in ShopOrders, Awaits(shopOrders[p]), ~Excused(shopOrders[p].cart)
          PROVE  \/ Excused(shopOrders[p].cart)'
                 \/ /\ shopOrders[p].cart \notin touched /\ carts'[shopOrders[p].cart].status = carts[shopOrders[p].cart].status
                    /\ carts'[shopOrders[p].cart].owner = carts[shopOrders[p].cart].owner
      BY <2>11, <3>1, <2>6, <2>10, <2>12 DEF Kept
    <3> QED
      BY <2>6, <2>12, <3>1
  <2> HIDE DEF c, os
  <2> QED
    BY <2>4, <2>7, <2>8, <2>9, <2>13, CartsUsed
<1> QED
  BY <1>4, <1>5

-----------------------------------------------------------------------------
(* Every step.                                                             *)

\* Nobody has a cart at first.
LEMMA ShopStarts == ShoppingInit => ShopInv
<1> SUFFICES ASSUME ShoppingInit PROVE ShopInv
  OBVIOUS
<1> DEFINE row == [status |-> "NONE", owner |-> Guest, lines |-> NoLines, into |-> NoCart]
           order == [status |-> "NONE", cart |-> NoCart, owner |-> Guest, lines |-> NoLines, expired |-> FALSE, usedSince |-> FALSE,
                     delivered |-> FALSE, restored |-> 0, reopened |-> FALSE]
<1>1. carts = [c \in CartIds |-> row] /\ shopOrders = [o \in ShopOrders |-> order]
  BY DEF ShoppingInit
<1>2. Guest \in Owners
  BY DEF Owners
<1>3. row \in CartRow /\ row.status = "NONE"
  BY <1>2, LinesStay DEF CartRow
<1>4. order \in ShopOrder /\ OrderSound(order) /\ ~Awaits(order) /\ ~order.expired /\ ~order.delivered
  BY <1>2, LinesStay DEF ShopOrder, OrderSound, Awaits
<1> HIDE DEF row, order
<1>5. ShopTypes /\ \A o \in ShopOrders : OrderSound(shopOrders[o])
  BY <1>1, <1>3, <1>4 DEF ShopTypes
<1>6. Waiting /\ OneAwaits /\ UsedRestored
  BY <1>1, <1>4 DEF Waiting, OneAwaits, UsedRestored
<1>7. OneActive
  BY <1>1, <1>3 DEF OneActive, ActiveOf, IsActive
<1> QED
  BY <1>5, <1>6, <1>7 DEF ShopInv

\* Each step on carts keeps the invariant.
LEMMA ShopStep == ShopInv /\ [ShoppingNext]_shoppingVars => ShopInv'
<1> SUFFICES ASSUME ShopInv, [ShoppingNext]_shoppingVars PROVE ShopInv'
  OBVIOUS
<1>1. CASE UNCHANGED shoppingVars
  <2>1. carts' = carts /\ shopOrders' = shopOrders
    BY <1>1 DEF shoppingVars
  <2>2. ShopTypes' /\ (\A o \in ShopOrders : OrderSound(shopOrders[o])') /\ OneActive'
    BY <2>1 DEF ShopInv, ShopTypes, OrderSound, OneActive, ActiveOf, IsActive
  <2>3. Waiting' /\ OneAwaits' /\ UsedRestored'
    BY <2>1 DEF ShopInv, Waiting, OneAwaits, UsedRestored, Awaits, Excused, ReopenedUnder
  <2> QED
    BY <2>2, <2>3 DEF ShopInv
<1>2. ASSUME NEW c \in CartIds,
             \/ createGuestCart(c)
             \/ \E owner \in Owners, v \in CartVariants, q \in 1..MAX_LINE_QUANTITY : addLine(owner, c, v, q) \/ changeLine(c, v, q)
             \/ \E v \in CartVariants : removeLine(c, v)
             \/ \E o \in ShopOrders, sold \in SUBSET CartVariants : reorder(o, c, sold)
      PROVE  ShopInv'
  BY <1>2, CartChanges
<1>3. ASSUME NEW c \in CartIds, deleteInactive(c) \/ (\E b \in Buyers : merge(b, c)) \/ (\E o \in ShopOrders : placeCartOrder(o, c))
      PROVE  ShopInv'
  BY <1>3, CartsDeleted, CartsMerge, OrderPlaced
<1>4. ASSUME NEW o \in ShopOrders,
             \/ expireShopOrder(o) \/ payShopOrder(o) \/ cancelOrder(o) \/ restoreExpiredOrder(o)
             \/ \E sold \in SUBSET CartVariants : reorderForGuest(o, sold)
      PROVE  ShopInv'
  BY <1>4, OrderMoves, EventArrives, CartReopened
<1>5. ASSUME NEW b \in Buyers, deleteCartsOf(b)
      PROVE  ShopInv'
  BY <1>5, CartsDeleted
<1>6. Guest \in Owners
  BY DEF Owners
<1> QED
  BY <1>1, <1>2, <1>3, <1>4, <1>5, <1>6 DEF ShoppingNext

\* A set whose members are the same has one at most.
LEMMA OneAtMost ==
  ASSUME NEW S, IsFiniteSet(S), \A x, y \in S : x = y
  PROVE  Cardinality(S) <= 1
<1>1. CASE S = {}
  BY <1>1, FS_EmptySet
<1>2. CASE S # {}
  BY <1>2, FS_Singleton
<1> QED
  BY <1>1, <1>2

\* For any number of carts, orders and customers, and however late or often the event of an expired order arrives: one
\* active cart per customer, the cart of an order that waits for its payment stays checked out, and the lines of an
\* expired order come back once (merge, checkOut, restoreExpiredOrder, toSourceCart).
THEOREM CartsAlwaysFollow == ShoppingSpec => []CartsFollowOrders
<1>1. ShopInv => CartsFollowOrders
  <2> SUFFICES ASSUME ShopInv PROVE CartsFollowOrders
    OBVIOUS
  <2>1. ShoppingTypeOK
    BY DEF ShopInv, ShopTypes, ShoppingTypeOK, CartRow, ShopOrder
  <2>2. ASSUME NEW b \in Buyers
        PROVE  Cardinality(ActiveOf(b)) <= 1
    <3>1. IsFiniteSet(CartIds)
      BY ShoppingAssumption, FS_Interval DEF CartIds
    <3>2. IsFiniteSet(ActiveOf(b))
      BY <3>1, FS_Subset DEF ActiveOf
    <3> QED
      BY <3>2, OneAtMost DEF ShopInv, OneActive
  <2>3. PendingKeepsCart
    BY DEF ShopInv, Waiting, Awaits, PendingKeepsCart
  <2>4. RestoredOnce
    BY DEF ShopInv, OrderSound, UsedRestored, RestoredOnce
  <2> QED
    BY <2>1, <2>2, <2>3, <2>4 DEF CartsFollowOrders, OneActiveCart
<1> QED
  BY <1>1, ShopStarts, ShopStep, PTL DEF ShoppingSpec

-----------------------------------------------------------------------------
(* Checkouts: the inductive invariant.                                     *)

Goods ==
  [price : [ShopTimes -> Nat], onSale : BOOLEAN, storeOnly : BOOLEAN, fee : Nat, auto : Nat, couponOn : BOOLEAN, uses : Nat,
   stock : Int, supply : Int]
PlaceSteps == {"buyer", "basket", "address", "variants", "prices", "discount", "shipping", "coupon", "stock", "insert"}
QuoteSteps == {"basket", "variants", "prices", "discount", "once", "fulfil", "shipping"}
KeptReasons == {"basket", "unsellable", "total", "unavailable", "exhausted", "noEligibleLines", "stock"}
Reasons ==
  KeptReasons \cup {"none", "refused", "placed", "failed", "customer", "address", "alreadyUsed", "buyerRequired", "code"}
CheckoutRow ==
  [asked : Requests, phase : {"none", "quote", "quoted", "place", "ended"}, step : PlaceSteps \cup QuoteSteps \cup {"none"},
   accepted : Int, ready : BOOLEAN, calm : BOOLEAN, reason : Reasons, at : ShopTimes, quantity : Nat, sellable : BOOLEAN,
   price : Nat, off : Nat, total : Int]
PlacedOrder ==
  [code : PublicCodes, basket : Baskets \cup {NoBasket}, contact : Contacts \cup {NoContact}, quantity : Nat, price : Nat,
   off : Nat, coupon : BOOLEAN, total : Int]

CheckoutTypes ==
  /\ goods \in Goods
  /\ baskets \in [Baskets -> [status : {"ACTIVE", "CHECKED_OUT"}, quantity : Nat]]
  /\ account \in [active : BOOLEAN, saved : BOOLEAN]
  /\ checkout \in [Checkouts -> CheckoutRow]
  /\ DOMAIN placed \subseteq Checkouts /\ \A k \in DOMAIN placed : placed[k] \in PlacedOrder
  /\ shopClock \in ShopTimes /\ changes \in Nat

\* What a row of the checkouts says of the shop: g is the goods, bs the baskets, a the account, os the orders, t the time.
PriceAt(g, t) == LET begun == {u \in 0..t : g.price[u] # Unpriced} IN IF begun = {} THEN Unpriced ELSE g.price[Max(begun)]
UsedBy(os, contact) == \E k \in DOMAIN os : os[k].coupon /\ os[k].contact = contact
Amount(sellable, quantity, price, off, ships, fee) ==
  (IF sellable THEN quantity * price - off ELSE 0) + (IF ships THEN fee ELSE 0)

AfterBasket == {"address", "variants", "prices", "discount", "shipping", "coupon", "stock", "insert"}
HasBasket(c, b) == c.phase = "place" /\ c.asked.basket = b /\ c.step \in AfterBasket
HasCoupon(c) == c.phase = "place" /\ c.asked.coupon /\ c.step \in {"stock", "insert"}
HasStock(c) == c.phase = "place" /\ c.step = "insert"

\* The steps of each phase, and what a checkout knows when it comes to them.
Shape(c) ==
  /\ c.phase \in {"none", "quoted", "ended"} => c.step = "none"
  /\ c.phase = "quote" => c.step \in QuoteSteps
  /\ c.phase = "place" => c.step \in PlaceSteps
  /\ c.phase = "none" \/ (c.phase = "quote" /\ c.step # "shipping") => ~c.ready
  /\ c.phase = "place" /\ c.step \in {"shipping", "coupon", "stock", "insert"} => c.sellable
  /\ c.phase = "place" /\ c.step \in {"coupon", "stock", "insert"} =>
       c.total = c.accepted /\ c.total >= c.quantity * c.price - c.off

\* What it has locked is still as it found it.
Holding(c, g, bs, os) ==
  /\ \A b \in Baskets : HasBasket(c, b) => bs[b].status = "ACTIVE" /\ bs[b].quantity = c.quantity
  /\ HasCoupon(c) => g.uses < UsageLimit /\ ~UsedBy(os, contactOf(c.asked))
  /\ HasStock(c) => g.stock >= c.quantity

\* What a request finds in the shop as it is now.
BasketServes(r, bs) == r.basket = NoBasket \/ (bs[r.basket].status = "ACTIVE" /\ bs[r.basket].quantity # 0)
QuantityNow(r, bs) == IF r.basket = NoBasket THEN r.quantity ELSE bs[r.basket].quantity
OnSaleNow(r, g) == g.onSale /\ (r.channel = "STORE" \/ ~g.storeOnly)
SellableNow(r, g, t) == OnSaleNow(r, g) /\ PriceAt(g, t) # Unpriced
OffNow(r, g, t) == IF r.coupon THEN DISCOUNT ELSE IF SellableNow(r, g, t) THEN g.auto ELSE 0
CouponServes(r, g, t) == r.coupon => g.couponOn /\ g.uses < UsageLimit /\ SellableNow(r, g, t)
OnceServes(r, a, os) == ~(r.channel = "ONLINE" /\ r.customer /\ r.coupon /\ a.active /\ UsedBy(os, AccountContact))
TotalNow(r, g, bs, t) ==
  Amount(SellableNow(r, g, t), QuantityNow(r, bs), PriceAt(g, t), OffNow(r, g, t), r.ships, g.fee)

\* While nothing changed, what a checkout read is what there is; and what made a quote ready to place still is.
ReadsNow(c, g, bs, t) ==
  /\ c.phase \in {"quote", "place"} => c.at = t
  /\ c.phase \in {"quote", "place"} /\ c.step \notin {"buyer", "basket"} =>
       BasketServes(c.asked, bs) /\ c.quantity = QuantityNow(c.asked, bs)
  /\ c.step = "prices" => (c.sellable <=> OnSaleNow(c.asked, g))
  /\ c.step \in {"discount", "once", "fulfil", "shipping", "coupon", "stock", "insert"} =>
       c.price = PriceAt(g, t) /\ (c.sellable <=> SellableNow(c.asked, g, t))
  /\ c.step \in {"once", "fulfil", "shipping", "coupon", "stock", "insert"} =>
       c.off = OffNow(c.asked, g, t) /\ CouponServes(c.asked, g, t)
ReadyNow(c, g, bs, a, os, t) ==
  /\ c.phase \in {"quote", "quoted", "place"} =>
       /\ BasketServes(c.asked, bs) /\ SellableNow(c.asked, g, t) /\ g.stock >= QuantityNow(c.asked, bs)
       /\ CouponServes(c.asked, g, t) /\ OnceServes(c.asked, a, os)
  /\ c.phase \in {"quoted", "place"} => c.accepted = TotalNow(c.asked, g, bs, t)
  /\ c.phase = "place" /\ c.step # "buyer" => (c.asked.customer => a.active)
  /\ c.phase = "ended" =>
       /\ c.reason \notin KeptReasons
       /\ c.reason = "alreadyUsed" => c.asked.channel = "STORE" \/ ~c.asked.customer
Calm(c, g, bs, a, os, t) ==
  c.calm =>
    /\ ReadsNow(c, g, bs, t)
    /\ c.phase = "quote" /\ c.step \in {"fulfil", "shipping"} => OnceServes(c.asked, a, os)
    /\ c.ready => ReadyNow(c, g, bs, a, os, t)

RowFits(c, g, bs, a, os, t) == Shape(c) /\ Holding(c, g, bs, os) /\ Calm(c, g, bs, a, os, t)
RowsFit == \A k \in Checkouts : RowFits(checkout[k], goods, baskets, account, placed, shopClock)

\* No two checkouts have the same lock.
Together(c, d) == (\E b \in Baskets : HasBasket(c, b) /\ HasBasket(d, b)) \/ (HasCoupon(c) /\ HasCoupon(d)) \/ (HasStock(c) /\ HasStock(d))
LocksApart == \A j, k \in Checkouts : j # k => ~Together(checkout[j], checkout[k])

OrdersEnded ==
  \A k \in PlacedOrders :
    /\ checkout[k].phase = "ended" /\ placed[k].total = checkout[k].accepted
    /\ placed[k].total >= placed[k].quantity * placed[k].price - placed[k].off
OrdersCounted == IsFiniteSet(PlacedOrders) /\ IsFiniteSet(UnitsPlaced)

CheckoutInv == CheckoutTypes /\ RowsFit /\ LocksApart /\ OrdersEnded /\ OrdersCounted /\ OrdersAddUp

\* The lowest price and fee are amounts, and a checkout not asked for is one.
LEMMA CheckoutConstants ==
  /\ Min(UnitPrices) \in Nat /\ Min(ShippingFees) \in Nat /\ (CHOOSE r \in Requests : TRUE) \in Requests
  /\ 0 \in ShopTimes /\ Unasked \in CheckoutRow
<1>1. Min(UnitPrices) \in Nat
  BY CheckoutAssumption, LeastNat DEF Min
<1>2. Min(ShippingFees) \in Nat
  BY CheckoutAssumption, LeastNat DEF Min
<1>3. (CHOOSE r \in Requests : TRUE) \in Requests
  BY CheckoutAssumption
<1>4. 0 \in ShopTimes
  BY CheckoutAssumption DEF ShopTimes
<1>5. Unasked \in CheckoutRow
  <2> DEFINE r == CHOOSE r \in Requests : TRUE
  <2>1. r \in Requests
    BY <1>3
  <2>2. Unasked = [asked |-> r, phase |-> "none", step |-> "none", accepted |-> 0, ready |-> FALSE, calm |-> TRUE,
                   reason |-> "none", at |-> 0, quantity |-> 0, sellable |-> FALSE, price |-> 0, off |-> 0, total |-> 0]
    BY DEF Unasked, Unpriced
  <2> HIDE DEF r
  <2> QED
    BY <1>4, <2>1, <2>2 DEF CheckoutRow, Reasons
<1> QED
  BY <1>1, <1>2, <1>3, <1>4, <1>5

\* A price at some time is an amount.
LEMMA PriceIsNat ==
  ASSUME NEW g \in Goods, NEW t \in ShopTimes
  PROVE  PriceAt(g, t) \in Nat
<1> DEFINE begun == {u \in 0..t : g.price[u] # Unpriced}
<1>1. t \in Nat /\ 0..t \subseteq ShopTimes
  BY CheckoutAssumption DEF ShopTimes
<1>2. CASE begun = {}
  BY <1>2 DEF PriceAt, Unpriced
<1>3. CASE begun # {}
  <2>1. begun \subseteq 0..t
    OBVIOUS
  <2> DEFINE left == {t - u : u \in begun}
  <2>2. PICK m \in left : \A n \in left : m <= n
    <3>1. left # {}
      BY <1>3
    <3>2. left \subseteq Nat
      BY <1>1, <2>1
    <3> HIDE DEF left
    <3> QED
      BY <3>1, <3>2, LeastNat
  <2>3. PICK x \in begun : m = t - x
    BY <2>2
  <2>4. ASSUME NEW y \in begun PROVE x >= y
    BY <2>2, <1>1, <2>1, <2>3
  <2> HIDE DEF begun
  <2>5. Max(begun) \in begun
    BY <2>4 DEF Max
  <2>6. Max(begun) \in ShopTimes
    BY <1>1, <2>1, <2>5
  <2>7. PriceAt(g, t) = g.price[Max(begun)]
    BY <1>3 DEF PriceAt, begun
  <2> QED
    BY <2>6, <2>7 DEF Goods
<1> QED
  BY <1>2, <1>3

\* The locks, by step.
LEMMA LocksAre ==
  ASSUME CheckoutTypes, NEW k \in Checkouts, Shape(checkout[k])
  PROVE  /\ \A b : locksBasket(k, b) <=> HasBasket(checkout[k], b)
         /\ locksCoupon(k) <=> HasCoupon(checkout[k])
         /\ locksStock(k) <=> HasStock(checkout[k])
         /\ sharesAccount(k) <=> checkout[k].asked.customer /\ checkout[k].phase = "place" /\ checkout[k].step # "buyer"
<1>1. checkout[k].phase = "place" => checkout[k].step \in PlaceSteps
  BY DEF Shape
<1>2. /\ Rank["buyer"] = 1 /\ Rank["basket"] = 2 /\ Rank["address"] = 3 /\ Rank["variants"] = 4 /\ Rank["prices"] = 5
      /\ Rank["discount"] = 6 /\ Rank["shipping"] = 7 /\ Rank["coupon"] = 8 /\ Rank["stock"] = 9 /\ Rank["insert"] = 10
  BY DEF Rank
<1>3. checkout[k].phase = "place" =>
        /\ Past(k, "basket") <=> checkout[k].step \in AfterBasket
        /\ Past(k, "coupon") <=> checkout[k].step \in {"stock", "insert"}
        /\ Past(k, "stock") <=> checkout[k].step = "insert"
        /\ Past(k, "buyer") <=> checkout[k].step # "buyer"
  BY <1>1, <1>2 DEF Past, PlaceSteps, AfterBasket
<1>4. checkout[k].phase # "place" => \A step : ~Past(k, step)
  BY DEF Past
<1> QED
  BY <1>3, <1>4 DEF locksBasket, locksCoupon, locksStock, sharesAccount, HasBasket, HasCoupon, HasStock, Wanted

\* A step that changes one checkout, which has the locks it had or takes them free.
LEMMA OnlyKeeps ==
  ASSUME CheckoutInv, NEW k \in Checkouts, NEW c \in CheckoutRow, Only(k, c), checkout[k].phase # "ended",
         RowFits(c, goods, baskets, account, placed, shopClock),
         \A j \in Checkouts \ {k} : ~Together(checkout[j], c) /\ ~Together(c, checkout[j])
  PROVE  CheckoutInv'
<1>1. /\ checkout' \in [Checkouts -> CheckoutRow] /\ checkout'[k] = c
      /\ \A j \in Checkouts \ {k} : checkout'[j] = checkout[j]
  BY DEF CheckoutInv, CheckoutTypes, Only
<1>2. UNCHANGED <<goods, baskets, account, placed, shopClock, changes>>
  BY DEF Only
<1>3. CheckoutTypes'
  BY <1>1, <1>2 DEF CheckoutInv, CheckoutTypes
<1>4. RowsFit'
  BY <1>1, <1>2 DEF CheckoutInv, RowsFit
<1>5. LocksApart'
  BY <1>1 DEF CheckoutInv, LocksApart
<1>6. OrdersEnded'
  BY <1>1, <1>2 DEF CheckoutInv, CheckoutTypes, OrdersEnded, PlacedOrders
<1>7. OrdersCounted' /\ OrdersAddUp'
  BY <1>2 DEF CheckoutInv, OrdersCounted, OrdersAddUp, PlacedOrders, UnitsPlaced, OfBasket, WithCoupon
<1> QED
  BY <1>3, <1>4, <1>5, <1>6, <1>7 DEF CheckoutInv

\* A checkout that takes no lock shares none.
LEMMA NoNewLock ==
  ASSUME CheckoutInv, NEW k \in Checkouts, NEW c \in CheckoutRow,
         \A b \in Baskets : HasBasket(c, b) => HasBasket(checkout[k], b) \/ BasketFree(k, b),
         HasCoupon(c) => HasCoupon(checkout[k]) \/ CouponFree(k),
         HasStock(c) => HasStock(checkout[k]) \/ StockFree(k),
         NEW j \in Checkouts \ {k}
  PROVE  ~Together(checkout[j], c) /\ ~Together(c, checkout[j])
<1>1. ~Together(checkout[j], checkout[k]) /\ ~Together(checkout[k], checkout[j])
  BY DEF CheckoutInv, LocksApart
<1>2. /\ \A b : locksBasket(j, b) <=> HasBasket(checkout[j], b)
      /\ locksCoupon(j) <=> HasCoupon(checkout[j])
      /\ locksStock(j) <=> HasStock(checkout[j])
  BY LocksAre DEF CheckoutInv, RowsFit, RowFits
<1> QED
  BY <1>1, <1>2 DEF Together, BasketFree, CouponFree, StockFree

AllSteps == PlaceSteps \cup QuoteSteps \cup {"none"}

\* The other fields of two rows are the same.
SameRest(c, r) ==
  /\ c.asked = r.asked /\ c.accepted = r.accepted /\ c.ready = r.ready /\ c.calm = r.calm /\ c.reason = r.reason /\ c.at = r.at
SameReads(c, r) ==
  /\ c.quantity = r.quantity /\ c.sellable = r.sellable /\ c.price = r.price /\ c.off = r.off /\ c.total = r.total

\* The next step of a checkout leaves what it read.
LEMMA RowStep ==
  ASSUME NEW r \in CheckoutRow, NEW s \in AllSteps
  PROVE  LET c == [r EXCEPT !.step = s]
         IN c \in CheckoutRow /\ c.step = s /\ c.phase = r.phase /\ SameRest(c, r) /\ SameReads(c, r)
  BY DEF CheckoutRow, AllSteps, SameRest, SameReads

\* A checkout that starts again has read nothing.
LEMMA RowUnread ==
  ASSUME NEW r \in CheckoutRow
  PROVE  /\ Unread(r) \in CheckoutRow
         /\ LET c == Unread(r) IN c.phase = r.phase /\ c.step = r.step /\ SameRest(c, [r EXCEPT !.at = 0])
<1> DEFINE u == [r EXCEPT !.at = 0]
           v == [u EXCEPT !.quantity = 0, !.sellable = FALSE]
           w == [v EXCEPT !.price = 0, !.off = 0]
<1>1. 0 \in ShopTimes
  BY CheckoutConstants
<1>2. u \in CheckoutRow /\ u.phase = r.phase /\ u.step = r.step
  BY <1>1 DEF CheckoutRow
<1>3. Unread(r) = [w EXCEPT !.total = 0]
  BY DEF Unread, Unpriced
<1> HIDE DEF u
<1>4. v \in CheckoutRow /\ v.phase = u.phase /\ v.step = u.step /\ SameRest(v, u)
  BY <1>2 DEF CheckoutRow, SameRest
<1> HIDE DEF v
<1>5. w \in CheckoutRow /\ w.phase = u.phase /\ w.step = u.step /\ SameRest(w, u)
  BY <1>4 DEF CheckoutRow, SameRest
<1> HIDE DEF w
<1>6. Unread(r) \in CheckoutRow /\ LET c == Unread(r) IN c.phase = u.phase /\ c.step = u.step /\ SameRest(c, u)
  BY <1>3, <1>5 DEF CheckoutRow, SameRest
<1> QED
  BY <1>2, <1>6 DEF u

\* A checkout that ended keeps what it was asked and accepted.
LEMMA RowEnded ==
  ASSUME NEW r \in CheckoutRow, NEW why \in Reasons
  PROVE  LET c == Ended(r, why) IN
         /\ c \in CheckoutRow /\ c.phase = "ended" /\ c.step = "none" /\ c.reason = why
         /\ c.asked = r.asked /\ c.accepted = r.accepted /\ c.ready = r.ready /\ c.calm = r.calm
<1> DEFINE u == Unread(r)
<1>1. u \in CheckoutRow /\ u.asked = r.asked /\ u.accepted = r.accepted /\ u.ready = r.ready /\ u.calm = r.calm
  BY RowUnread DEF CheckoutRow, SameRest
<1>2. Ended(r, why) = [u EXCEPT !.phase = "ended", !.step = "none", !.reason = why]
  BY DEF Ended
<1> HIDE DEF u
<1> QED
  BY <1>1, <1>2, ZenonT(30) DEF CheckoutRow

\* A change of the shop under a checkout leaves what it read.
LEMMA RowUncalm ==
  ASSUME NEW r \in CheckoutRow
  PROVE  LET c == [r EXCEPT !.calm = FALSE] IN
         /\ c \in CheckoutRow /\ c.phase = r.phase /\ c.step = r.step /\ c.asked = r.asked /\ c.accepted = r.accepted
         /\ c.ready = r.ready /\ c.reason = r.reason /\ c.at = r.at /\ SameReads(c, r) /\ c.calm = FALSE
  BY DEF CheckoutRow, SameReads

\* What a row of the invariant says, in a state.
LEMMA RowOf ==
  ASSUME CheckoutInv, NEW k \in Checkouts
  PROVE  /\ checkout[k] \in CheckoutRow /\ RowFits(checkout[k], goods, baskets, account, placed, shopClock)
         /\ goods \in Goods /\ shopClock \in ShopTimes
         /\ checkout[k].asked \in Requests /\ checkout[k].asked \in RequestType
<1>1. checkout[k] \in CheckoutRow /\ RowFits(checkout[k], goods, baskets, account, placed, shopClock)
  BY DEF CheckoutInv, CheckoutTypes, RowsFit
<1>2. checkout[k].asked \in Requests
  BY <1>1 DEF CheckoutRow
<1> QED
  BY <1>1, <1>2, CheckoutAssumption DEF CheckoutInv, CheckoutTypes

\* An ended row of a quote that was kept, or of one that does not tell why, says nothing more.
LEMMA EndedFits ==
  ASSUME NEW c \in CheckoutRow, c.phase = "ended", c.step = "none",
         c.calm /\ c.ready => /\ c.reason \notin KeptReasons
                              /\ c.reason = "alreadyUsed" => c.asked.channel = "STORE" \/ ~c.asked.customer
  PROVE  \A g, bs, a, os, t : RowFits(c, g, bs, a, os, t)
  BY DEF RowFits, Shape, Holding, HasBasket, HasCoupon, HasStock, Calm, ReadsNow, ReadyNow

\* A refusal keeps the invariant, when the shop gave a reason for it or changed.
LEMMA RefuseKeeps ==
  ASSUME CheckoutInv, NEW k \in Checkouts, NEW why \in Reasons, Refuse(k, why), checkout[k].phase # "ended",
         checkout[k].calm /\ checkout[k].ready =>
           /\ why \notin KeptReasons
           /\ why = "alreadyUsed" => checkout[k].asked.channel = "STORE" \/ ~checkout[k].asked.customer
  PROVE  CheckoutInv'
<1> DEFINE r == checkout[k]
           c == IF r.calm /\ r.ready THEN Ended(r, why) ELSE Ended(Unasked, "refused")
<1>1. r \in CheckoutRow /\ Unasked \in CheckoutRow /\ "refused" \in Reasons /\ ~Unasked.ready
  BY RowOf, CheckoutConstants DEF Reasons, Unasked
<1>2. /\ c \in CheckoutRow /\ c.phase = "ended" /\ c.step = "none"
      /\ c.calm /\ c.ready => r.calm /\ r.ready /\ c.reason = why /\ c.asked = r.asked
  <2>1. CASE r.calm /\ r.ready
    BY <2>1, <1>1, RowEnded
  <2>2. CASE ~(r.calm /\ r.ready)
    BY <2>2, <1>1, RowEnded
  <2> QED
    BY <2>1, <2>2
<1>3. Only(k, c)
  BY DEF Refuse
<1> HIDE DEF c
<1>4. RowFits(c, goods, baskets, account, placed, shopClock)
  BY <1>2, EndedFits
<1>5. \A j \in Checkouts \ {k} : ~Together(checkout[j], c) /\ ~Together(c, checkout[j])
  BY <1>2 DEF Together, HasBasket, HasCoupon, HasStock
<1> QED
  BY <1>2, <1>3, <1>4, <1>5, OnlyKeeps

-----------------------------------------------------------------------------
(* Every step of a checkout keeps the invariant.                           *)

\* Asking for an order keeps the invariant.
LEMMA AskKeeps ==
  ASSUME CheckoutInv, NEW k \in Checkouts, NEW q \in Requests, ask(k, q)
  PROVE  CheckoutInv'
<1> DEFINE r == checkout[k]
           c == [r EXCEPT !.asked = q, !.phase = "quote", !.step = "basket", !.at = shopClock]
<1>1. r \in CheckoutRow /\ Shape(r) /\ shopClock \in ShopTimes /\ r.phase = "none"
  BY RowOf DEF RowFits, ask
<1>2. c \in CheckoutRow /\ c.phase = "quote" /\ c.step = "basket" /\ c.at = shopClock /\ ~c.ready
  BY <1>1 DEF CheckoutRow, Shape, PlaceSteps
<1>3. Only(k, c) /\ checkout[k].phase # "ended"
  BY <1>1 DEF ask
<1> HIDE DEF c
<1>4. RowFits(c, goods, baskets, account, placed, shopClock)
  BY <1>2 DEF RowFits, Shape, Holding, HasBasket, HasCoupon, HasStock, Calm, ReadsNow, QuoteSteps
<1>5. \A j \in Checkouts \ {k} : ~Together(checkout[j], c) /\ ~Together(c, checkout[j])
  BY <1>2 DEF Together, HasBasket, HasCoupon, HasStock
<1> QED
  BY <1>2, <1>3, <1>4, <1>5, OnlyKeeps

\* Accepting what was shown does.
LEMMA AcceptKeeps ==
  ASSUME CheckoutInv, NEW k \in Checkouts, accept(k)
  PROVE  CheckoutInv'
<1> DEFINE r == checkout[k]
           c == [r EXCEPT !.phase = "place", !.step = "buyer", !.at = shopClock]
<1>1. r \in CheckoutRow /\ shopClock \in ShopTimes /\ r.phase = "quoted"
  BY RowOf DEF At, accept
<1>2. /\ c \in CheckoutRow /\ c.phase = "place" /\ c.step = "buyer" /\ c.at = shopClock
      /\ c.ready = r.ready /\ c.calm = r.calm /\ c.asked = r.asked /\ c.accepted = r.accepted
  BY <1>1 DEF CheckoutRow, PlaceSteps
<1>3. Only(k, c) /\ checkout[k].phase # "ended"
  BY <1>1 DEF accept
<1>4. Calm(r, goods, baskets, account, placed, shopClock)
  BY RowOf DEF RowFits
<1> HIDE DEF c, r
<1>5. r.calm /\ r.ready => ReadyNow(c, goods, baskets, account, placed, shopClock)
  BY <1>1, <1>2, <1>4 DEF Calm, ReadyNow
<1>6. ReadsNow(c, goods, baskets, shopClock)
  BY <1>2 DEF ReadsNow
<1>7. Calm(c, goods, baskets, account, placed, shopClock)
  BY <1>2, <1>5, <1>6 DEF Calm
<1>8. RowFits(c, goods, baskets, account, placed, shopClock)
  BY <1>2, <1>7 DEF RowFits, Shape, Holding, HasBasket, HasCoupon, HasStock, AfterBasket, PlaceSteps
<1>9. \A j \in Checkouts \ {k} : ~Together(checkout[j], c) /\ ~Together(c, checkout[j])
  BY <1>2 DEF Together, HasBasket, HasCoupon, HasStock, AfterBasket
<1> QED
  BY <1>2, <1>3, <1>8, <1>9, OnlyKeeps DEF r

\* A step of a transaction, which takes its locks free and fits the shop as it is.
LEMMA StepKeeps ==
  ASSUME CheckoutInv, NEW k \in Checkouts, NEW c \in CheckoutRow, Only(k, c), checkout[k].phase \in {"quote", "place"},
         Shape(c), Holding(c, goods, baskets, placed), Calm(c, goods, baskets, account, placed, shopClock),
         \A b \in Baskets : HasBasket(c, b) => HasBasket(checkout[k], b) \/ BasketFree(k, b),
         HasCoupon(c) => HasCoupon(checkout[k]) \/ CouponFree(k),
         HasStock(c) => HasStock(checkout[k]) \/ StockFree(k)
  PROVE  CheckoutInv'
<1>1. RowFits(c, goods, baskets, account, placed, shopClock)
  BY DEF RowFits
<1>2. \A j \in Checkouts \ {k} : ~Together(checkout[j], c) /\ ~Together(c, checkout[j])
  BY NoNewLock
<1> QED
  BY <1>1, <1>2, OnlyKeeps

\* Reading who buys does.
LEMMA BuyerKeeps ==
  ASSUME CheckoutInv, NEW k \in Checkouts, buyer(k)
  PROVE  CheckoutInv'
<1> DEFINE r == checkout[k]
           c == [r EXCEPT !.step = "basket"]
<1>1. r \in CheckoutRow /\ r.phase = "place" /\ r.step = "buyer"
  BY RowOf DEF At, buyer
<1>2. CASE r.asked.customer /\ ~account.active
  BY <1>2, <1>1, RefuseKeeps DEF buyer, Wanted, Reasons, KeptReasons
<1>3. CASE r.asked.customer => account.active
  <2>1. Only(k, c)
    BY <1>3 DEF buyer, Wanted, Moves
  <2>2. c \in CheckoutRow /\ c.step = "basket" /\ c.phase = r.phase /\ SameRest(c, r) /\ SameReads(c, r)
    BY <1>1, RowStep DEF AllSteps, PlaceSteps
  <2>3. Calm(r, goods, baskets, account, placed, shopClock)
    BY RowOf DEF RowFits
  <2> HIDE DEF c, r
  <2>4. r.calm => ReadsNow(c, goods, baskets, shopClock)
    BY <1>1, <2>2, <2>3 DEF Calm, ReadsNow, SameRest
  <2>5. r.calm /\ r.ready => ReadyNow(c, goods, baskets, account, placed, shopClock)
    BY <1>1, <1>3, <2>2, <2>3 DEF Calm, ReadyNow, SameRest
  <2>6. Calm(c, goods, baskets, account, placed, shopClock)
    BY <1>1, <2>2, <2>4, <2>5 DEF Calm, SameRest
  <2>7. Shape(c) /\ Holding(c, goods, baskets, placed)
    BY <1>1, <2>2 DEF Shape, Holding, HasBasket, HasCoupon, HasStock, AfterBasket, PlaceSteps
  <2>8. ~HasCoupon(c) /\ ~HasStock(c) /\ \A b \in Baskets : ~HasBasket(c, b)
    BY <2>2 DEF HasBasket, HasCoupon, HasStock, AfterBasket
  <2> QED
    BY <1>1, <2>1, <2>2, <2>6, <2>7, <2>8, StepKeeps DEF r
<1> QED
  BY <1>2, <1>3

\* The lines come from the cart, which serves, or from the staff.
LEMMA CartKeeps ==
  ASSUME CheckoutInv, NEW k \in Checkouts, cartToQuote(k)
  PROVE  CheckoutInv'
<1> DEFINE r == checkout[k]
           q == QuantityNow(r.asked, baskets)
           s == IF r.phase = "place" THEN "address" ELSE "variants"
           c == [r EXCEPT !.step = s, !.quantity = q]
<1>1. /\ r \in CheckoutRow /\ r.phase \in {"quote", "place"} /\ r.step = "basket" /\ r.asked.basket \in Baskets \cup {NoBasket}
      /\ r.asked.quantity \in Nat
  BY RowOf DEF cartToQuote, RequestType
<1>2. Shape(r) /\ Calm(r, goods, baskets, account, placed, shopClock)
  BY RowOf DEF RowFits
<1>3. CASE ~BasketServes(r.asked, baskets)
  <2>1. Refuse(k, "basket") /\ "basket" \in Reasons
    BY <1>3 DEF cartToQuote, Wanted, BasketServes, Reasons, KeptReasons
  <2>2. ~(r.calm /\ r.ready)
    <3> HIDE DEF r
    <3> QED
      BY <1>1, <1>2, <1>3 DEF Calm, ReadyNow
  <2> QED
    BY <1>1, <2>1, <2>2, RefuseKeeps
<1>4. CASE BasketServes(r.asked, baskets)
  <2>1. Only(k, c)
    BY <1>1, <1>4 DEF cartToQuote, Wanted, BasketServes, QuantityNow
  <2>2. q \in Nat
    BY <1>1 DEF QuantityNow, CheckoutInv, CheckoutTypes
  <2>3. r.phase = "place" => \A b \in Baskets : r.asked.basket = b => BasketFree(k, b) /\ baskets[b].status = "ACTIVE" /\ baskets[b].quantity = q
    BY <1>4, CheckoutAssumption DEF cartToQuote, Wanted, BasketServes, QuantityNow
  <2> HIDE DEF q
  <2>4. /\ c \in CheckoutRow /\ c.step = s /\ c.phase = r.phase /\ c.quantity = q /\ c.asked = r.asked /\ c.ready = r.ready
        /\ c.calm = r.calm /\ c.at = r.at /\ c.accepted = r.accepted
    BY <1>1, <2>2 DEF CheckoutRow, QuoteSteps, PlaceSteps
  <2>5. s \in {"address", "variants"} /\ (r.phase = "quote" => s = "variants")
    BY <1>1
  <2> HIDE DEF c, r, s
  <2>6. r.calm => ReadsNow(c, goods, baskets, shopClock)
    BY <1>1, <1>2, <1>4, <2>4, <2>5 DEF Calm, ReadsNow, q
  <2>7. r.calm /\ r.ready => ReadyNow(c, goods, baskets, account, placed, shopClock)
    BY <1>1, <1>2, <2>4 DEF Calm, ReadyNow
  <2>8. Calm(c, goods, baskets, account, placed, shopClock)
    BY <1>1, <2>4, <2>5, <2>6, <2>7 DEF Calm
  <2>9. Shape(c)
    BY <1>1, <1>2, <2>4, <2>5 DEF Shape, PlaceSteps, QuoteSteps
  <2>10. Holding(c, goods, baskets, placed) /\ ~HasCoupon(c) /\ ~HasStock(c)
    BY <1>1, <2>3, <2>4, <2>5 DEF Holding, HasBasket, HasCoupon, HasStock
  <2>11. \A b \in Baskets : HasBasket(c, b) => BasketFree(k, b)
    BY <1>1, <2>3, <2>4 DEF HasBasket
  <2> QED
    BY <1>1, <2>1, <2>4, <2>8, <2>9, <2>10, <2>11, StepKeeps DEF r
<1> QED
  BY <1>3, <1>4

\* Reading the address does.
LEMMA AddressKeeps ==
  ASSUME CheckoutInv, NEW k \in Checkouts, shippingAddress(k)
  PROVE  CheckoutInv'
<1> DEFINE r == checkout[k]
           c == [r EXCEPT !.step = "variants"]
<1>1. r \in CheckoutRow /\ r.phase = "place" /\ r.step = "address"
  BY RowOf DEF At, shippingAddress
<1>2. CASE Refuse(k, "address")
  BY <1>1, <1>2, RefuseKeeps DEF Reasons, KeptReasons
<1>3. CASE Moves(k, "variants")
  <2>1. Only(k, c)
    BY <1>3 DEF Moves
  <2>2. c \in CheckoutRow /\ c.step = "variants" /\ c.phase = r.phase /\ SameRest(c, r) /\ SameReads(c, r)
    BY <1>1, RowStep DEF AllSteps, PlaceSteps
  <2>3. Shape(r) /\ Holding(r, goods, baskets, placed) /\ Calm(r, goods, baskets, account, placed, shopClock)
    BY RowOf DEF RowFits
  <2> HIDE DEF c, r
  <2>4. r.calm => ReadsNow(c, goods, baskets, shopClock)
    BY <1>1, <2>2, <2>3 DEF Calm, ReadsNow, SameRest, SameReads
  <2>5. r.calm /\ r.ready => ReadyNow(c, goods, baskets, account, placed, shopClock)
    BY <1>1, <2>2, <2>3 DEF Calm, ReadyNow, SameRest
  <2>6. Calm(c, goods, baskets, account, placed, shopClock)
    BY <1>1, <2>2, <2>4, <2>5 DEF Calm, SameRest
  <2>7. \A b \in Baskets : HasBasket(c, b) => HasBasket(r, b)
    BY <1>1, <2>2 DEF HasBasket, SameRest, AfterBasket
  <2>8. ~HasCoupon(c) /\ ~HasStock(c)
    BY <2>2 DEF HasCoupon, HasStock
  <2>9. Shape(c) /\ Holding(c, goods, baskets, placed)
    BY <1>1, <2>2, <2>3, <2>7, <2>8 DEF Shape, Holding, PlaceSteps, SameReads, SameRest
  <2> QED
    BY <1>1, <2>1, <2>2, <2>6, <2>7, <2>8, <2>9, StepKeeps DEF r
<1> QED
  BY <1>2, <1>3 DEF shippingAddress

\* Reading what is sold does.
LEMMA VariantsKeep ==
  ASSUME CheckoutInv, NEW k \in Checkouts, readVariants(k)
  PROVE  CheckoutInv'
<1> DEFINE r == checkout[k]
           on == OnSaleNow(r.asked, goods)
           c == [r EXCEPT !.step = "prices", !.sellable = on]
<1>1. r \in CheckoutRow /\ r.phase \in {"quote", "place"} /\ r.step = "variants"
  BY RowOf DEF Assessing, readVariants
<1>2. Shape(r) /\ Holding(r, goods, baskets, placed) /\ Calm(r, goods, baskets, account, placed, shopClock)
  BY RowOf DEF RowFits
<1>3. Only(k, c)
  BY DEF readVariants, OnSaleNow, Wanted
<1>4. on \in BOOLEAN
  BY DEF OnSaleNow
<1> HIDE DEF on
<1>5. /\ c \in CheckoutRow /\ c.step = "prices" /\ c.phase = r.phase /\ SameRest(c, r) /\ (c.sellable <=> on)
      /\ c.quantity = r.quantity
  BY <1>1, <1>4 DEF CheckoutRow, PlaceSteps, SameRest
<1> HIDE DEF c, r
<1>6. r.calm => ReadsNow(c, goods, baskets, shopClock)
  BY <1>1, <1>2, <1>5 DEF Calm, ReadsNow, SameRest, on
<1>7. r.calm /\ r.ready => ReadyNow(c, goods, baskets, account, placed, shopClock)
  BY <1>1, <1>2, <1>5 DEF Calm, ReadyNow, SameRest
<1>8. Calm(c, goods, baskets, account, placed, shopClock)
  BY <1>1, <1>5, <1>6, <1>7 DEF Calm, SameRest
<1>9. (\A b \in Baskets : HasBasket(c, b) => HasBasket(r, b)) /\ ~HasCoupon(c) /\ ~HasStock(c)
  BY <1>1, <1>5 DEF HasBasket, HasCoupon, HasStock, SameRest, AfterBasket
<1>10. Shape(c) /\ Holding(c, goods, baskets, placed)
  BY <1>1, <1>2, <1>5, <1>9 DEF Shape, Holding, PlaceSteps, QuoteSteps, SameRest
<1> QED
  BY <1>1, <1>3, <1>5, <1>8, <1>9, <1>10, StepKeeps DEF r

\* Reading the prices does.
LEMMA PricesKeep ==
  ASSUME CheckoutInv, NEW k \in Checkouts, readPrices(k)
  PROVE  CheckoutInv'
<1> DEFINE r == checkout[k]
           p == PriceAt(goods, r.at)
           c == [r EXCEPT !.step = "discount", !.price = p, !.sellable = @ /\ p # Unpriced]
<1>1. r \in CheckoutRow /\ r.phase \in {"quote", "place"} /\ r.step = "prices"
  BY RowOf DEF Assessing, readPrices
<1>2. Shape(r) /\ Holding(r, goods, baskets, placed) /\ Calm(r, goods, baskets, account, placed, shopClock)
  BY RowOf DEF RowFits
<1>3. Only(k, c)
  BY DEF readPrices, current, PriceAt
<1>4. p \in Nat
  BY <1>1, RowOf, PriceIsNat DEF CheckoutRow
<1> HIDE DEF p
<1>5. /\ c \in CheckoutRow /\ c.step = "discount" /\ c.phase = r.phase /\ SameRest(c, r) /\ c.price = p
      /\ c.quantity = r.quantity /\ (c.sellable <=> r.sellable /\ p # Unpriced)
  BY <1>1, <1>4 DEF CheckoutRow, PlaceSteps, SameRest
<1> HIDE DEF c, r
<1>6. r.calm => ReadsNow(c, goods, baskets, shopClock)
  BY <1>1, <1>2, <1>5 DEF Calm, ReadsNow, SameRest, p, SellableNow
<1>7. r.calm /\ r.ready => ReadyNow(c, goods, baskets, account, placed, shopClock)
  BY <1>1, <1>2, <1>5 DEF Calm, ReadyNow, SameRest
<1>8. Calm(c, goods, baskets, account, placed, shopClock)
  BY <1>1, <1>5, <1>6, <1>7 DEF Calm, SameRest
<1>9. (\A b \in Baskets : HasBasket(c, b) => HasBasket(r, b)) /\ ~HasCoupon(c) /\ ~HasStock(c)
  BY <1>1, <1>5 DEF HasBasket, HasCoupon, HasStock, SameRest, AfterBasket
<1>10. Shape(c) /\ Holding(c, goods, baskets, placed)
  BY <1>1, <1>2, <1>5, <1>9 DEF Shape, Holding, PlaceSteps, QuoteSteps, SameRest
<1> QED
  BY <1>1, <1>3, <1>5, <1>8, <1>9, <1>10, StepKeeps DEF r

\* A coupon that serves when the quote is ready is not refused while nothing changes.
LEMMA DiscountKeeps ==
  ASSUME CheckoutInv, NEW k \in Checkouts, discountOf(k)
  PROVE  CheckoutInv'
<1> DEFINE r == checkout[k]
           why == couponRefusal(k)
           off == IF r.asked.coupon THEN DISCOUNT ELSE IF r.sellable THEN goods.auto ELSE 0
           s == IF r.phase = "quote" THEN "once" ELSE "shipping"
           c == [r EXCEPT !.step = s, !.off = off]
<1>1. r \in CheckoutRow /\ r.phase \in {"quote", "place"} /\ r.step = "discount"
  BY RowOf DEF Assessing, discountOf
<1>2. Shape(r) /\ Holding(r, goods, baskets, placed) /\ Calm(r, goods, baskets, account, placed, shopClock)
  BY RowOf DEF RowFits
<1>3. goods.uses \in Nat /\ goods.auto \in Nat /\ UsageLimit \in Nat
  BY RowOf, CheckoutAssumption DEF Goods
<1>4. /\ why \in {"none", "unavailable", "exhausted", "noEligibleLines"}
      /\ why = "none" <=> goods.couponOn /\ goods.uses < UsageLimit /\ r.sellable
  BY <1>3 DEF couponRefusal
<1>5. CASE r.asked.coupon /\ why # "none"
  <2>1. Refuse(k, why) /\ why \in Reasons
    BY <1>4, <1>5 DEF discountOf, Wanted, Reasons, KeptReasons
  <2> HIDE DEF why, r
  <2>2. ~(r.calm /\ r.ready)
    BY <1>1, <1>2, <1>4, <1>5 DEF Shape, Calm, ReadsNow, ReadyNow, CouponServes
  <2> QED
    BY <1>1, <2>1, <2>2, RefuseKeeps DEF r
<1>6. CASE ~(r.asked.coupon /\ why # "none") /\ r.phase = "place" /\ ~r.sellable
  <2>1. Refuse(k, "unsellable") /\ "unsellable" \in Reasons
    BY <1>6 DEF discountOf, Wanted, Reasons, KeptReasons
  <2> HIDE DEF why, r
  <2>2. ~(r.calm /\ r.ready)
    BY <1>1, <1>2, <1>6 DEF Calm, ReadsNow, ReadyNow
  <2> QED
    BY <1>1, <2>1, <2>2, RefuseKeeps DEF r
<1>7. CASE ~(r.asked.coupon /\ why # "none") /\ ~(r.phase = "place" /\ ~r.sellable)
  <2>1. Only(k, c)
    BY <1>7 DEF discountOf, Wanted
  <2>2. off \in Nat
    BY <1>3 DEF DISCOUNT
  <2>3. s \in {"once", "shipping"} /\ (r.phase = "quote" => s = "once") /\ (r.phase = "place" => s = "shipping")
    BY <1>1
  <2> HIDE DEF off, s
  <2>4. /\ c \in CheckoutRow /\ c.step = s /\ c.phase = r.phase /\ SameRest(c, r) /\ c.off = off
        /\ c.quantity = r.quantity /\ c.sellable = r.sellable /\ c.price = r.price
    BY <1>1, <2>2, <2>3 DEF CheckoutRow, PlaceSteps, QuoteSteps, SameRest
  <2> HIDE DEF c, r, why
  <2>5. r.calm => c.off = OffNow(c.asked, goods, shopClock) /\ CouponServes(c.asked, goods, shopClock)
    BY <1>1, <1>2, <1>4, <1>7, <2>4 DEF Calm, ReadsNow, SameRest, OffNow, CouponServes, off
  <2>6. r.calm => ReadsNow(c, goods, baskets, shopClock)
    BY <1>1, <1>2, <2>3, <2>4, <2>5 DEF Calm, ReadsNow, SameRest
  <2>7. r.calm /\ r.ready => ReadyNow(c, goods, baskets, account, placed, shopClock)
    BY <1>1, <1>2, <2>3, <2>4 DEF Calm, ReadyNow, SameRest
  <2>8. Calm(c, goods, baskets, account, placed, shopClock)
    BY <1>1, <2>3, <2>4, <2>6, <2>7 DEF Calm, SameRest
  <2>9. (\A b \in Baskets : HasBasket(c, b) => HasBasket(r, b)) /\ ~HasCoupon(c) /\ ~HasStock(c)
    BY <1>1, <2>3, <2>4 DEF HasBasket, HasCoupon, HasStock, SameRest, AfterBasket
  <2>10. Shape(c) /\ Holding(c, goods, baskets, placed)
    BY <1>1, <1>2, <1>7, <2>3, <2>4, <2>9 DEF Shape, Holding, PlaceSteps, QuoteSteps, SameRest
  <2> QED
    BY <1>1, <2>1, <2>4, <2>8, <2>9, <2>10, StepKeeps DEF r
<1> QED
  BY <1>5, <1>6, <1>7

\* What a quote tells of the coupon and of the stock is what there is.
LEMMA OnceKeeps ==
  ASSUME CheckoutInv, NEW k \in Checkouts, quoteCoupon(k)
  PROVE  CheckoutInv'
<1> DEFINE r == checkout[k]
           c == [r EXCEPT !.step = "fulfil"]
<1>1. r \in CheckoutRow /\ r.phase = "quote" /\ r.step = "once"
  BY RowOf DEF At, quoteCoupon
<1>2. Shape(r) /\ Calm(r, goods, baskets, account, placed, shopClock)
  BY RowOf DEF RowFits
<1>3. CASE ~OnceServes(r.asked, account, placed)
  <2>1. Refuse(k, "alreadyUsed") /\ "alreadyUsed" \in Reasons
    BY <1>3 DEF quoteCoupon, Wanted, OnceServes, UsedBy, couponUsedBy, Reasons
  <2>2. ~r.ready
    BY <1>1, <1>2 DEF Shape
  <2> QED
    BY <1>1, <2>1, <2>2, RefuseKeeps
<1>4. CASE OnceServes(r.asked, account, placed)
  <2>1. Only(k, c)
    BY <1>4 DEF quoteCoupon, Wanted, OnceServes, UsedBy, couponUsedBy, Moves
  <2>2. c \in CheckoutRow /\ c.step = "fulfil" /\ c.phase = r.phase /\ SameRest(c, r) /\ SameReads(c, r)
    BY <1>1, RowStep DEF AllSteps, QuoteSteps
  <2> HIDE DEF c, r
  <2>3. r.calm => ReadsNow(c, goods, baskets, shopClock)
    BY <1>1, <1>2, <2>2 DEF Calm, ReadsNow, SameRest, SameReads
  <2>4. ~c.ready
    BY <1>1, <1>2, <2>2 DEF Shape, SameRest
  <2>5. Calm(c, goods, baskets, account, placed, shopClock)
    BY <1>4, <2>2, <2>3, <2>4 DEF Calm, SameRest
  <2>6. (\A b \in Baskets : ~HasBasket(c, b)) /\ ~HasCoupon(c) /\ ~HasStock(c)
    BY <1>1, <2>2 DEF HasBasket, HasCoupon, HasStock
  <2>7. Shape(c) /\ Holding(c, goods, baskets, placed)
    BY <1>1, <2>2, <2>4, <2>6 DEF Shape, Holding, QuoteSteps
  <2> QED
    BY <1>1, <2>1, <2>2, <2>5, <2>6, <2>7, StepKeeps DEF r
<1> QED
  BY <1>3, <1>4

\* Asking whether stock suffices does.
LEMMA FulfilKeeps ==
  ASSUME CheckoutInv, NEW k \in Checkouts, canFulfill(k)
  PROVE  CheckoutInv'
<1> DEFINE r == checkout[k]
           ok == r.sellable /\ goods.stock >= r.quantity
           c == [r EXCEPT !.step = "shipping", !.ready = ok]
<1>1. r \in CheckoutRow /\ r.phase = "quote" /\ r.step = "fulfil"
  BY RowOf DEF At, canFulfill
<1>2. Calm(r, goods, baskets, account, placed, shopClock)
  BY RowOf DEF RowFits
<1>3. Only(k, c)
  BY DEF canFulfill
<1>4. ok \in BOOLEAN
  BY <1>1 DEF CheckoutRow
<1>5. ok => r.sellable /\ goods.stock >= r.quantity
  OBVIOUS
<1> HIDE DEF ok
<1>6. /\ c \in CheckoutRow /\ c.step = "shipping" /\ c.phase = r.phase /\ SameReads(c, r) /\ (c.ready <=> ok)
      /\ c.asked = r.asked /\ c.calm = r.calm /\ c.at = r.at /\ c.accepted = r.accepted
  BY <1>1, <1>4 DEF CheckoutRow, PlaceSteps, SameReads
<1> HIDE DEF c, r
<1>7. r.calm => ReadsNow(c, goods, baskets, shopClock)
  BY <1>1, <1>2, <1>6 DEF Calm, ReadsNow, SameReads
<1>8. r.calm => OnceServes(c.asked, account, placed)
  BY <1>1, <1>2, <1>6 DEF Calm
<1>9. r.calm /\ c.ready => ReadyNow(c, goods, baskets, account, placed, shopClock)
  BY <1>1, <1>2, <1>5, <1>6, <1>7, <1>8 DEF Calm, ReadsNow, ReadyNow, SameReads
<1>10. Calm(c, goods, baskets, account, placed, shopClock)
  BY <1>6, <1>7, <1>8, <1>9 DEF Calm
<1>11. (\A b \in Baskets : ~HasBasket(c, b)) /\ ~HasCoupon(c) /\ ~HasStock(c)
  BY <1>1, <1>6 DEF HasBasket, HasCoupon, HasStock
<1>12. Shape(c) /\ Holding(c, goods, baskets, placed)
  BY <1>1, <1>6, <1>11 DEF Shape, Holding, QuoteSteps
<1> QED
  BY <1>1, <1>3, <1>6, <1>10, <1>11, <1>12, StepKeeps DEF r

\* What is asked for is an amount, and not less than the goods after their discount.
LEMMA AmountIsInt ==
  ASSUME NEW sellable \in BOOLEAN, NEW q \in Nat, NEW p \in Nat, NEW off \in Nat, NEW ships \in BOOLEAN, NEW fee \in Nat
  PROVE  /\ Amount(sellable, q, p, off, ships, fee) \in Int
         /\ sellable => Amount(sellable, q, p, off, ships, fee) >= q * p - off
<1>1. q * p \in Nat
  OBVIOUS
<1> DEFINE qp == q * p
<1>2. qp \in Nat
  BY <1>1
<1>3. Amount(sellable, q, p, off, ships, fee) = (IF sellable THEN qp - off ELSE 0) + (IF ships THEN fee ELSE 0)
  BY DEF Amount
<1> HIDE DEF qp
<1>4. Amount(sellable, q, p, off, ships, fee) \in Int /\ (sellable => Amount(sellable, q, p, off, ships, fee) >= qp - off)
  BY <1>2, <1>3
<1> QED
  BY <1>4 DEF qp

\* The quote answers what it costs now, and an order costs what was accepted.
LEMMA ShippingKeeps ==
  ASSUME CheckoutInv, NEW k \in Checkouts, quoteShipping(k)
  PROVE  CheckoutInv'
<1> DEFINE r == checkout[k]
           n == Amount(r.sellable, r.quantity, r.price, r.off, r.asked.ships, goods.fee)
<1>1. /\ r \in CheckoutRow /\ r.phase \in {"quote", "place"} /\ r.step = "shipping" /\ total(k) = n
      /\ r.asked.ships \in BOOLEAN /\ goods.fee \in Nat
  BY RowOf DEF Assessing, quoteShipping, total, Amount, Wanted, RequestType, Goods
<1>2. Shape(r) /\ Holding(r, goods, baskets, placed) /\ Calm(r, goods, baskets, account, placed, shopClock)
  BY RowOf DEF RowFits
<1>3. n \in Int /\ (r.sellable => n >= r.quantity * r.price - r.off)
  BY <1>1, AmountIsInt DEF CheckoutRow
<1>4. r.calm => n = TotalNow(r.asked, goods, baskets, shopClock)
  <2> SUFFICES ASSUME r.calm PROVE n = TotalNow(r.asked, goods, baskets, shopClock)
    OBVIOUS
  <2> HIDE DEF r
  <2>1. /\ r.quantity = QuantityNow(r.asked, baskets) /\ r.price = PriceAt(goods, shopClock)
        /\ r.off = OffNow(r.asked, goods, shopClock) /\ (r.sellable <=> SellableNow(r.asked, goods, shopClock))
    BY <1>1, <1>2 DEF Calm, ReadsNow
  <2>2. CASE r.sellable
    BY <2>1, <2>2 DEF TotalNow, Amount
  <2>3. CASE ~r.sellable
    BY <2>1, <2>3 DEF TotalNow, Amount
  <2> QED
    BY <2>2, <2>3
<1>5. CASE r.phase = "quote"
  <2> DEFINE u == Unread(r)
             c == [u EXCEPT !.phase = "quoted", !.step = "none", !.accepted = n]
  <2>1. Only(k, c)
    BY <1>1, <1>5 DEF quoteShipping
  <2>2. u \in CheckoutRow /\ u.asked = r.asked /\ u.ready = r.ready /\ u.calm = r.calm
    BY <1>1, RowUnread DEF CheckoutRow, SameRest
  <2> HIDE DEF u, n
  <2>3. /\ c \in CheckoutRow /\ c.phase = "quoted" /\ c.step = "none" /\ c.accepted = n
        /\ c.asked = r.asked /\ c.ready = r.ready /\ c.calm = r.calm
    BY <1>3, <2>2 DEF CheckoutRow
  <2> HIDE DEF c, r
  <2>4. r.calm /\ r.ready => ReadyNow(c, goods, baskets, account, placed, shopClock)
    BY <1>1, <1>2, <1>4, <1>5, <2>3 DEF Calm, ReadyNow
  <2>5. Calm(c, goods, baskets, account, placed, shopClock)
    BY <2>3, <2>4 DEF Calm, ReadsNow
  <2>6. Shape(c) /\ Holding(c, goods, baskets, placed) /\ (\A b \in Baskets : ~HasBasket(c, b)) /\ ~HasCoupon(c) /\ ~HasStock(c)
    BY <2>3 DEF Shape, Holding, HasBasket, HasCoupon, HasStock
  <2> QED
    BY <1>1, <2>1, <2>3, <2>5, <2>6, StepKeeps DEF r
<1>6. CASE r.phase = "place" /\ n # r.accepted
  <2>1. Refuse(k, "total") /\ "total" \in Reasons
    BY <1>1, <1>6 DEF quoteShipping, Reasons, KeptReasons
  <2> HIDE DEF r, n
  <2>2. ~(r.calm /\ r.ready)
    BY <1>2, <1>4, <1>6 DEF Calm, ReadyNow
  <2> QED
    BY <1>1, <2>1, <2>2, RefuseKeeps DEF r
<1>7. CASE r.phase = "place" /\ n = r.accepted
  <2> DEFINE c == [r EXCEPT !.step = "coupon", !.total = n]
  <2>1. Only(k, c)
    BY <1>1, <1>7 DEF quoteShipping
  <2> HIDE DEF n
  <2>2. /\ c \in CheckoutRow /\ c.step = "coupon" /\ c.phase = r.phase /\ SameRest(c, r) /\ c.total = n
        /\ c.quantity = r.quantity /\ c.sellable = r.sellable /\ c.price = r.price /\ c.off = r.off
    BY <1>1, <1>3 DEF CheckoutRow, PlaceSteps, SameRest
  <2> HIDE DEF c, r
  <2>3. r.calm => ReadsNow(c, goods, baskets, shopClock)
    BY <1>1, <1>2, <2>2 DEF Calm, ReadsNow, SameRest
  <2>4. r.calm /\ r.ready => ReadyNow(c, goods, baskets, account, placed, shopClock)
    BY <1>1, <1>2, <2>2 DEF Calm, ReadyNow, SameRest
  <2>5. Calm(c, goods, baskets, account, placed, shopClock)
    BY <1>7, <2>2, <2>3, <2>4 DEF Calm, SameRest
  <2>6. (\A b \in Baskets : HasBasket(c, b) => HasBasket(r, b)) /\ ~HasCoupon(c) /\ ~HasStock(c)
    BY <1>1, <1>7, <2>2 DEF HasBasket, HasCoupon, HasStock, SameRest, AfterBasket
  <2>7. r.sellable /\ n >= r.quantity * r.price - r.off
    BY <1>1, <1>2, <1>3, <1>7 DEF Shape
  <2>8. c.total = c.accepted /\ c.total >= c.quantity * c.price - c.off
    BY <1>7, <2>2, <2>7 DEF SameRest
  <2>9. Shape(c)
    BY <1>7, <2>2, <2>7, <2>8 DEF Shape, PlaceSteps
  <2>10. Holding(c, goods, baskets, placed)
    BY <1>2, <2>2, <2>6 DEF Holding
  <2> QED
    BY <1>1, <2>1, <2>2, <2>5, <2>6, <2>9, <2>10, StepKeeps DEF r
<1> QED
  BY <1>1, <1>5, <1>6, <1>7

\* An order goes on with what it has: only where it is changes, and the new step finds its lock free.
LEMMA OrderGoesOn ==
  ASSUME CheckoutInv, NEW k \in Checkouts, NEW s \in {"stock", "insert"}, Moves(k, s), checkout[k].phase = "place",
         \/ checkout[k].step = "coupon" /\ s = "stock"
         \/ checkout[k].step = "stock" /\ s = "insert",
         checkout[k].asked.coupon /\ s = "stock" =>
           CouponFree(k) /\ goods.uses < UsageLimit /\ ~UsedBy(placed, contactOf(checkout[k].asked)),
         s = "insert" => StockFree(k) /\ goods.stock >= checkout[k].quantity
  PROVE  CheckoutInv'
<1> DEFINE r == checkout[k]
           c == [r EXCEPT !.step = s]
<1>1. r \in CheckoutRow /\ s \in AllSteps
  BY RowOf DEF AllSteps, PlaceSteps
<1>2. Shape(r) /\ Holding(r, goods, baskets, placed) /\ Calm(r, goods, baskets, account, placed, shopClock)
  BY RowOf DEF RowFits
<1>3. Only(k, c)
  BY DEF Moves
<1>4. c \in CheckoutRow /\ c.step = s /\ c.phase = r.phase /\ SameRest(c, r) /\ SameReads(c, r)
  BY <1>1, RowStep
<1>5. \/ r.step = "coupon" /\ s = "stock"
      \/ r.step = "stock" /\ s = "insert"
  OBVIOUS
<1>6. r.phase = "place"
  OBVIOUS
<1>7. r.asked.coupon /\ s = "stock" => CouponFree(k) /\ goods.uses < UsageLimit /\ ~UsedBy(placed, contactOf(r.asked))
  OBVIOUS
<1>8. s = "insert" => StockFree(k) /\ goods.stock >= r.quantity
  OBVIOUS
<1> HIDE DEF c, r
<1>9. r.calm => ReadsNow(c, goods, baskets, shopClock)
  BY <1>2, <1>4, <1>5, <1>6 DEF Calm, ReadsNow, SameRest, SameReads
<1>10. r.calm /\ r.ready => ReadyNow(c, goods, baskets, account, placed, shopClock)
  BY <1>2, <1>4, <1>5, <1>6 DEF Calm, ReadyNow, SameRest
<1>11. Calm(c, goods, baskets, account, placed, shopClock)
  BY <1>4, <1>5, <1>6, <1>9, <1>10 DEF Calm, SameRest
<1>12. \A b \in Baskets : HasBasket(c, b) => HasBasket(r, b)
  BY <1>4, <1>5, <1>6 DEF HasBasket, SameRest, AfterBasket
<1>13. HasCoupon(c) => HasCoupon(r) \/ (CouponFree(k) /\ goods.uses < UsageLimit /\ ~UsedBy(placed, contactOf(c.asked)))
  BY <1>4, <1>5, <1>6, <1>7 DEF HasCoupon, SameRest
<1>14. HasStock(c) => StockFree(k) /\ goods.stock >= c.quantity
  BY <1>4, <1>8 DEF HasStock, SameReads
<1>15. Shape(c)
  BY <1>2, <1>4, <1>5, <1>6 DEF Shape, PlaceSteps, SameRest, SameReads
<1>16. HasCoupon(r) => contactOf(c.asked) = contactOf(r.asked) /\ goods.uses < UsageLimit /\ ~UsedBy(placed, contactOf(r.asked))
  BY <1>2, <1>4 DEF Holding, SameRest
<1>17. Holding(c, goods, baskets, placed)
  BY <1>2, <1>4, <1>12, <1>13, <1>16, <1>14 DEF Holding, SameReads
<1> QED
  BY <1>3, <1>4, <1>6, <1>11, <1>12, <1>13, <1>14, <1>15, <1>17, StepKeeps DEF r

\* Counting the coupon keeps the invariant.
LEMMA CouponKeeps ==
  ASSUME CheckoutInv, NEW k \in Checkouts, countCoupon(k)
  PROVE  CheckoutInv'
<1> DEFINE r == checkout[k]
           contact == contactOf(r.asked)
<1>1. /\ r \in CheckoutRow /\ r.phase = "place" /\ r.step = "coupon" /\ r.asked.channel \in {"ONLINE", "STORE"}
      /\ goods.uses \in Nat /\ UsageLimit \in Nat
  BY RowOf, CheckoutAssumption DEF At, countCoupon, RequestType, Goods
<1>2. Shape(r) /\ Calm(r, goods, baskets, account, placed, shopClock)
  BY RowOf DEF RowFits
<1>3. couponUsedBy(contact) <=> UsedBy(placed, contact)
  BY DEF couponUsedBy, UsedBy
<1>4. CASE ~r.asked.coupon
  BY <1>4, <1>1, OrderGoesOn DEF countCoupon, Wanted
<1>5. CASE r.asked.coupon /\ contact = NoContact
  BY <1>5, <1>1, RefuseKeeps DEF countCoupon, Wanted, Reasons, KeptReasons
<1>6. CASE r.asked.coupon /\ contact # NoContact /\ goods.uses >= UsageLimit
  <2>1. Refuse(k, "exhausted") /\ "exhausted" \in Reasons
    BY <1>6 DEF countCoupon, Wanted, Reasons, KeptReasons
  <2>2. ~(r.calm /\ r.ready)
    <3> HIDE DEF r
    <3> QED
      BY <1>1, <1>2, <1>6 DEF Calm, ReadyNow, CouponServes
  <2> QED
    BY <1>1, <2>1, <2>2, RefuseKeeps
<1>7. CASE r.asked.coupon /\ contact # NoContact /\ ~(goods.uses >= UsageLimit) /\ UsedBy(placed, contact)
  <2>1. Refuse(k, "alreadyUsed") /\ "alreadyUsed" \in Reasons /\ "alreadyUsed" \notin KeptReasons
    BY <1>3, <1>7 DEF countCoupon, Wanted, Reasons, KeptReasons
  <2>2. r.calm /\ r.ready => r.asked.channel = "STORE" \/ ~r.asked.customer
    <3> HIDE DEF r
    <3> QED
      BY <1>1, <1>2, <1>7 DEF Calm, ReadyNow, OnceServes, contact, contactOf
  <2> QED
    BY <1>1, <2>1, <2>2, RefuseKeeps
<1>8. CASE r.asked.coupon /\ contact # NoContact /\ ~(goods.uses >= UsageLimit) /\ ~UsedBy(placed, contact)
  BY <1>3, <1>8, <1>1, OrderGoesOn DEF countCoupon, Wanted
<1> QED
  BY <1>4, <1>5, <1>6, <1>7, <1>8

\* Reserving stock does.
LEMMA ReserveKeeps ==
  ASSUME CheckoutInv, NEW k \in Checkouts, reserveStock(k)
  PROVE  CheckoutInv'
<1> DEFINE r == checkout[k]
<1>1. /\ r \in CheckoutRow /\ r.phase = "place" /\ r.step = "stock" /\ StockFree(k)
      /\ goods.stock \in Int /\ r.quantity \in Nat
  BY RowOf DEF At, reserveStock, Goods, CheckoutRow
<1>2. Calm(r, goods, baskets, account, placed, shopClock)
  BY RowOf DEF RowFits
<1>3. CASE goods.stock < r.quantity
  <2>1. Refuse(k, "stock") /\ "stock" \in Reasons
    BY <1>3 DEF reserveStock, Reasons, KeptReasons
  <2>2. ~(r.calm /\ r.ready)
    <3> HIDE DEF r
    <3>1. r.calm /\ r.ready => goods.stock >= QuantityNow(r.asked, baskets) /\ r.quantity = QuantityNow(r.asked, baskets)
      BY <1>1, <1>2 DEF Calm, ReadsNow, ReadyNow
    <3> QED
      BY <1>1, <1>3, <3>1
  <2> QED
    BY <1>1, <2>1, <2>2, RefuseKeeps
<1>4. CASE ~(goods.stock < r.quantity)
  BY <1>1, <1>4, OrderGoesOn DEF reserveStock
<1> QED
  BY <1>3, <1>4

\* A checkout that fails does.
LEMMA FailKeeps ==
  ASSUME CheckoutInv, NEW k \in Checkouts, fail(k)
  PROVE  CheckoutInv'
<1>1. checkout[k].phase # "ended" /\ Refuse(k, "failed") /\ "failed" \in Reasons /\ "failed" \notin KeptReasons
  BY DEF fail, Reasons, KeptReasons
<1> QED
  BY <1>1, RefuseKeeps

\* A row that is no longer calm says what it has locked, and nothing of the rest.
LEMMA UncalmFits ==
  ASSUME NEW r \in CheckoutRow, Shape(r), NEW g, NEW bs, NEW a, NEW os, NEW t, Holding(r, g, bs, os)
  PROVE  LET c == [r EXCEPT !.calm = FALSE] IN
         /\ c \in CheckoutRow /\ c.phase = r.phase /\ c.accepted = r.accepted
         /\ RowFits(c, g, bs, a, os, t)
         /\ \A d \in CheckoutRow : (Together(c, d) <=> Together(r, d)) /\ (Together(d, c) <=> Together(d, r))
<1> DEFINE c == [r EXCEPT !.calm = FALSE]
<1>1. /\ c \in CheckoutRow /\ c.phase = r.phase /\ c.step = r.step /\ c.asked = r.asked /\ c.accepted = r.accepted
      /\ c.ready = r.ready /\ c.calm = FALSE /\ SameReads(c, r)
  BY RowUncalm
<1> HIDE DEF c
<1>2. /\ \A b : HasBasket(c, b) <=> HasBasket(r, b)
      /\ HasCoupon(c) <=> HasCoupon(r)
      /\ HasStock(c) <=> HasStock(r)
  BY <1>1 DEF HasBasket, HasCoupon, HasStock
<1>3. Shape(c)
  BY <1>1 DEF Shape, SameReads
<1>4. Holding(c, g, bs, os)
  BY <1>1, <1>2 DEF Holding, SameReads
<1>5. RowFits(c, g, bs, a, os, t)
  BY <1>1, <1>3, <1>4 DEF RowFits, Calm
<1>6. \A d \in CheckoutRow : (Together(c, d) <=> Together(r, d)) /\ (Together(d, c) <=> Together(d, r))
  BY <1>2 DEF Together
<1> QED
  BY <1>1, <1>5, <1>6 DEF c

\* A change of the shop does: every checkout under way may meet it.
LEMMA ChangesKeep ==
  ASSUME CheckoutInv, checkout' = [k \in Checkouts |-> [checkout[k] EXCEPT !.calm = FALSE]], UNCHANGED placed,
         goods' \in Goods, baskets' \in [Baskets -> [status : {"ACTIVE", "CHECKED_OUT"}, quantity : Nat]],
         account' \in [active : BOOLEAN, saved : BOOLEAN], shopClock' \in ShopTimes, changes' \in Nat,
         goods'.supply - goods'.stock = goods.supply - goods.stock, goods'.uses = goods.uses,
         \A b \in Baskets : baskets'[b].status = baskets[b].status /\ (baskets[b].status = "CHECKED_OUT" => baskets'[b] = baskets[b]),
         \A k \in Checkouts : HasStock(checkout[k]) => goods'.stock = goods.stock,
         \A k \in Checkouts : \A b \in Baskets : HasBasket(checkout[k], b) => baskets'[b] = baskets[b]
  PROVE  CheckoutInv'
<1>1. ASSUME NEW k \in Checkouts
      PROVE  /\ checkout'[k] \in CheckoutRow /\ checkout'[k].phase = checkout[k].phase /\ checkout'[k].accepted = checkout[k].accepted
             /\ RowFits(checkout'[k], goods', baskets', account', placed', shopClock')
             /\ \A d \in CheckoutRow : (Together(checkout'[k], d) <=> Together(checkout[k], d)) /\ (Together(d, checkout'[k]) <=> Together(d, checkout[k]))
  <2>1. checkout[k] \in CheckoutRow /\ Shape(checkout[k]) /\ Holding(checkout[k], goods, baskets, placed)
    BY RowOf DEF RowFits
  <2>2. Holding(checkout[k], goods', baskets', placed')
    BY <2>1 DEF Holding
  <2>3. checkout'[k] = [checkout[k] EXCEPT !.calm = FALSE]
    OBVIOUS
  <2> QED
    BY <2>1, <2>2, <2>3, UncalmFits
<1>2. CheckoutTypes'
  BY <1>1 DEF CheckoutInv, CheckoutTypes
<1>3. RowsFit'
  BY <1>1 DEF RowsFit
<1>4. LocksApart'
  <2>1. ASSUME NEW j \in Checkouts, NEW k \in Checkouts, j # k
        PROVE  ~Together(checkout'[j], checkout'[k])
    BY <2>1, RowOf, <1>1 DEF CheckoutInv, LocksApart
  <2> QED
    BY <2>1 DEF LocksApart
<1>5. OrdersEnded'
  BY <1>1 DEF CheckoutInv, CheckoutTypes, OrdersEnded, PlacedOrders
<1>6. OrdersCounted' /\ UNCHANGED <<PlacedOrders, UnitsPlaced, WithCoupon>> /\ \A b \in Baskets : OfBasket(b)' = OfBasket(b)
  BY DEF CheckoutInv, OrdersCounted, PlacedOrders, UnitsPlaced, WithCoupon, OfBasket
<1>7. goods'.stock + Cardinality(UnitsPlaced) = goods'.supply
  <2>1. Cardinality(UnitsPlaced) \in Nat
    BY FS_CardinalityType DEF CheckoutInv, OrdersCounted
  <2>2. goods'.stock \in Int /\ goods'.supply \in Int /\ goods.stock \in Int /\ goods.supply \in Int
    BY RowOf DEF CheckoutInv, CheckoutTypes, Goods
  <2>3. goods.stock + Cardinality(UnitsPlaced) = goods.supply
    BY DEF CheckoutInv, OrdersAddUp
  <2> QED
    BY <2>1, <2>2, <2>3
<1>8. \A b \in Baskets :
        /\ Cardinality(OfBasket(b)) = IF baskets'[b].status = "CHECKED_OUT" THEN 1 ELSE 0
        /\ \A k \in OfBasket(b) : placed[k].quantity = baskets'[b].quantity
  <2> SUFFICES ASSUME NEW b \in Baskets
               PROVE  /\ Cardinality(OfBasket(b)) = IF baskets'[b].status = "CHECKED_OUT" THEN 1 ELSE 0
                      /\ \A k \in OfBasket(b) : placed[k].quantity = baskets'[b].quantity
    OBVIOUS
  <2>1. /\ Cardinality(OfBasket(b)) = IF baskets[b].status = "CHECKED_OUT" THEN 1 ELSE 0
        /\ \A k \in OfBasket(b) : placed[k].quantity = baskets[b].quantity
    BY DEF CheckoutInv, OrdersAddUp
  <2>2. CASE baskets[b].status = "CHECKED_OUT"
    BY <2>1, <2>2
  <2>3. CASE baskets[b].status # "CHECKED_OUT"
    BY FS_Subset, <2>1, <2>3, FS_EmptySet DEF OfBasket, CheckoutInv, OrdersCounted
  <2> QED
    BY <2>2, <2>3
<1>9. OrdersAddUp'
  BY <1>6, <1>7, <1>8 DEF CheckoutInv, OrdersAddUp
<1> QED
  BY <1>2, <1>3, <1>4, <1>5, <1>6, <1>9 DEF CheckoutInv

\* A change of what the shop sells: neither the stock, the supply nor the uses of the coupon.
LEMMA SellsKeeps ==
  ASSUME CheckoutInv, NEW new \in Goods, Sells(new), new.uses = goods.uses, new.supply - new.stock = goods.supply - goods.stock,
         \A k \in Checkouts : HasStock(checkout[k]) => new.stock = goods.stock
  PROVE  CheckoutInv'
<1>1. /\ checkout' = [k \in Checkouts |-> [checkout[k] EXCEPT !.calm = FALSE]]
      /\ UNCHANGED <<placed, shopClock, baskets, account>> /\ goods' = new /\ changes' = changes + 1
  BY DEF Sells, Changed
<1>2. changes' \in Nat
  BY <1>1 DEF CheckoutInv, CheckoutTypes
<1> QED
  BY <1>1, <1>2, ChangesKeep DEF CheckoutInv, CheckoutTypes

\* What others do meanwhile does.
LEMMA OthersKeep ==
  ASSUME CheckoutInv, Others
  PROVE  CheckoutInv'
<1>1. goods \in Goods /\ goods.stock \in Int /\ goods.supply \in Int
  BY DEF CheckoutInv, CheckoutTypes, Goods
<1>2. ASSUME NEW amount \in UnitPrices, NEW from \in ShopTimes, setPrice(amount, from)
      PROVE  CheckoutInv'
  <2> DEFINE ps == [goods.price EXCEPT ![from] = amount]
             new == [goods EXCEPT !.price = ps]
  <2>1. amount \in Nat /\ goods.price \in [ShopTimes -> Nat]
    BY <1>1, CheckoutAssumption DEF Goods
  <2>2. ps \in [ShopTimes -> Nat]
    BY <2>1
  <2>3. Sells(new)
    BY <1>2 DEF setPrice
  <2> HIDE DEF ps
  <2>4. new \in Goods /\ new.uses = goods.uses /\ new.supply = goods.supply /\ new.stock = goods.stock
    BY <1>1, <2>2 DEF Goods
  <2> HIDE DEF new
  <2> QED
    BY <1>1, <2>3, <2>4, SellsKeeps
<1>3. ASSUME NEW on \in BOOLEAN, setOnSale(on) \/ setStoreOnly(on)
      PROVE  CheckoutInv'
  <2> DEFINE new1 == [goods EXCEPT !.onSale = on]
             new2 == [goods EXCEPT !.storeOnly = on]
  <2>1. Sells(new1) \/ Sells(new2)
    BY <1>3 DEF setOnSale, setStoreOnly
  <2>2. /\ new1 \in Goods /\ new1.uses = goods.uses /\ new1.supply = goods.supply /\ new1.stock = goods.stock
        /\ new2 \in Goods /\ new2.uses = goods.uses /\ new2.supply = goods.supply /\ new2.stock = goods.stock
    BY <1>1 DEF Goods
  <2> HIDE DEF new1, new2
  <2> QED
    BY <1>1, <2>1, <2>2, SellsKeeps
<1>4. ASSUME NEW fee \in ShippingFees, setShipping(fee)
      PROVE  CheckoutInv'
  <2> DEFINE new == [goods EXCEPT !.fee = fee]
  <2>1. fee \in Nat /\ Sells(new)
    BY <1>4, CheckoutAssumption DEF setShipping
  <2>2. new \in Goods /\ new.uses = goods.uses /\ new.supply = goods.supply /\ new.stock = goods.stock
    BY <1>1, <2>1 DEF Goods
  <2> HIDE DEF new
  <2> QED
    BY <1>1, <2>1, <2>2, SellsKeeps
<1>5. ASSUME NEW off \in {0, DISCOUNT}, setPromotion(off)
      PROVE  CheckoutInv'
  <2> DEFINE new == [goods EXCEPT !.auto = off]
  <2>1. off \in Nat /\ Sells(new)
    BY <1>5 DEF setPromotion, DISCOUNT
  <2>2. new \in Goods /\ new.uses = goods.uses /\ new.supply = goods.supply /\ new.stock = goods.stock
    BY <1>1, <2>1 DEF Goods
  <2> HIDE DEF new
  <2> QED
    BY <1>1, <2>1, <2>2, SellsKeeps
<1>6. ASSUME endCoupon
      PROVE  CheckoutInv'
  <2> DEFINE new == [goods EXCEPT !.couponOn = FALSE]
  <2>1. Sells(new)
    BY <1>6 DEF endCoupon
  <2>2. new \in Goods /\ new.uses = goods.uses /\ new.supply = goods.supply /\ new.stock = goods.stock
    BY <1>1 DEF Goods
  <2> HIDE DEF new
  <2> QED
    BY <1>1, <2>1, <2>2, SellsKeeps
<1>7. ASSUME NEW n \in 0..InitialStock, adjustStock(n)
      PROVE  CheckoutInv'
  <2> DEFINE m == (goods.supply + n) - goods.stock
             new == [goods EXCEPT !.stock = n, !.supply = m]
  <2>1. n \in Int /\ m \in Int /\ m - n = goods.supply - goods.stock
    BY <1>1, CheckoutAssumption
  <2>2. Sells(new)
    BY <1>7 DEF adjustStock
  <2>3. \A k \in Checkouts : ~HasStock(checkout[k])
    BY <1>7, RowOf, LocksAre DEF adjustStock, CheckoutInv, RowFits
  <2> HIDE DEF m
  <2>4. new \in Goods /\ new.uses = goods.uses /\ new.supply = m /\ new.stock = n
    BY <1>1, <2>1 DEF Goods
  <2> HIDE DEF new
  <2> QED
    BY <2>1, <2>2, <2>3, <2>4, SellsKeeps
<1>8. ASSUME NEW b \in Baskets, NEW q \in 0..2, changeBasket(b, q)
      PROVE  CheckoutInv'
  <2> DEFINE row == [baskets[b] EXCEPT !.quantity = q]
  <2>1. /\ baskets \in [Baskets -> [status : {"ACTIVE", "CHECKED_OUT"}, quantity : Nat]]
        /\ baskets[b] \in [status : {"ACTIVE", "CHECKED_OUT"}, quantity : Nat] /\ q \in Nat /\ account \in [active : BOOLEAN, saved : BOOLEAN]
        /\ shopClock \in ShopTimes /\ changes \in Nat
    BY DEF CheckoutInv, CheckoutTypes
  <2>2. row \in [status : {"ACTIVE", "CHECKED_OUT"}, quantity : Nat] /\ row.status = baskets[b].status
    BY <2>1
  <2>3. baskets' = [baskets EXCEPT ![b] = row] /\ baskets[b].status = "ACTIVE" /\ UNCHANGED <<goods, account, placed, shopClock>>
    BY <1>8 DEF changeBasket, Changed
  <2>4. checkout' = [k \in Checkouts |-> [checkout[k] EXCEPT !.calm = FALSE]] /\ changes' \in Nat
    BY <1>8, <2>1 DEF changeBasket, Changed
  <2>5. \A k \in Checkouts : ~HasBasket(checkout[k], b)
    BY <1>8, RowOf, LocksAre DEF changeBasket, CheckoutInv, RowFits
  <2> HIDE DEF row
  <2>6. /\ baskets' \in [Baskets -> [status : {"ACTIVE", "CHECKED_OUT"}, quantity : Nat]]
        /\ baskets'[b].status = baskets[b].status /\ \A d \in Baskets \ {b} : baskets'[d] = baskets[d]
    BY <2>1, <2>2, <2>3
  <2>7. /\ \A d \in Baskets : baskets'[d].status = baskets[d].status /\ (baskets[d].status = "CHECKED_OUT" => baskets'[d] = baskets[d])
        /\ \A k \in Checkouts : \A d \in Baskets : HasBasket(checkout[k], d) => baskets'[d] = baskets[d]
    BY <2>3, <2>5, <2>6
  <2> QED
    BY <1>1, <2>1, <2>3, <2>4, <2>6, <2>7, ChangesKeep
<1>9. ASSUME suspendCustomer \/ deleteAddress
      PROVE  CheckoutInv'
  <2>1. checkout' = [k \in Checkouts |-> [checkout[k] EXCEPT !.calm = FALSE]] /\ UNCHANGED <<goods, baskets, placed, shopClock>>
    BY <1>9 DEF suspendCustomer, deleteAddress, Changed
  <2>2. account' \in [active : BOOLEAN, saved : BOOLEAN] /\ changes' \in Nat
    <3>1. account \in [active : BOOLEAN, saved : BOOLEAN] /\ changes \in Nat
      BY DEF CheckoutInv, CheckoutTypes
    <3>2. account' = [account EXCEPT !.active = FALSE] \/ account' = [account EXCEPT !.saved = FALSE]
      BY <1>9 DEF suspendCustomer, deleteAddress
    <3>3. changes' = changes + 1
      BY <1>9 DEF suspendCustomer, deleteAddress, Changed
    <3>4. account' \in [active : BOOLEAN, saved : BOOLEAN]
      BY <3>1, <3>2
    <3> QED
      BY <3>1, <3>3, <3>4
  <2> QED
    BY <1>1, <2>1, <2>2, ChangesKeep DEF CheckoutInv, CheckoutTypes
<1>10. ASSUME ShopTick
       PROVE  CheckoutInv'
  BY <1>10, CheckoutAssumption, <1>1, ChangesKeep DEF ShopTick, CheckoutInv, CheckoutTypes, ShopTimes
<1> QED
  BY <1>2, <1>3, <1>4, <1>5, <1>6, <1>7, <1>8, <1>9, <1>10 DEF Others

\* The orders of before, with the new one of k.
LEMMA InsertCounts ==
  ASSUME CheckoutInv, NEW k \in Checkouts, k \notin DOMAIN placed, NEW new \in PlacedOrder,
         placed' = [j \in DOMAIN placed \cup {k} |-> IF j = k THEN new ELSE placed[j]]
  PROVE  /\ PlacedOrders' = PlacedOrders \cup {k} /\ placed'[k] = new /\ \A j \in PlacedOrders : placed'[j] = placed[j]
         /\ OrdersCounted' /\ Cardinality(UnitsPlaced') = Cardinality(UnitsPlaced) + new.quantity
         /\ WithCoupon' = IF new.coupon THEN WithCoupon \cup {k} ELSE WithCoupon
         /\ Cardinality(WithCoupon') = Cardinality(WithCoupon) + IF new.coupon THEN 1 ELSE 0
         /\ \A b \in Baskets : OfBasket(b)' = IF new.basket = b THEN OfBasket(b) \cup {k} ELSE OfBasket(b)
         /\ \A contact : UsedBy(placed', contact) <=> UsedBy(placed, contact) \/ (new.coupon /\ new.contact = contact)
<1> DEFINE q == new.quantity
           mine == {k} \X (1..q)
<1>1. /\ DOMAIN placed' = DOMAIN placed \cup {k} /\ placed'[k] = new /\ \A j \in DOMAIN placed : placed'[j] = placed[j]
      /\ q \in Nat
  BY DEF PlacedOrder
<1>2. IsFiniteSet(PlacedOrders) /\ IsFiniteSet(UnitsPlaced) /\ PlacedOrders' = PlacedOrders \cup {k} /\ k \notin PlacedOrders
  BY <1>1 DEF CheckoutInv, OrdersCounted, PlacedOrders
<1>3. UnitsPlaced' = UnitsPlaced \cup mine /\ UnitsPlaced \cap mine = {}
  BY <1>1 DEF UnitsPlaced, PlacedOrders
<1>4. IsFiniteSet(mine) /\ Cardinality(mine) = q
  <2>1. IsFiniteSet({k}) /\ Cardinality({k}) = 1
    BY FS_Singleton
  <2>2. IsFiniteSet(1..q) /\ Cardinality(1..q) = q
    BY <1>1, FS_Interval
  <2>3. \A S, T : IsFiniteSet(S) /\ IsFiniteSet(T) =>
          IsFiniteSet(S \X T) /\ Cardinality(S \X T) = Cardinality(S) * Cardinality(T)
    BY FS_Product, Zenon
  <2>4. IsFiniteSet({k} \X (1..q)) /\ Cardinality({k} \X (1..q)) = Cardinality({k}) * Cardinality(1..q)
    BY <2>1, <2>2, <2>3, Zenon
  <2> QED
    BY <1>1, <2>1, <2>2, <2>4
<1> HIDE DEF mine
<1>5. IsFiniteSet(UnitsPlaced') /\ Cardinality(UnitsPlaced') = Cardinality(UnitsPlaced) + q
  <2>1. /\ IsFiniteSet(UnitsPlaced \cup mine)
        /\ Cardinality(UnitsPlaced \cup mine) = Cardinality(UnitsPlaced) + Cardinality(mine) - Cardinality(UnitsPlaced \cap mine)
    BY <1>2, <1>4, FS_Union
  <2>2. Cardinality(UnitsPlaced) \in Nat /\ Cardinality(UnitsPlaced \cap mine) = 0
    BY <1>2, <1>3, FS_CardinalityType, FS_EmptySet
  <2> QED
    BY <1>1, <1>3, <1>4, <2>1, <2>2
<1>6. OrdersCounted'
  BY <1>2, <1>5, FS_AddElement DEF OrdersCounted
<1>7. WithCoupon' = IF new.coupon THEN WithCoupon \cup {k} ELSE WithCoupon
  BY <1>1, <1>2 DEF WithCoupon, PlacedOrders
<1>8. Cardinality(WithCoupon') = Cardinality(WithCoupon) + IF new.coupon THEN 1 ELSE 0
  <2>1. WithCoupon \subseteq PlacedOrders
    BY DEF WithCoupon
  <2>2. IsFiniteSet(WithCoupon) /\ k \notin WithCoupon
    BY <1>2, <2>1, FS_Subset
  <2>3. Cardinality(WithCoupon) \in Nat /\ Cardinality(WithCoupon \cup {k}) = Cardinality(WithCoupon) + 1
    BY <2>2, FS_AddElement, FS_CardinalityType
  <2> QED
    BY <1>7, <2>3
<1>9. \A b \in Baskets : OfBasket(b)' = IF new.basket = b THEN OfBasket(b) \cup {k} ELSE OfBasket(b)
  BY <1>1, <1>2 DEF OfBasket, PlacedOrders
<1>10. \A contact : UsedBy(placed', contact) <=> UsedBy(placed, contact) \/ (new.coupon /\ new.contact = contact)
  BY <1>1 DEF UsedBy
<1> QED
  BY <1>1, <1>2, <1>5, <1>6, <1>7, <1>8, <1>9, <1>10 DEF PlacedOrders

\* The order takes its units, its use and its cart, which it alone has, in one step.
LEMMA CommitKeeps ==
  ASSUME CheckoutInv, NEW k \in Checkouts, At(k, "place", "insert"), NEW code \in PublicCodes \ TakenCodes,
         placed' = [j \in DOMAIN placed \cup {k} |-> IF j = k THEN newOrder(k, code) ELSE placed[j]],
         goods' = redeemed(k), baskets' = checkOutBasket(Wanted(k).basket),
         checkout' = [j \in Checkouts |-> IF j = k THEN Ended(checkout[k], "placed") ELSE [checkout[j] EXCEPT !.calm = FALSE]],
         UNCHANGED <<account, shopClock, changes>>
  PROVE  CheckoutInv'
<1> DEFINE r == checkout[k]
           new == newOrder(k, code)
           b0 == r.asked.basket
<1>1. /\ r \in CheckoutRow /\ r.phase = "place" /\ r.step = "insert" /\ r.asked \in RequestType
      /\ Shape(r) /\ Holding(r, goods, baskets, placed) /\ goods \in Goods
  BY RowOf DEF At, RowFits
<1>2. /\ new \in PlacedOrder /\ new.code = code /\ new.basket = b0 /\ new.contact = contactOf(r.asked) /\ new.quantity = r.quantity
      /\ new.price = r.price /\ new.off = r.off /\ (new.coupon <=> r.asked.coupon) /\ new.total = r.total
  <2>1. r.asked.basket \in Baskets \cup {NoBasket} /\ r.asked.coupon \in BOOLEAN /\ contactOf(r.asked) \in Contacts \cup {NoContact}
    BY <1>1, CheckoutAssumption DEF RequestType, contactOf
  <2>2. new = [code |-> code, basket |-> r.asked.basket, contact |-> contactOf(r.asked), quantity |-> r.quantity,
               price |-> r.price, off |-> r.off, coupon |-> r.asked.coupon, total |-> r.total]
    BY DEF newOrder, Wanted
  <2>3. r.quantity \in Nat /\ r.price \in Nat /\ r.off \in Nat /\ r.total \in Int
    BY <1>1 DEF CheckoutRow
  <2> HIDE DEF new, r
  <2> QED
    BY <2>1, <2>2, <2>3 DEF PlacedOrder
<1>3. k \notin DOMAIN placed
  BY <1>1 DEF CheckoutInv, OrdersEnded, PlacedOrders
<1>4. /\ PlacedOrders' = PlacedOrders \cup {k} /\ placed'[k] = new /\ \A j \in PlacedOrders : placed'[j] = placed[j]
      /\ OrdersCounted' /\ Cardinality(UnitsPlaced') = Cardinality(UnitsPlaced) + new.quantity
      /\ WithCoupon' = IF new.coupon THEN WithCoupon \cup {k} ELSE WithCoupon
      /\ Cardinality(WithCoupon') = Cardinality(WithCoupon) + IF new.coupon THEN 1 ELSE 0
      /\ \A b \in Baskets : OfBasket(b)' = IF new.basket = b THEN OfBasket(b) \cup {k} ELSE OfBasket(b)
      /\ \A contact : UsedBy(placed', contact) <=> UsedBy(placed, contact) \/ (new.coupon /\ new.contact = contact)
  BY <1>2, <1>3, InsertCounts
<1>5. /\ goods' \in Goods /\ goods'.stock = goods.stock - r.quantity /\ goods'.supply = goods.supply
      /\ goods'.uses = goods.uses + IF r.asked.coupon THEN 1 ELSE 0
  <2> DEFINE n == goods.stock - r.quantity
             u == IF r.asked.coupon THEN goods.uses + 1 ELSE goods.uses
  <2>1. n \in Int /\ u \in Nat /\ goods.uses \in Nat
    BY <1>1 DEF Goods, CheckoutRow
  <2>2. goods' = [goods EXCEPT !.stock = n, !.uses = u]
    BY <1>1 DEF redeemed, Wanted, Goods
  <2>3. u = goods.uses + IF r.asked.coupon THEN 1 ELSE 0
    BY <2>1
  <2> HIDE DEF n, u
  <2>4. goods' \in Goods /\ goods'.stock = n /\ goods'.supply = goods.supply /\ goods'.uses = u
    BY <1>1, <2>1, <2>2 DEF Goods
  <2> QED
    BY <2>3, <2>4 DEF n
<1>6. /\ baskets' \in [Baskets -> [status : {"ACTIVE", "CHECKED_OUT"}, quantity : Nat]]
      /\ \A b \in Baskets : b # b0 => baskets'[b] = baskets[b]
      /\ b0 \in Baskets => baskets'[b0].status = "CHECKED_OUT" /\ baskets'[b0].quantity = baskets[b0].quantity
  <2>1. baskets \in [Baskets -> [status : {"ACTIVE", "CHECKED_OUT"}, quantity : Nat]]
    BY DEF CheckoutInv, CheckoutTypes
  <2>2. \A b \in Baskets : /\ [baskets[b] EXCEPT !.status = "CHECKED_OUT"] \in [status : {"ACTIVE", "CHECKED_OUT"}, quantity : Nat]
                           /\ [baskets[b] EXCEPT !.status = "CHECKED_OUT"].status = "CHECKED_OUT"
                           /\ [baskets[b] EXCEPT !.status = "CHECKED_OUT"].quantity = baskets[b].quantity
    BY <2>1
  <2>3. baskets' = [c \in Baskets |-> IF c = b0 THEN [baskets[c] EXCEPT !.status = "CHECKED_OUT"] ELSE baskets[c]]
    BY DEF checkOutBasket, Wanted
  <2> HIDE DEF b0
  <2> QED
    BY <2>1, <2>2, <2>3
<1>7. LET c == checkout'[k] IN
      c \in CheckoutRow /\ c.phase = "ended" /\ c.step = "none" /\ c.reason = "placed" /\ c.accepted = r.accepted
  BY <1>1, RowEnded DEF Reasons
<1>8. /\ HasStock(r) /\ (HasCoupon(r) <=> r.asked.coupon) /\ \A b \in Baskets : HasBasket(r, b) <=> b = b0
  BY <1>1 DEF HasStock, HasCoupon, HasBasket, AfterBasket
<1> HIDE DEF r, new
<1>9. ASSUME NEW j \in Checkouts \ {k}
      PROVE  /\ checkout'[j] \in CheckoutRow /\ checkout'[j].phase = checkout[j].phase /\ checkout'[j].accepted = checkout[j].accepted
             /\ RowFits(checkout'[j], goods', baskets', account', placed', shopClock')
             /\ \A d \in CheckoutRow : (Together(checkout'[j], d) <=> Together(checkout[j], d)) /\ (Together(d, checkout'[j]) <=> Together(d, checkout[j]))
  <2>1. checkout[j] \in CheckoutRow /\ Shape(checkout[j]) /\ Holding(checkout[j], goods, baskets, placed)
    BY RowOf DEF RowFits
  <2>2. ~Together(checkout[j], r)
    BY DEF CheckoutInv, LocksApart, r
  <2>3. \A b \in Baskets : HasBasket(checkout[j], b) => baskets'[b] = baskets[b]
    BY <1>6, <1>8, <2>2 DEF Together
  <2>4. ~HasStock(checkout[j]) /\ (HasCoupon(checkout[j]) => ~r.asked.coupon)
    BY <1>8, <2>2 DEF Together
  <2>5. HasCoupon(checkout[j]) => goods'.uses < UsageLimit /\ ~UsedBy(placed', contactOf(checkout[j].asked))
    <3>1. HasCoupon(checkout[j]) => goods.uses < UsageLimit /\ ~UsedBy(placed, contactOf(checkout[j].asked))
      BY <2>1 DEF Holding
    <3>2. ~r.asked.coupon => goods'.uses = goods.uses /\ ~new.coupon
      BY <1>1, <1>2, <1>5 DEF Goods
    <3> QED
      BY <1>4, <2>4, <3>1, <3>2
  <2>6. Holding(checkout[j], goods', baskets', placed')
    BY <2>1, <2>3, <2>4, <2>5 DEF Holding
  <2>7. checkout'[j] = [checkout[j] EXCEPT !.calm = FALSE]
    OBVIOUS
  <2> QED
    BY <2>1, <2>6, <2>7, UncalmFits
<1>10. \A g, bs, a, os, t : RowFits(checkout'[k], g, bs, a, os, t)
  BY <1>7, EndedFits DEF KeptReasons
<1>11. CheckoutTypes'
  BY <1>7, <1>9, <1>2, <1>4, <1>5, <1>6 DEF PlacedOrders, CheckoutInv, CheckoutTypes
<1>12. RowsFit'
  BY <1>9, <1>10 DEF RowsFit
<1>13. LocksApart'
  <2>1. \A d \in CheckoutRow : ~Together(checkout'[k], d) /\ ~Together(d, checkout'[k])
    BY <1>7 DEF Together, HasBasket, HasCoupon, HasStock
  <2>2. ASSUME NEW i \in Checkouts \ {k}, NEW j \in Checkouts \ {k}, i # j
        PROVE  ~Together(checkout'[i], checkout'[j])
    BY <2>2, RowOf, <1>9 DEF CheckoutInv, LocksApart
  <2> QED
    BY <1>7, <1>9, <2>1, <2>2 DEF LocksApart
<1>14. OrdersEnded'
  <2>1. r.total = r.accepted /\ r.total >= r.quantity * r.price - r.off
    BY <1>1 DEF Shape
  <2>2. /\ checkout'[k].phase = "ended" /\ placed'[k].total = checkout'[k].accepted
        /\ placed'[k].total >= placed'[k].quantity * placed'[k].price - placed'[k].off
    BY <1>2, <1>4, <1>7, <2>1
  <2>3. ASSUME NEW j \in PlacedOrders
        PROVE  /\ checkout'[j].phase = "ended" /\ placed'[j].total = checkout'[j].accepted
               /\ placed'[j].total >= placed'[j].quantity * placed'[j].price - placed'[j].off
    BY <1>3, <1>4, <1>9 DEF PlacedOrders, CheckoutInv, CheckoutTypes, OrdersEnded
  <2> QED
    BY <1>4, <2>2, <2>3 DEF OrdersEnded
<1>15. goods'.stock + Cardinality(UnitsPlaced') = goods'.supply
  <2>1. Cardinality(UnitsPlaced) \in Nat /\ goods.stock \in Int /\ goods.supply \in Int /\ r.quantity \in Nat
    BY <1>1, FS_CardinalityType DEF CheckoutInv, OrdersCounted, Goods, CheckoutRow
  <2>2. goods.stock + Cardinality(UnitsPlaced) = goods.supply
    BY DEF CheckoutInv, OrdersAddUp
  <2> QED
    BY <1>2, <1>4, <1>5, <2>1, <2>2
<1>16. goods'.uses = Cardinality(WithCoupon') /\ goods'.uses <= UsageLimit
  BY <1>1, CheckoutAssumption, <1>8, <1>2, <1>4, <1>5 DEF CheckoutInv, OrdersAddUp, Goods, Holding
<1>17. ASSUME NEW i \in WithCoupon', NEW j \in WithCoupon', placed'[i].contact = placed'[j].contact
       PROVE  i = j
  <2>1. \A x, y \in WithCoupon : placed[x].contact = placed[y].contact => x = y
    BY DEF CheckoutInv, OrdersAddUp
  <2>2. WithCoupon \subseteq PlacedOrders /\ k \notin PlacedOrders
    BY <1>3 DEF WithCoupon, PlacedOrders
  <2>3. new.coupon => \A x \in WithCoupon : placed[x].contact # new.contact
    BY <1>1, <1>8, <1>2 DEF Holding, UsedBy, WithCoupon, PlacedOrders
  <2>4. CASE i = k /\ j = k
    BY <2>4
  <2>5. ASSUME NEW x \in WithCoupon', NEW y \in WithCoupon', x = k, y # k
        PROVE  placed'[x].contact # placed'[y].contact
    BY <1>4, <2>2, <2>3, <2>5
  <2>6. CASE i # k /\ j # k
    <3>1. i \in WithCoupon /\ j \in WithCoupon
      BY <1>4, <2>6
    <3>2. placed'[i] = placed[i] /\ placed'[j] = placed[j]
      BY <1>4, <2>2, <3>1
    <3> QED
      BY <1>17, <2>1, <3>1, <3>2
  <2> QED
    BY <1>17, <2>4, <2>5, <2>6
<1>18. ASSUME NEW b \in Baskets
       PROVE  /\ Cardinality(OfBasket(b)') = IF baskets'[b].status = "CHECKED_OUT" THEN 1 ELSE 0
              /\ \A j \in OfBasket(b)' : placed'[j].quantity = baskets'[b].quantity
  <2>1. /\ Cardinality(OfBasket(b)) = IF baskets[b].status = "CHECKED_OUT" THEN 1 ELSE 0
        /\ \A j \in OfBasket(b) : placed[j].quantity = baskets[b].quantity
        /\ OfBasket(b) \subseteq PlacedOrders
    BY DEF CheckoutInv, OrdersAddUp, OfBasket
  <2>2. CASE b = b0
    <3>1. baskets[b].status = "ACTIVE" /\ baskets[b].quantity = r.quantity
      BY <1>1, <1>8, <2>2 DEF Holding
    <3>2. OfBasket(b) = {}
      BY <2>1, FS_Subset, <3>1, FS_EmptySet DEF CheckoutInv, OrdersCounted
    <3>3. OfBasket(b)' = {k}
      BY <1>2, <1>4, <2>2, <3>2
    <3>4. Cardinality({k}) = 1
      BY FS_Singleton
    <3> QED
      BY <1>2, <1>4, <1>6, <2>2, <3>1, <3>3, <3>4
  <2>3. CASE b # b0
    <3>1. OfBasket(b)' = OfBasket(b)
      BY <1>2, <1>4, <2>3
    <3>2. baskets'[b] = baskets[b]
      BY <1>6, <2>3
    <3>3. \A j \in OfBasket(b) : placed'[j] = placed[j]
      BY <1>4, <2>1
    <3> QED
      BY <2>1, <3>1, <3>2, <3>3
  <2> QED
    BY <2>2, <2>3
<1>19. ASSUME NEW i \in PlacedOrders', NEW j \in PlacedOrders', placed'[i].code = placed'[j].code
       PROVE  i = j
  <2>1. \A x, y \in PlacedOrders : placed[x].code = placed[y].code => x = y
    BY DEF CheckoutInv, OrdersAddUp
  <2>2. \A x \in PlacedOrders : placed[x].code # code
    BY DEF TakenCodes, PlacedOrders
  <2> QED
    <3>1. CASE i = k /\ j = k
      BY <3>1
    <3>2. ASSUME NEW x \in PlacedOrders PROVE placed'[x].code # placed'[k].code
      BY <1>2, <1>4, <2>2
    <3>3. CASE i \in PlacedOrders /\ j \in PlacedOrders
      <4>1. placed'[i] = placed[i] /\ placed'[j] = placed[j]
        BY <1>4, <3>3
      <4> QED
        BY <1>19, <2>1, <3>3, <4>1
    <3>4. i \in PlacedOrders \cup {k} /\ j \in PlacedOrders \cup {k}
      BY <1>4
    <3> QED
      BY <1>19, <3>1, <3>2, <3>3, <3>4
<1>20. OrdersAddUp'
  BY <1>15, <1>16, <1>17, <1>18, <1>19 DEF OrdersAddUp
<1> QED
  BY <1>4, <1>11, <1>12, <1>13, <1>14, <1>20 DEF CheckoutInv

\* Inserting the order does: it is what the buyer accepted.
LEMMA InsertKeeps ==
  ASSUME CheckoutInv, NEW k \in Checkouts, insert(k)
  PROVE  CheckoutInv'
<1>1. CASE Refuse(k, "code")
  BY <1>1, RefuseKeeps DEF insert, At, Reasons, KeptReasons
<1>2. CASE ~Refuse(k, "code")
  BY <1>2, CommitKeeps DEF insert
<1> QED
  BY <1>1, <1>2

\* Checkouts start with the invariant.
LEMMA CheckoutInitKeeps ==
  ASSUME CheckoutInit
  PROVE  CheckoutInv
<1>1. /\ checkout = [k \in Checkouts |-> Unasked] /\ Unasked \in CheckoutRow
      /\ baskets = [b \in Baskets |-> [status |-> "ACTIVE", quantity |-> 1]]
      /\ account = [active |-> TRUE, saved |-> TRUE] /\ DOMAIN placed = {} /\ shopClock = 0 /\ changes = 0
      /\ shopClock \in ShopTimes
  BY CheckoutConstants DEF CheckoutInit
<1>2. goods \in Goods /\ goods.stock = InitialStock /\ goods.supply = InitialStock /\ goods.uses = 0
  <2> DEFINE p == [t \in ShopTimes |-> IF t = 0 THEN Min(UnitPrices) ELSE Unpriced]
  <2>1. p \in [ShopTimes -> Nat] /\ Min(ShippingFees) \in Nat /\ InitialStock \in Nat
    BY CheckoutConstants, CheckoutAssumption DEF Unpriced
  <2>2. goods = [price |-> p, onSale |-> TRUE, storeOnly |-> FALSE, fee |-> Min(ShippingFees), auto |-> 0, couponOn |-> TRUE,
                 uses |-> 0, stock |-> InitialStock, supply |-> InitialStock]
    BY DEF CheckoutInit
  <2> HIDE DEF p
  <2> QED
    BY <2>1, <2>2 DEF Goods
<1>3. CheckoutTypes
  BY <1>1, <1>2 DEF CheckoutTypes
<1>4. /\ Unasked.phase = "none" /\ Unasked.step = "none" /\ ~Unasked.ready
  BY DEF Unasked
<1>5. RowsFit
  BY <1>1, <1>4 DEF RowsFit, RowFits, Shape, Holding, HasBasket, HasCoupon, HasStock, Calm, ReadsNow
<1>6. LocksApart
  BY <1>1, <1>4 DEF LocksApart, Together, HasBasket, HasCoupon, HasStock
<1>7. /\ PlacedOrders = {} /\ UnitsPlaced = {} /\ WithCoupon = {} /\ \A b : OfBasket(b) = {}
      /\ IsFiniteSet({}) /\ Cardinality({}) = 0
  BY <1>1, FS_EmptySet DEF PlacedOrders, UnitsPlaced, WithCoupon, OfBasket
<1>8. OrdersEnded /\ OrdersCounted
  BY <1>7 DEF OrdersEnded, OrdersCounted
<1>9. InitialStock \in Nat /\ UsageLimit \in Nat /\ 0 <= UsageLimit
  BY CheckoutAssumption
<1>10. OrdersAddUp
  <2>1. \A b \in Baskets : Cardinality(OfBasket(b)) = 0 /\ baskets[b].status # "CHECKED_OUT" /\ OfBasket(b) = {}
    BY <1>1, <1>7
  <2>2. goods.stock + Cardinality(UnitsPlaced) = goods.supply /\ goods.uses = Cardinality(WithCoupon) /\ goods.uses <= UsageLimit
    BY <1>2, <1>7, <1>9
  <2> QED
    BY <1>7, <2>1, <2>2 DEF OrdersAddUp
<1> QED
  BY <1>3, <1>5, <1>6, <1>8, <1>10 DEF CheckoutInv

\* Each step of a checkout and of the shop keeps it.
LEMMA CheckoutKeeps ==
  ASSUME CheckoutInv, [CheckoutNext]_checkoutVars
  PROVE  CheckoutInv'
<1>1. ASSUME NEW k \in Checkouts, NEW q \in Requests, ask(k, q)
      PROVE  CheckoutInv'
  BY <1>1, AskKeeps
<1>2. ASSUME NEW k \in Checkouts, goOn(k)
      PROVE  CheckoutInv'
  BY <1>2, AcceptKeeps, BuyerKeeps, CartKeeps, AddressKeeps, VariantsKeep, PricesKeep, DiscountKeeps, OnceKeeps, FulfilKeeps,
     ShippingKeeps, CouponKeeps, ReserveKeeps, InsertKeeps DEF goOn
<1>3. ASSUME NEW k \in Checkouts, fail(k)
      PROVE  CheckoutInv'
  BY <1>3, FailKeeps
<1>4. CASE Others
  BY <1>4, OthersKeep
<1>5. CASE UNCHANGED checkoutVars
  BY <1>5 DEF checkoutVars, CheckoutInv, CheckoutTypes, RowsFit, LocksApart, OrdersEnded, OrdersCounted, OrdersAddUp,
              PlacedOrders, UnitsPlaced, WithCoupon, OfBasket
<1>6. CASE CheckoutNext
  BY <1>1, <1>2, <1>3, <1>4, <1>6 DEF CheckoutNext
<1> QED
  BY <1>5, <1>6

\* The one furthest on, of the checkouts being placed, waits for none: whoever has what it needs is further.
LEMMA SomeCheckoutGoesOn ==
  ASSUME CheckoutInv
  PROVE  CheckoutsGoOn
<1> DEFINE n(k) == 10 - Rank[checkout[k].step]
<1> SUFFICES ASSUME Placing # {} PROVE \E k \in Placing : ~Waits(k)
  BY DEF CheckoutsGoOn
<1>1. ASSUME NEW k \in Placing
      PROVE  k \in Checkouts /\ checkout[k].phase = "place" /\ Rank[checkout[k].step] \in 1..10
  BY RowOf DEF Placing, RowFits, Shape, Rank, PlaceSteps
<1>2. PICK k \in Placing : \A j \in Placing : n(k) <= n(j)
  <2> DEFINE left == {n(j) : j \in Placing}
  <2>1. left # {} /\ left \subseteq Nat
    BY <1>1
  <2>2. PICK m \in left : \A x \in left : m <= x
    <3> HIDE DEF left
    <3> QED
      BY <2>1, LeastNat
  <2>3. PICK k \in Placing : m = n(k)
    BY <2>2
  <2>4. \A j \in Placing : n(j) \in left
    OBVIOUS
  <2> HIDE DEF left, n
  <2> QED
    BY <2>2, <2>3, <2>4
<1>3. ASSUME NEW j \in Checkouts, NEW step, Past(j, step), checkout[k].step = step
      PROVE  FALSE
  BY <1>3, <1>1, <1>2 DEF Past, Placing
<1>4. ~Waits(k)
  BY <1>3 DEF Waits, BasketFree, CouponFree, StockFree, locksBasket, locksCoupon, locksStock
<1> QED
  BY <1>4

\* It has what is promised of checkouts.
LEMMA CheckoutImplies ==
  ASSUME CheckoutInv
  PROVE  CheckoutsHold
<1>1. QuoteIsKept
  BY RowOf DEF QuoteIsKept, KeptReasons, RowFits, Calm, ReadyNow, Wanted
<1>2. PlacedAsAccepted
  BY <1>1 DEF PlacedAsAccepted, CheckoutInv, OrdersEnded
<1> QED
  BY <1>2, SomeCheckoutGoesOn DEF CheckoutsHold

\* Orders are placed as their buyers accepted, and none keeps the others from it, for any number of checkouts, requests,
\* carts, contacts, prices and changes of the shop (PlaceOrderUseCase, StaffCheckoutUseCase, CheckoutAssessment).
THEOREM CheckoutsAlwaysHold == CheckoutSpec => []CheckoutsHold
<1>1. CheckoutInit => CheckoutInv
  BY CheckoutInitKeeps
<1>2. CheckoutInv /\ [CheckoutNext]_checkoutVars => CheckoutInv'
  BY CheckoutKeeps
<1>3. CheckoutInv => CheckoutsHold
  BY CheckoutImplies
<1> QED
  BY <1>1, <1>2, <1>3, PTL DEF CheckoutSpec

-----------------------------------------------------------------------------
(* Discounts: sums.                                                        *)

\* The sums of the first ones.
IsSum(P, s, N) == P \in [0..N -> Int] /\ P[0] = 0 /\ \A i \in 1..N : P[i] = P[i - 1] + s[i]

\* AddUp adds one after another.
LEMMA AddsUp ==
  ASSUME NEW N \in Nat, NEW s \in [1..N -> Int]
  PROVE  \E P : IsSum(P, s, N) /\ AddUp(s) = P[N]
<1> DEFINE op(sum, x) == sum + x
<1> DEFINE G == [p \in (1..N) \X Int |-> op(p[2], s[p[1]])]
<1>1. G \in [(1..N) \X Int -> Int]
  OBVIOUS
<1>2. PICK f : Iterates(f, N, 0, Int, G)
  <2>1. 0 \in Int
    OBVIOUS
  <2> HIDE DEF G
  <2> QED
    BY <1>1, <2>1, FoldExists
<1>3. f = [x \in SUBSET (DOMAIN s) |-> IF x = {} THEN 0 ELSE op(f[x \ {Max(x)}], s[Max(x)])]
  <2>1. f \in [SUBSET (1..N) -> Int]
    BY <1>2 DEF Iterates
  <2>2. ASSUME NEW x \in SUBSET (1..N), x # {}
        PROVE  f[x] = op(f[x \ {Max(x)}], s[Max(x)])
    <3>1. Max(x) \in 1..N /\ x \ {Max(x)} \in SUBSET (1..N)
      BY <2>2, MaxIsOne
    <3>2. f[x] = G[<<Max(x), f[x \ {Max(x)}]>>]
      BY <1>2, <2>2 DEF Iterates
    <3>3. f[x \ {Max(x)}] \in Int
      BY <2>1, <3>1
    <3> HIDE DEF op
    <3> QED
      BY <3>1, <3>2, <3>3
  <2>3. f[{}] = 0
    BY <1>2 DEF Iterates
  <2> HIDE DEF G, op
  <2> QED
    BY <2>1, <2>2, <2>3
<1> DEFINE iter == CHOOSE it : it = [x \in SUBSET (DOMAIN s) |-> IF x = {} THEN 0 ELSE op(it[x \ {Max(x)}], s[Max(x)])]
<1>4. iter = [x \in SUBSET (DOMAIN s) |-> IF x = {} THEN 0 ELSE op(iter[x \ {Max(x)}], s[Max(x)])]
  <2> HIDE DEF G, op
  <2> QED
    BY <1>3
<1>5. AddUp(s) = iter[1..N]
  BY DEF AddUp, FoldLeft, MapThenFoldSet
<1>6. iter[1..0] = 0
  <2>1. 1..0 = {}
    OBVIOUS
  <2> HIDE DEF G, op, iter
  <2> QED
    BY <1>4, <2>1
<1>7. ASSUME NEW i \in 1..N
      PROVE  iter[1..i] = iter[1..(i - 1)] + s[i]
  <2>1. /\ 1..i \in SUBSET (1..N) /\ 1..i # {} /\ Max(1..i) = i
        /\ (1..i) \ {Max(1..i)} = 1..(i - 1)
    BY FirstOnes
  <2>2. iter[1..i] = op(iter[1..(i - 1)], s[i])
    <3> HIDE DEF G, op, iter
    <3> QED
      BY <1>4, <2>1
  <2> HIDE DEF iter
  <2> QED
    BY <2>2
<1> HIDE DEF iter, op, G
<1> DEFINE T == {i \in Nat : i <= N => iter[1..i] \in Int}
<1>8. \A i \in Nat : i \in T
  <2>1. 0 \in T
    BY <1>6
  <2>2. ASSUME NEW i \in Nat, i \in T
        PROVE  i + 1 \in T
    BY <2>2, <1>7
  <2> HIDE DEF T
  <2> QED
    BY <2>1, <2>2, NatSets
<1> DEFINE P == [i \in 0..N |-> iter[1..i]]
<1>9. P \in [0..N -> Int] /\ P[0] = 0 /\ P[N] = iter[1..N]
  BY <1>6, <1>8
<1>10. ASSUME NEW i \in 1..N
       PROVE  P[i] = P[i - 1] + s[i]
  BY <1>7
<1>11. IsSum(P, s, N)
  BY <1>9, <1>10 DEF IsSum
<1> QED
  BY <1>5, <1>9, <1>11

\* What holds of nothing, and with each one more, holds of the sum.
LEMMA SumIsInt ==
  ASSUME NEW N \in Nat, NEW s \in [1..N -> Int]
  PROVE  AddUp(s) \in Int
<1>1. PICK P : IsSum(P, s, N) /\ AddUp(s) = P[N]
  BY AddsUp
<1> QED
  BY <1>1 DEF IsSum

\* The sums of two lists add up.
LEMMA SumsAdd ==
  ASSUME NEW N \in Nat, NEW s \in [1..N -> Int], NEW t \in [1..N -> Int], NEW r \in [1..N -> Int],
         \A i \in 1..N : r[i] = s[i] + t[i]
  PROVE  AddUp(r) = AddUp(s) + AddUp(t)
<1>1. PICK P : IsSum(P, s, N) /\ AddUp(s) = P[N]
  BY AddsUp
<1>2. PICK Q : IsSum(Q, t, N) /\ AddUp(t) = Q[N]
  BY AddsUp
<1>3. PICK R : IsSum(R, r, N) /\ AddUp(r) = R[N]
  BY AddsUp
<1> DEFINE T == {i \in Nat : i <= N => R[i] = P[i] + Q[i]}
<1>4. 0 \in T
  BY <1>1, <1>2, <1>3 DEF IsSum
<1>5. ASSUME NEW i \in Nat, i \in T
      PROVE  i + 1 \in T
  BY <1>5, <1>1, <1>2, <1>3 DEF IsSum
<1>6. \A i \in Nat : i \in T
  <2> HIDE DEF T
  <2> QED
    BY <1>4, <1>5, NatSets
<1> QED
  BY <1>1, <1>2, <1>3, <1>6

\* A common factor goes out of a sum.
LEMMA SumScaled ==
  ASSUME NEW N \in Nat, NEW s \in [1..N -> Int], NEW t \in [1..N -> Int], NEW c \in Int,
         \A i \in 1..N : t[i] = c * s[i]
  PROVE  AddUp(t) = c * AddUp(s)
<1>1. PICK P : IsSum(P, s, N) /\ AddUp(s) = P[N]
  BY AddsUp
<1>2. PICK Q : IsSum(Q, t, N) /\ AddUp(t) = Q[N]
  BY AddsUp
<1> DEFINE T == {i \in Nat : i <= N => Q[i] = c * P[i]}
<1>4. 0 \in T
  BY <1>1, <1>2 DEF IsSum
<1>5. ASSUME NEW i \in Nat, i \in T
      PROVE  i + 1 \in T
  <2> SUFFICES ASSUME i + 1 <= N
               PROVE  Q[i + 1] = c * P[i + 1]
    OBVIOUS
  <2>1. i + 1 \in 1..N /\ (i + 1) - 1 = i /\ Q[i] = c * P[i] /\ i \in 0..N
    BY <1>5
  <2>2. P[i + 1] = P[i] + s[i + 1] /\ Q[i + 1] = Q[i] + t[i + 1]
    BY <1>1, <1>2, <2>1 DEF IsSum
  <2>3. P[i] \in Int /\ s[i + 1] \in Int /\ t[i + 1] = c * s[i + 1]
    BY <1>1, <2>1 DEF IsSum
  <2>4. \A a, b \in Int : c * (a + b) = c * a + c * b
    OBVIOUS
  <2> QED
    BY <2>1, <2>2, <2>3, <2>4
<1>6. \A i \in Nat : i \in T
  <2> HIDE DEF T
  <2> QED
    BY <1>4, <1>5, NatSets
<1> QED
  BY <1>1, <1>2, <1>6

\* A list that is nowhere greater has no greater sum.
LEMMA SumsCompare ==
  ASSUME NEW N \in Nat, NEW s \in [1..N -> Int], NEW t \in [1..N -> Int], \A i \in 1..N : s[i] <= t[i]
  PROVE  AddUp(s) <= AddUp(t)
<1>1. PICK P : IsSum(P, s, N) /\ AddUp(s) = P[N]
  BY AddsUp
<1>2. PICK Q : IsSum(Q, t, N) /\ AddUp(t) = Q[N]
  BY AddsUp
<1> DEFINE T == {i \in Nat : i <= N => P[i] <= Q[i]}
<1>4. 0 \in T
  BY <1>1, <1>2 DEF IsSum
<1>5. ASSUME NEW i \in Nat, i \in T
      PROVE  i + 1 \in T
  <2> SUFFICES ASSUME i + 1 <= N
               PROVE  P[i + 1] <= Q[i + 1]
    OBVIOUS
  <2>1. i + 1 \in 1..N /\ (i + 1) - 1 = i /\ P[i] <= Q[i] /\ i \in 0..N
    BY <1>5
  <2>2. P[i + 1] = P[i] + s[i + 1] /\ Q[i + 1] = Q[i] + t[i + 1]
    BY <1>1, <1>2, <2>1 DEF IsSum
  <2>3. P[i] \in Int /\ Q[i] \in Int /\ s[i + 1] \in Int /\ t[i + 1] \in Int /\ s[i + 1] <= t[i + 1]
    BY <1>1, <1>2, <2>1 DEF IsSum
  <2> QED
    BY <2>1, <2>2, <2>3
<1>6. \A i \in Nat : i \in T
  <2> HIDE DEF T
  <2> QED
    BY <1>4, <1>5, NatSets
<1> QED
  BY <1>1, <1>2, <1>6

\* Equal values add up to their number times one of them.
LEMMA SumOfSame ==
  ASSUME NEW N \in Nat, NEW c \in Int, NEW s \in [1..N -> Int], \A i \in 1..N : s[i] = c
  PROVE  AddUp(s) = N * c
<1>1. PICK P : IsSum(P, s, N) /\ AddUp(s) = P[N]
  BY AddsUp
<1> DEFINE T == {i \in Nat : i <= N => P[i] = i * c}
<1>4. 0 \in T
  BY <1>1 DEF IsSum
<1>5. ASSUME NEW i \in Nat, i \in T
      PROVE  i + 1 \in T
  BY <1>5, <1>1 DEF IsSum
<1>6. \A i \in Nat : i \in T
  <2> HIDE DEF T
  <2> QED
    BY <1>4, <1>5, NatSets
<1> QED
  BY <1>1, <1>6

\* Only one of them is anything.
LEMMA SumOfOne ==
  ASSUME NEW N \in Nat, NEW k \in 1..N, NEW s \in [1..N -> Int], \A i \in 1..N : i # k => s[i] = 0
  PROVE  AddUp(s) = s[k]
<1>1. PICK P : IsSum(P, s, N) /\ AddUp(s) = P[N]
  BY AddsUp
<1> DEFINE T == {i \in Nat : i <= N => P[i] = IF i < k THEN 0 ELSE s[k]}
<1>4. 0 \in T
  BY <1>1 DEF IsSum
<1>5. ASSUME NEW i \in Nat, i \in T
      PROVE  i + 1 \in T
  <2> SUFFICES ASSUME i + 1 <= N
               PROVE  P[i + 1] = IF i + 1 < k THEN 0 ELSE s[k]
    OBVIOUS
  <2>1. i + 1 \in 1..N /\ (i + 1) - 1 = i /\ i \in 0..N /\ P[i] = IF i < k THEN 0 ELSE s[k]
    BY <1>5
  <2>2. P[i + 1] = P[i] + s[i + 1] /\ s[k] \in Int
    BY <1>1, <2>1 DEF IsSum
  <2>3. CASE i + 1 = k
    BY <2>1, <2>2, <2>3
  <2>4. CASE i + 1 # k
    BY <2>1, <2>4, <2>2
  <2> QED
    BY <2>3, <2>4
<1>6. \A i \in Nat : i \in T
  <2> HIDE DEF T
  <2> QED
    BY <1>4, <1>5, NatSets
<1> QED
  BY <1>1, <1>6

\* One of them changes.
LEMMA SumChanges ==
  ASSUME NEW N \in Nat, NEW k \in 1..N, NEW s \in [1..N -> Int], NEW t \in [1..N -> Int], \A i \in 1..N : i # k => t[i] = s[i]
  PROVE  AddUp(t) = AddUp(s) + (t[k] - s[k])
<1> DEFINE u == [i \in 1..N |-> IF i = k THEN t[k] - s[k] ELSE 0]
<1>1. u \in [1..N -> Int] /\ u[k] = t[k] - s[k] /\ \A i \in 1..N : i # k => u[i] = 0
  OBVIOUS
<1>2. \A i \in 1..N : t[i] = s[i] + u[i]
  OBVIOUS
<1> HIDE DEF u
<1>3. AddUp(u) = u[k]
  BY <1>1, SumOfOne
<1>4. AddUp(t) = AddUp(s) + AddUp(u)
  BY <1>1, <1>2, SumsAdd
<1> QED
  BY <1>1, <1>3, <1>4

-----------------------------------------------------------------------------
(* Discounts: the places of lines.                                         *)

\* Some of N lines, by what they are sorted by.
Lines(N, s, I) == N \in Nat /\ s \in [1..N -> Int] /\ I \in SUBSET (1..N)

\* The values of N lines.
Values(N, d) == d \in [1..N -> Int]

\* Each of some lines has a place of its own, from the first on, and a line comes first where its place does.
LEMMA PlacesAre ==
  ASSUME NEW N, NEW s, NEW I, Lines(N, s, I)
  PROVE  /\ IsFiniteSet(I) /\ Cardinality(I) \in Nat
         /\ \A i \in I : placeOf(s, I, i) \in 1..Cardinality(I)
         /\ \A i, j \in I : placeOf(s, I, i) = placeOf(s, I, j) => i = j
         /\ \A k \in 1..Cardinality(I) : \E i \in I : placeOf(s, I, i) = k
         /\ \A i, j \in I : comesFirst(s, i, j) <=> placeOf(s, I, i) < placeOf(s, I, j)
<1> DEFINE ahead(i) == {j \in I : comesFirst(s, j, i)}
<1>0. N \in Nat /\ s \in [1..N -> Int] /\ I \in SUBSET (1..N)
  BY DEF Lines
<1>1. IsFiniteSet(I) /\ Cardinality(I) \in Nat
  <2>1. IsFiniteSet(1..N)
    BY <1>0, 1 \in Int, FS_Interval
  <2>2. IsFiniteSet(I)
    BY <1>0, <2>1, FS_Subset
  <2> QED
    BY <2>2, FS_CardinalityType
<1>2. (\A i \in 1..N : s[i] \in Int) /\ \A i \in I : i \in 1..N
  BY <1>0
<1>3. ASSUME NEW i \in I
      PROVE  /\ IsFiniteSet(ahead(i)) /\ Cardinality(ahead(i)) \in Nat /\ Cardinality(ahead(i)) < Cardinality(I)
             /\ placeOf(s, I, i) = Cardinality(ahead(i)) + 1
  <2>1. i \notin ahead(i) /\ ahead(i) \in SUBSET I
    BY <1>2 DEF comesFirst
  <2>2. IsFiniteSet(ahead(i)) /\ Cardinality(ahead(i)) <= Cardinality(I) /\ (Cardinality(I) = Cardinality(ahead(i)) => I = ahead(i))
    <3> HIDE DEF ahead
    <3> QED
      BY <1>1, <2>1, FS_Subset
  <2>3. Cardinality(ahead(i)) \in Nat
    BY <2>2, FS_CardinalityType
  <2>4. Cardinality(I) # Cardinality(ahead(i))
    <3> HIDE DEF ahead
    <3> QED
      BY <1>3, <2>1, <2>2
  <2>5. placeOf(s, I, i) = Cardinality(ahead(i)) + 1
    BY DEF placeOf
  <2> HIDE DEF ahead
  <2> QED
    BY <1>1, <2>2, <2>3, <2>4, <2>5
<1>4. ASSUME NEW i \in I, NEW j \in I, comesFirst(s, i, j)
      PROVE  placeOf(s, I, i) < placeOf(s, I, j)
  <2>1. i \in ahead(j) /\ i \notin ahead(i)
    BY <1>2, <1>4 DEF comesFirst
  <2>2. ASSUME NEW x \in ahead(i)
        PROVE  x \in ahead(j)
    BY <1>2, <1>4 DEF comesFirst
  <2>3. ahead(i) \cup {i} \in SUBSET ahead(j)
    BY <2>1, <2>2
  <2>4. IsFiniteSet(ahead(j)) /\ Cardinality(ahead(j)) \in Nat /\ placeOf(s, I, j) = Cardinality(ahead(j)) + 1
    BY <1>3
  <2>5. IsFiniteSet(ahead(i)) /\ Cardinality(ahead(i)) \in Nat /\ placeOf(s, I, i) = Cardinality(ahead(i)) + 1
    BY <1>3
  <2> HIDE DEF ahead
  <2>6. Cardinality(ahead(i) \cup {i}) = Cardinality(ahead(i)) + 1
    BY <2>1, <2>5, FS_AddElement
  <2>7. Cardinality(ahead(i) \cup {i}) <= Cardinality(ahead(j))
    BY <2>3, <2>4, FS_Subset
  <2> QED
    BY <2>4, <2>5, <2>6, <2>7
<1>5. \A i, j \in I : i = j \/ comesFirst(s, i, j) \/ comesFirst(s, j, i)
  BY <1>2 DEF comesFirst
<1>6. \A i \in I : placeOf(s, I, i) \in 1..Cardinality(I)
  <2> TAKE i \in I
  <2> HIDE DEF ahead
  <2>1. /\ Cardinality(ahead(i)) \in Nat /\ Cardinality(ahead(i)) < Cardinality(I)
        /\ placeOf(s, I, i) = Cardinality(ahead(i)) + 1
    BY <1>3
  <2> QED
    BY <1>1, <2>1
<1> HIDE DEF ahead
<1>7. \A i, j \in I : placeOf(s, I, i) = placeOf(s, I, j) => i = j
  BY <1>6, <1>4, <1>5
<1>8. \A i, j \in I : comesFirst(s, i, j) <=> placeOf(s, I, i) < placeOf(s, I, j)
  BY <1>6, <1>4, <1>5
<1> DEFINE f == [i \in I |-> placeOf(s, I, i)]
<1>9. f \in Injection(I, 1..Cardinality(I))
  BY <1>6, <1>7 DEF Injection, IsInjective
<1>10. f \in Surjection(I, 1..Cardinality(I))
  <2>1. IsFiniteSet(1..Cardinality(I)) /\ Cardinality(1..Cardinality(I)) = Cardinality(I)
    BY <1>1, FS_Interval
  <2> HIDE DEF f
  <2> QED
    BY <1>9, <2>1, FS_Injection
<1>11. \A k \in 1..Cardinality(I) : \E i \in I : placeOf(s, I, i) = k
  BY <1>10 DEF Surjection
<1> QED
  BY <1>1, <1>6, <1>7, <1>8, <1>11

\* The lines up to a place, of some values.
UpToPlace(s, I, d, N, k) == [i \in 1..N |-> IF i \in I /\ placeOf(s, I, i) <= k THEN d[i] ELSE 0]

\* Up to no place there is nothing, up to the last one there are all, and the next place adds its line.
LEMMA NextPlace ==
  ASSUME NEW N, NEW s, NEW I, Lines(N, s, I), NEW d, Values(N, d)
  PROVE  /\ AddUp(UpToPlace(s, I, d, N, 0)) = 0
         /\ UpToPlace(s, I, d, N, Cardinality(I)) = [i \in 1..N |-> IF i \in I THEN d[i] ELSE 0]
         /\ \A k \in Nat : UpToPlace(s, I, d, N, k) \in [1..N -> Int]
         /\ \A i \in I : AddUp(UpToPlace(s, I, d, N, placeOf(s, I, i))) = AddUp(UpToPlace(s, I, d, N, placeOf(s, I, i) - 1)) + d[i]
<1>1. /\ Cardinality(I) \in Nat
      /\ \A i \in I : placeOf(s, I, i) \in 1..Cardinality(I)
      /\ \A i, j \in I : placeOf(s, I, i) = placeOf(s, I, j) => i = j
  BY PlacesAre
<1>0. N \in Nat /\ I \in SUBSET (1..N) /\ d \in [1..N -> Int]
  BY DEF Lines, Values
<1>2. ASSUME NEW k \in Int
      PROVE  UpToPlace(s, I, d, N, k) \in [1..N -> Int]
  BY <1>0 DEF UpToPlace
<1>3. AddUp(UpToPlace(s, I, d, N, 0)) = 0
  <2> DEFINE z == UpToPlace(s, I, d, N, 0)
  <2>1. z \in [1..N -> Int] /\ \A i \in 1..N : z[i] = 0
    BY <1>1, <1>2 DEF UpToPlace
  <2> HIDE DEF z
  <2>2. AddUp(z) = N * 0
    BY <1>0, <2>1, 0 \in Int, SumOfSame
  <2>3. AddUp(z) = 0
    BY <1>0, <2>2
  <2> QED
    BY <2>3 DEF z
<1>4. UpToPlace(s, I, d, N, Cardinality(I)) = [i \in 1..N |-> IF i \in I THEN d[i] ELSE 0]
  BY <1>0, <1>1 DEF UpToPlace
<1>5. ASSUME NEW i \in I
      PROVE  AddUp(UpToPlace(s, I, d, N, placeOf(s, I, i))) = AddUp(UpToPlace(s, I, d, N, placeOf(s, I, i) - 1)) + d[i]
  <2> DEFINE k == placeOf(s, I, i)
             a == UpToPlace(s, I, d, N, k)
             b == UpToPlace(s, I, d, N, k - 1)
  <2>1. k \in 1..Cardinality(I) /\ i \in 1..N /\ k \in Int /\ k - 1 \in Int
    BY <1>0, <1>1
  <2> HIDE DEF k
  <2>2. a \in [1..N -> Int] /\ b \in [1..N -> Int]
    BY <1>2, <2>1
  <2>3. a[i] = d[i] /\ b[i] = 0
    BY <2>1 DEF UpToPlace, k
  <2>4. ASSUME NEW j \in 1..N, j # i
        PROVE  a[j] = b[j]
    <3>1. CASE j \in I
      BY <1>1, <2>4, <3>1, <2>1 DEF k, UpToPlace
    <3>2. CASE j \notin I
      BY <3>2 DEF UpToPlace
    <3> QED
      BY <3>1, <3>2
  <2> HIDE DEF a, b
  <2>5. AddUp(a) = AddUp(b) + (a[i] - b[i])
    BY <1>0, <2>1, <2>2, <2>4, SumChanges
  <2>6. AddUp(b) \in Int /\ d[i] \in Int
    BY <1>0, <2>1, <2>2, SumIsInt
  <2>7. AddUp(a) = AddUp(b) + d[i]
    BY <2>3, <2>5, <2>6
  <2> QED
    BY <2>7 DEF a, b, k
<1> QED
  BY <1>2, <1>3, <1>4, <1>5

\* The sum up to a line is that up to the one before and its own.
LEMMA NextLine ==
  ASSUME NEW N, NEW s, NEW I, Lines(N, s, I), NEW d, Values(N, d), NEW i \in I
  PROVE  AddUp(UpToPlace(s, I, d, N, placeOf(s, I, i))) = AddUp(UpToPlace(s, I, d, N, placeOf(s, I, i) - 1)) + d[i]
  BY NextPlace

\* As many lines have a place up to k as there are places up to k.
LEMMA CountPlaces ==
  ASSUME NEW N, NEW s, NEW I, Lines(N, s, I), NEW k \in 0..Cardinality(I)
  PROVE  AddUp([i \in 1..N |-> IF i \in I /\ placeOf(s, I, i) <= k THEN 1 ELSE 0]) = k
<1> DEFINE d == [i \in 1..N |-> 1]
<1> DEFINE T == {m \in Nat : m <= Cardinality(I) => AddUp(UpToPlace(s, I, d, N, m)) = m}
<1>1. /\ Cardinality(I) \in Nat
      /\ \A m \in 1..Cardinality(I) : \E i \in I : placeOf(s, I, i) = m
  BY PlacesAre
<1>2. Values(N, d) /\ \A i \in I : d[i] = 1
  BY DEF Lines, Values
<1> HIDE DEF d
<1>3. 0 \in T
  BY <1>2, NextPlace
<1>4. ASSUME NEW m \in Nat, m \in T
      PROVE  m + 1 \in T
  <2> SUFFICES ASSUME m + 1 <= Cardinality(I)
               PROVE  AddUp(UpToPlace(s, I, d, N, m + 1)) = m + 1
    OBVIOUS
  <2>1. m + 1 \in 1..Cardinality(I) /\ AddUp(UpToPlace(s, I, d, N, m)) = m /\ (m + 1) - 1 = m
    BY <1>1, <1>4
  <2>2. PICK i \in I : placeOf(s, I, i) = m + 1
    BY <1>1, <2>1
  <2>3. AddUp(UpToPlace(s, I, d, N, m + 1)) = AddUp(UpToPlace(s, I, d, N, (m + 1) - 1)) + d[i]
    BY <1>2, NextLine, <2>2
  <2> QED
    BY <1>2, <2>1, <2>3
<1>5. \A m \in Nat : m \in T
  <2> HIDE DEF T
  <2> QED
    BY <1>3, <1>4, NatSets
<1>6. AddUp(UpToPlace(s, I, d, N, k)) = k
  BY <1>1, <1>5
<1>7. UpToPlace(s, I, d, N, k) = [i \in 1..N |-> IF i \in I /\ placeOf(s, I, i) <= k THEN 1 ELSE 0]
  BY <1>2 DEF UpToPlace, Lines, d
<1> QED
  BY <1>6, <1>7

-----------------------------------------------------------------------------
(* Discounts: division, and what is left by rounding down.                 *)

\* A multiple of each is that multiple of the sum.
Multiples(N, t, c, s) == t \in [1..N -> Int] /\ c \in Int /\ \A i \in 1..N : t[i] = c * s[i]
\* A common factor goes out of a sum of amounts.
LEMMA SumOfMultiples ==
  ASSUME NEW N \in Nat, NEW s, Values(N, s), NEW t, NEW c, Multiples(N, t, c, s)
  PROVE  AddUp(t) = c * AddUp(s)
<1>1. s \in [1..N -> Int] /\ t \in [1..N -> Int] /\ c \in Int
  BY DEF Values, Multiples
<1>2. \A i \in 1..N : t[i] = c * s[i]
  BY DEF Multiples
<1> QED
  BY <1>1, <1>2, SumScaled

\* The sum of sums, and of what is no more.
AreSums(N, r, s, t) == r \in [1..N -> Int] /\ \A i \in 1..N : r[i] = s[i] + t[i]
NoMore(N, s, t) == \A i \in 1..N : s[i] <= t[i]
\* Sums of amounts add up and compare.
LEMMA SumOfValues ==
  ASSUME NEW N \in Nat, NEW s, Values(N, s), NEW t, Values(N, t)
  PROVE  /\ AddUp(s) \in Int
         /\ \A r : AreSums(N, r, s, t) => AddUp(r) = AddUp(s) + AddUp(t)
         /\ NoMore(N, s, t) => AddUp(s) <= AddUp(t)
<1>1. s \in [1..N -> Int] /\ t \in [1..N -> Int]
  BY DEF Values
<1>2. ASSUME NEW r, AreSums(N, r, s, t)
      PROVE  AddUp(r) = AddUp(s) + AddUp(t)
  BY <1>2, <1>1, SumsAdd DEF AreSums
<1>3. ASSUME NoMore(N, s, t)
      PROVE  AddUp(s) <= AddUp(t)
  BY <1>3, <1>1, SumsCompare DEF NoMore
<1>4. AddUp(s) \in Int
  BY <1>1, SumIsInt
<1> QED
  BY <1>2, <1>3, <1>4

\* Whole division.
LEMMA Divides ==
  ASSUME NEW a \in Int, NEW b \in Nat \ {0}
  PROVE  /\ a \div b \in Int /\ a % b \in 0..(b - 1)
         /\ b * (a \div b) <= a /\ a <= b * (a \div b) + b /\ a = b * (a \div b) + (a % b)
<1>1. a \div b \in Int /\ a % b \in 0..(b - 1) /\ a = b * (a \div b) + (a % b)
  OBVIOUS
<1> DEFINE q == a \div b
           r == a % b
<1>2. b * q \in Int
  BY <1>1
<1> HIDE DEF q, r
<1>3. \A x \in Int : a = x + r => x <= a /\ a <= x + b
  BY <1>1 DEF r
<1>4. b * q <= a /\ a <= b * q + b
  BY <1>1, <1>2, <1>3 DEF q, r
<1> QED
  BY <1>1, <1>4 DEF q
\* A positive factor goes out of a comparison.
LEMMA Cancels ==
  ASSUME NEW a \in Int, NEW b \in Int, NEW c \in Nat \ {0}, c * a <= c * b
  PROVE  a <= b
  OBVIOUS
\* A factor goes into a comparison.
LEMMA Scales ==
  ASSUME NEW a \in Int, NEW b \in Int, NEW c \in Nat, a <= b
  PROVE  c * a <= c * b
  OBVIOUS

\* The cents that are left are given to somebody: all of them, and in turns.
LEMMA LeftGoes ==
  ASSUME NEW N, NEW s, NEW I, Lines(N, s, I), I # {}, NEW left \in Nat
  PROVE  /\ Cardinality(I) \in Nat \ {0}
         /\ \A i \in I : centsLeft(left, Cardinality(I), placeOf(s, I, i)) \in Nat
         /\ AddUp([i \in 1..N |-> IF i \in I THEN centsLeft(left, Cardinality(I), placeOf(s, I, i)) ELSE 0]) = left
<1> DEFINE n == Cardinality(I)
           q == left \div n
           m == left % n
           each == [i \in 1..N |-> IF i \in I THEN q ELSE 0]
           more == [i \in 1..N |-> IF i \in I /\ placeOf(s, I, i) <= m THEN 1 ELSE 0]
           all == [i \in 1..N |-> IF i \in I THEN centsLeft(left, n, placeOf(s, I, i)) ELSE 0]
           ones == [i \in 1..N |-> IF i \in I /\ placeOf(s, I, i) <= n THEN 1 ELSE 0]
<1>0. N \in Nat /\ I \in SUBSET (1..N)
  BY DEF Lines
<1>1. IsFiniteSet(I) /\ n \in Nat /\ \A i \in I : placeOf(s, I, i) \in 1..n
  BY PlacesAre
<1>2. n # 0
  BY <1>1, FS_EmptySet
<1> HIDE DEF n
<1>3. q \in Int /\ m \in 0..(n - 1) /\ left = n * q + m
  <2>1. left \in Int /\ n \in Nat \ {0}
    BY <1>1, <1>2
  <2>2. /\ left \div n \in Int /\ left % n \in 0..(n - 1)
        /\ left = n * (left \div n) + (left % n)
    BY ONLY <2>1, Divides
  <2> QED
    BY <2>2
<1>4. q \in Nat
  <2>1. CASE q < 0
    BY <1>1, <1>3, <2>1
  <2> QED
    BY <1>3, <2>1
<1>5. \A i \in I : centsLeft(left, n, placeOf(s, I, i)) = q + (IF placeOf(s, I, i) <= m THEN 1 ELSE 0)
  BY DEF centsLeft
<1> HIDE DEF q, m
<1>6. each \in [1..N -> Int] /\ more \in [1..N -> Int] /\ ones \in [1..N -> Int]
  BY <1>4
<1>7. all \in [1..N -> Int] /\ \A i \in 1..N : all[i] = each[i] + more[i]
  BY <1>4, <1>5
<1>8. AddUp(more) = m
  BY <1>1, <1>3, CountPlaces DEF n
<1>9. AddUp(ones) = n
  BY <1>1, CountPlaces DEF n
<1>10. AddUp(each) = q * n
  <2>1. \A i \in 1..N : each[i] = q * ones[i]
    BY <1>1, <1>4
  <2> HIDE DEF each, ones
  <2>2. AddUp(each) = q * AddUp(ones)
    <3>1. Values(N, ones) /\ Multiples(N, each, q, ones)
      BY <1>4, <1>6, <2>1 DEF Values, Multiples
    <3> QED
      BY <1>0, <3>1, SumOfMultiples
  <2> QED
    BY <1>9, <2>2
<1> HIDE DEF all, each, more, ones
<1>11. AddUp(all) = AddUp(each) + AddUp(more)
  BY <1>0, <1>6, <1>7, SumsAdd
<1>12. AddUp(all) = left
  BY <1>1, <1>4, <1>3, <1>8, <1>10, <1>11
<1>13. \A i \in I : centsLeft(left, n, placeOf(s, I, i)) \in Nat
  BY <1>4, <1>5
<1> QED
  BY <1>1, <1>2, <1>12, <1>13 DEF all, n

\* What is taken back of an excess, from the highest discount on, is all of it or all they are.
Ahead(N, d, i) == [j \in 1..N |-> IF comesFirst(d, j, i) THEN d[j] ELSE 0]
Back(N, d, e) == [i \in 1..N |-> takenBack(e, AddUp(Ahead(N, d, i)), d[i])]
\* Taking an amount back line by line takes all of it, or all there is.
LEMMA TakesBack ==
  ASSUME NEW N \in Nat, NEW d \in [1..N -> Nat], NEW e \in Int
  PROVE  /\ Back(N, d, e) \in [1..N -> Int] /\ \A i \in 1..N : Back(N, d, e)[i] \in 0..d[i]
         /\ AddUp(Back(N, d, e)) = Least(Most(e, 0), AddUp(d))
<1> DEFINE I == 1..N
           ahead(i) == Ahead(N, d, i)
           back == Back(N, d, e)
<1>1. d \in [1..N -> Int] /\ \A i \in 1..N : d[i] \in Nat
  OBVIOUS
<1>2. Lines(N, d, I) /\ Values(N, d)
  BY <1>1 DEF Lines, Values
<1>3. ASSUME NEW i \in I
      PROVE  ahead(i) = UpToPlace(d, I, d, N, placeOf(d, I, i) - 1)
  <2>1. ASSUME NEW j \in I
        PROVE  comesFirst(d, j, i) <=> placeOf(d, I, j) <= placeOf(d, I, i) - 1
    BY <1>2, PlacesAre
  <2> QED
    BY <2>1 DEF UpToPlace, Ahead
<1>4. \A i \in I : AddUp(ahead(i)) \in Int
  <2> TAKE i \in I
  <2>1. ahead(i) \in [1..N -> Int]
    BY <1>1 DEF Ahead
  <2> HIDE DEF ahead
  <2> QED
    BY <2>1, SumIsInt
<1>5. \A i \in I : back[i] = takenBack(e, AddUp(ahead(i)), d[i])
  BY DEF Back
<1>6. \A i \in I : back[i] \in 0..d[i]
  <2> TAKE i \in I
  <2> HIDE DEF ahead
  <2>1. AddUp(ahead(i)) \in Int /\ d[i] \in Nat /\ back[i] = takenBack(e, AddUp(ahead(i)), d[i])
    BY <1>1, <1>4, <1>5
  <2> QED
    BY <2>1 DEF takenBack, Least, Most
<1>7. back \in [1..N -> Int]
  BY <1>1, <1>6 DEF Back
<1>8. Values(N, back)
  BY <1>7 DEF Values
<1> HIDE DEF back, ahead
<1> DEFINE D(k) == AddUp(UpToPlace(d, I, d, N, k))
           B(k) == AddUp(UpToPlace(d, I, back, N, k))
           T == {k \in Nat : k <= Cardinality(I) => D(k) \in Nat /\ B(k) = Least(Most(e, 0), D(k))}
<1>9. /\ Cardinality(I) \in Nat
      /\ \A m \in 1..Cardinality(I) : \E i \in I : placeOf(d, I, i) = m
  BY <1>2, PlacesAre
<1>10. 0 \in T
  BY <1>2, <1>8, NextPlace DEF Least, Most
<1>11. ASSUME NEW k \in Nat, k \in T
       PROVE  k + 1 \in T
  <2> SUFFICES ASSUME k + 1 <= Cardinality(I)
               PROVE  D(k + 1) \in Nat /\ B(k + 1) = Least(Most(e, 0), D(k + 1))
    OBVIOUS
  <2>1. k + 1 \in 1..Cardinality(I) /\ D(k) \in Nat /\ B(k) = Least(Most(e, 0), D(k)) /\ (k + 1) - 1 = k
    BY <1>9, <1>11
  <2>2. PICK i \in I : placeOf(d, I, i) = k + 1
    BY <1>9, <2>1
  <2>3. D(k + 1) = D(k) + d[i]
    <3>1. D(placeOf(d, I, i)) = D(placeOf(d, I, i) - 1) + d[i]
      BY <1>2, NextLine
    <3> HIDE DEF D
    <3> QED
      BY <2>1, <2>2, <3>1
  <2>4. B(k + 1) = B(k) + back[i]
    <3>1. B(placeOf(d, I, i)) = B(placeOf(d, I, i) - 1) + back[i]
      BY <1>2, <1>8, NextLine
    <3> HIDE DEF B
    <3> QED
      BY <2>1, <2>2, <3>1
  <2>5. back[i] = takenBack(e, D(k), d[i])
    BY <1>3, <2>1, <2>2, <1>5
  <2>6. d[i] \in Nat
    BY <1>1
  <2> HIDE DEF D, B
  <2> QED
    BY <2>1, <2>3, <2>4, <2>5, <2>6 DEF Least, Most, takenBack
<1>12. \A k \in Nat : k \in T
  <2> HIDE DEF T
  <2> QED
    BY <1>10, <1>11, NatSets
<1>13. B(Cardinality(I)) = Least(Most(e, 0), D(Cardinality(I)))
  BY <1>9, <1>12
<1>14. UpToPlace(d, I, d, N, Cardinality(I)) = d
  BY <1>2, NextPlace, <1>1
<1>15. UpToPlace(d, I, back, N, Cardinality(I)) = back
  BY <1>2, <1>8, NextPlace, <1>7
<1> QED
  BY <1>6, <1>7, <1>13, <1>14, <1>15 DEF back

-----------------------------------------------------------------------------
(* Discounts: the shares of an amount, and percentages.                    *)

\* Every line costs something; what some of them cost, their shares of an amount rounded down, and the cents left.
Positive(N, l) == \A i \in 1..N : l[i] \in Nat \ {0}
Among(N, l, I) == [i \in 1..N |-> IF i \in I THEN l[i] ELSE 0]
Shares(N, l, I, a, T) == [i \in 1..N |-> IF i \in I THEN (a * l[i]) \div T ELSE 0]
Extras(N, l, I, left) == [i \in 1..N |-> IF i \in I THEN centsLeft(left, Cardinality(I), placeOf(l, I, i)) ELSE 0]

\* What the lines that apply cost is a number, and no less than each of them.
LEMMA AmongAddsUp ==
  ASSUME NEW N, NEW l, NEW I, Lines(N, l, I), Positive(N, l)
  PROVE  /\ Values(N, Among(N, l, I)) /\ AddUp(Among(N, l, I)) \in Nat
         /\ \A i \in I : l[i] <= AddUp(Among(N, l, I))
<1> DEFINE m == Among(N, l, I)
           none == [i \in 1..N |-> 0]
           one(k) == [i \in 1..N |-> IF i = k THEN l[k] ELSE 0]
<1>0. N \in Nat /\ l \in [1..N -> Int] /\ I \in SUBSET (1..N)
  BY DEF Lines
<1>1. \A i \in 1..N : l[i] \in Nat /\ m[i] \in Nat /\ (i \in I => m[i] = l[i])
  BY DEF Positive, Among
<1>2. m \in [1..N -> Int]
  BY <1>1 DEF Among
<1>3. none \in [1..N -> Int] /\ \A i \in 1..N : none[i] = 0 /\ none[i] <= m[i]
  BY <1>1
<1> HIDE DEF m, none
<1>4. AddUp(none) = N * 0 /\ AddUp(none) <= AddUp(m) /\ AddUp(m) \in Int
  <2>1. AddUp(none) = N * 0
    BY <1>0, <1>3, SumOfSame
  <2>2. AddUp(none) <= AddUp(m)
    BY <1>0, <1>2, <1>3, SumsCompare
  <2> QED
    BY <1>0, <1>2, <2>1, <2>2, SumIsInt
<1>5. AddUp(m) \in Nat
  BY <1>0, <1>4
<1>6. ASSUME NEW k \in I
      PROVE  l[k] <= AddUp(m)
  <2>1. k \in 1..N /\ l[k] \in Nat
    BY <1>0, <1>1
  <2>2. one(k) \in [1..N -> Int] /\ (\A i \in 1..N : i # k => one(k)[i] = 0) /\ one(k)[k] = l[k]
    BY <2>1
  <2>3. \A i \in 1..N : one(k)[i] <= m[i]
    BY <1>1, <2>1
  <2> HIDE DEF one
  <2>4. AddUp(one(k)) = one(k)[k]
    BY <1>0, <2>1, <2>2, SumOfOne
  <2>5. AddUp(one(k)) <= AddUp(m)
    BY <1>0, <1>2, <2>2, <2>3, SumsCompare
  <2> QED
    BY <2>2, <2>4, <2>5
<1> QED
  BY <1>2, <1>5, <1>6 DEF Values, m

\* A share is rounded down.
LEMMA ShareIs ==
  ASSUME NEW a \in Nat, NEW x \in Nat, NEW T \in Nat \ {0}, a <= T
  PROVE  /\ (a * x) \div T \in 0..x
         /\ T * ((a * x) \div T) <= a * x /\ a * x <= T * ((a * x) \div T) + T
<1> DEFINE q == (a * x) \div T
           r == (a * x) % T
<1>1. a * x \in Int
  OBVIOUS
<1>2. a * x <= T * x
  BY Scales, x * a = a * x, x * T = T * x
<1>3. q \in Int /\ r \in 0..(T - 1) /\ T * q <= a * x /\ a * x <= T * q + T /\ a * x = T * q + r
  BY <1>1, Divides
<1>4. a * x \in Nat
  OBVIOUS
<1> HIDE DEF q, r
<1>5. q <= x
  BY <1>1, <1>2, <1>3, Cancels
<1>6. 0 <= q
  <2>1. CASE q <= -1
    BY <1>3, <2>1, Scales, <1>4
  <2> QED
    BY <1>3, <2>1
<1> QED
  BY <1>3, <1>5, <1>6 DEF q

\* No more is left by rounding down than a cent for each line, and nothing when it is all of it.
LEMMA LittleIsLeft ==
  ASSUME NEW N, NEW l, NEW I, Lines(N, l, I), Positive(N, l), NEW T \in Nat \ {0}, T = AddUp(Among(N, l, I)), NEW a \in 1..T
  PROVE  /\ Values(N, Shares(N, l, I, a, T)) /\ Cardinality(I) \in Nat
         /\ a - AddUp(Shares(N, l, I, a, T)) \in 0..Cardinality(I)
         /\ a = T => AddUp(Shares(N, l, I, a, T)) = a
<1> DEFINE m == Among(N, l, I)
           s == Shares(N, l, I, a, T)
           ones == [i \in 1..N |-> IF i \in I THEN 1 ELSE 0]
           low == [i \in 1..N |-> T * s[i]]
           up == [i \in 1..N |-> s[i] + ones[i]]
           high == [i \in 1..N |-> T * up[i]]
           all == [i \in 1..N |-> a * m[i]]
           n == Cardinality(I)
<1>0. N \in Nat /\ I \in SUBSET (1..N) /\ a \in Nat /\ T \in Nat /\ a <= T
  BY DEF Lines
<1>1. n \in Nat /\ (\A i \in I : placeOf(l, I, i) \in 1..n)
  BY PlacesAre
<1>2. \A i \in 1..N : /\ l[i] \in Nat /\ m[i] \in Nat /\ (i \in I => m[i] = l[i]) /\ (i \notin I => m[i] = 0)
                      /\ s[i] = IF i \in I THEN (a * l[i]) \div T ELSE 0
  BY DEF Positive, Among, Shares
<1>3. \A i \in 1..N : s[i] \in Nat /\ T * s[i] <= a * m[i] /\ a * m[i] <= T * (s[i] + ones[i])
  <2> TAKE i \in 1..N
  <2>1. CASE i \in I
    <3>1. s[i] = (a * l[i]) \div T /\ m[i] = l[i] /\ l[i] \in Nat /\ ones[i] = 1
      BY <1>2, <2>1
    <3>2. s[i] \in 0..l[i] /\ T * s[i] <= a * l[i] /\ a * l[i] <= T * s[i] + T
      BY <1>0, <3>1, ShareIs
    <3>3. \A x \in Int : T * (x + 1) = T * x + T
      BY <1>0
    <3> HIDE DEF s, m, ones
    <3> QED
      BY <3>1, <3>2, <3>3
  <2>2. CASE i \notin I
    <3>1. s[i] = 0 /\ m[i] = 0 /\ ones[i] = 0
      BY <1>2, <2>2
    <3> HIDE DEF s, m, ones
    <3> QED
      BY <1>0, <3>1
  <2> QED
    BY <2>1, <2>2
<1>4. DOMAIN s = 1..N /\ s = [i \in 1..N |-> s[i]] /\ DOMAIN m = 1..N /\ m = [i \in 1..N |-> m[i]]
  BY DEF Shares, Among
<1>5. \A i \in 1..N : ones[i] \in Nat
  OBVIOUS
<1>6. ones \in [1..N -> Int] /\ AddUp(ones) = n
  <2>1. n \in 0..n
    BY <1>1
  <2>2. ones = [i \in 1..N |-> IF i \in I /\ placeOf(l, I, i) <= n THEN 1 ELSE 0]
    <3>1. \A i \in 1..N : (i \in I) <=> (i \in I /\ placeOf(l, I, i) <= n)
      BY <1>1
    <3> HIDE DEF n
    <3> QED
      BY <3>1
  <2> HIDE DEF ones
  <2>3. AddUp(ones) = n
    BY <2>1, <2>2, CountPlaces
  <2> QED
    BY <1>5, <2>3 DEF ones
<1> HIDE DEF s, m, ones, n
<1>7. s \in [1..N -> Int] /\ m \in [1..N -> Int]
  BY <1>2, <1>3, <1>4
<1>8. /\ low \in [1..N -> Int] /\ up \in [1..N -> Int] /\ high \in [1..N -> Int] /\ all \in [1..N -> Int]
      /\ \A i \in 1..N : /\ low[i] = T * s[i] /\ up[i] = s[i] + ones[i] /\ high[i] = T * up[i] /\ all[i] = a * m[i]
                         /\ low[i] <= all[i] /\ all[i] <= high[i]
  BY <1>2, <1>3, <1>5, <1>0
<1> HIDE DEF low, up, high, all
<1>9. Multiples(N, low, T, s) /\ Multiples(N, high, T, up) /\ Multiples(N, all, a, m)
  BY <1>0, <1>8 DEF Multiples
<1>10. /\ AddUp(low) = T * AddUp(s) /\ AddUp(high) = T * AddUp(up) /\ AddUp(all) = a * AddUp(m)
  <2>1. Values(N, s) /\ Values(N, up) /\ Values(N, m)
    BY <1>7, <1>8 DEF Values
  <2> QED
    BY <1>0, <1>9, <2>1, SumOfMultiples
<1>11. AddUp(up) = AddUp(s) + n
  <2>1. Values(N, s) /\ Values(N, ones) /\ AreSums(N, up, s, ones)
    BY <1>6, <1>7, <1>8 DEF Values, AreSums
  <2>2. AddUp(up) = AddUp(s) + AddUp(ones)
    BY <1>0, <2>1, SumOfValues
  <2> QED
    BY <1>6, <2>2
<1>12. AddUp(low) <= AddUp(all) /\ AddUp(all) <= AddUp(high)
  BY <1>8, <1>0, SumsCompare
<1>13. AddUp(s) \in Int /\ AddUp(m) = T /\ T * a = a * T
  BY <1>0, <1>7, SumIsInt DEF m
<1>14. AddUp(s) <= a
  BY <1>10, <1>12, <1>13, <1>0, Cancels
<1>15. a <= AddUp(s) + n
  BY <1>10, <1>11, <1>12, <1>13, <1>1, <1>0, Cancels DEF n
<1>16. ASSUME a = T PROVE AddUp(s) = a
  <2>1. \A i \in 1..N : s[i] = m[i]
    <3> TAKE i \in 1..N
    <3>1. s[i] \in Nat /\ m[i] \in Nat /\ T * s[i] <= T * m[i]
      BY <1>2, <1>3, <1>16
    <3>2. CASE i \in I
      BY <1>2, <1>16, <3>2, <3>1, <1>0
    <3>3. CASE i \notin I
      BY <1>2, <3>3
    <3> QED
      BY <3>2, <3>3
  <2>2. s = m
    BY <1>4, <2>1
  <2> QED
    BY <1>13, <1>16, <2>2
<1>17. a - AddUp(s) \in 0..n /\ n \in Nat
  BY <1>0, <1>1, <1>13, <1>14, <1>15 DEF n
<1> QED
  BY <1>7, <1>16, <1>17 DEF Values, s, n

\* The lines an offer applies to, and what they cost.
Applied(N, p) == {i \in 1..N : appliesTo(p, i)}
TotalOf(N, p, l) == AddUp(Among(N, l, Applied(N, p)))

\* A percentage is rounded to the cent.
LEMMA PercentageIs ==
  ASSUME NEW x \in Nat, NEW v \in Nat, v <= 100
  PROVE  /\ percentageOf(x, v) \in 0..x
         /\ 2 * (100 * percentageOf(x, v) - x * v) \in -100..100
<1> DEFINE q == (x * v + 50) \div 100
           r == (x * v + 50) % 100
           y == x * v
<1>1. y \in Nat /\ y <= 100 * x
  BY Scales
<1>2. q \in Int /\ r \in 0..99 /\ y + 50 = 100 * q + r
  BY <1>1, Divides
<1>3. percentageOf(x, v) = q
  BY DEF percentageOf
<1> HIDE DEF q, r
<1>4. 2 * (100 * q - y) \in -100..100 /\ q \in 0..x
  <2> HIDE DEF y
  <2> QED
    BY <1>1, <1>2
<1> QED
  BY <1>3, <1>4

\* The discount of an offer, by line.
LEMMA DiscountsAre ==
  ASSUME NEW p \in Offers, NEW N, NEW l, Lines(N, l, 1..N), Positive(N, l)
  PROVE  LET d == discountsOf(p, l) IN
         /\ d = [i \in 1..N |-> d[i]]
         /\ \A i \in 1..N : ~appliesTo(p, i) => d[i] = 0
         /\ p.type = "PERCENTAGE" => \A i \in 1..N : appliesTo(p, i) => d[i] = percentageOf(l[i], p.value)
         /\ p.type = "AMOUNT" /\ TotalOf(N, p, l) = 0 => \A i \in 1..N : d[i] = 0
         /\ p.type = "AMOUNT" /\ TotalOf(N, p, l) # 0 =>
              LET a == Least(p.value, TotalOf(N, p, l))  s == Shares(N, l, Applied(N, p), a, TotalOf(N, p, l)) IN
              \A i \in 1..N : d[i] = s[i] + Extras(N, l, Applied(N, p), a - AddUp(s))[i]
<1> DEFINE I == Applied(N, p)
           T == TotalOf(N, p, l)
           a == Least(p.value, T)
           s == Shares(N, l, I, a, T)
<1>1. DOMAIN l = 1..N
  BY DEF Lines
<1>2. {i \in DOMAIN l : appliesTo(p, i)} = I
  BY <1>1 DEF Applied
<1>3. \A i \in 1..N : i \in I <=> appliesTo(p, i)
  BY DEF Applied
<1>4. AddUp([i \in DOMAIN l |-> IF i \in I THEN l[i] ELSE 0]) = T
  BY <1>1 DEF TotalOf, Among
<1>5. AddUp([i \in DOMAIN l |-> IF i \in I THEN (a * l[i]) \div T ELSE 0]) = AddUp(s)
  BY <1>1 DEF Shares
<1>6. discountsOf(p, l) =
        CASE p.type = "PERCENTAGE" -> [i \in 1..N |-> IF i \in I THEN percentageOf(l[i], p.value) ELSE 0]
          [] p.type = "AMOUNT" /\ T = 0 -> [i \in 1..N |-> 0]
          [] OTHER -> [i \in 1..N |-> (IF i \in I THEN (a * l[i]) \div T ELSE 0)
                        + IF i \in I THEN centsLeft(a - AddUp(s), Cardinality(I), placeOf(l, I, i)) ELSE 0]
  <2> HIDE DEF T, I, s
  <2> QED
    BY <1>1, <1>2, <1>4, <1>5 DEF discountsOf
<1> HIDE DEF I, T, a, s
<1>7. CASE p.type = "PERCENTAGE"
  BY <1>6, <1>7, <1>3
<1>8. CASE p.type = "AMOUNT" /\ T = 0
  BY <1>6, <1>8 DEF T
<1>9. CASE p.type = "AMOUNT" /\ T # 0
  <2>1. discountsOf(p, l) = [i \in 1..N |-> (IF i \in I THEN (a * l[i]) \div T ELSE 0)
                        + IF i \in I THEN centsLeft(a - AddUp(s), Cardinality(I), placeOf(l, I, i)) ELSE 0]
    BY <1>6, <1>9
  <2>2. \A i \in 1..N : /\ s[i] = (IF i \in I THEN (a * l[i]) \div T ELSE 0)
                        /\ Extras(N, l, I, a - AddUp(s))[i] = IF i \in I THEN centsLeft(a - AddUp(s), Cardinality(I), placeOf(l, I, i)) ELSE 0
    BY DEF Extras, Shares, s
  <2>3. \A i \in 1..N : discountsOf(p, l)[i] = s[i] + Extras(N, l, I, a - AddUp(s))[i]
    BY <2>1, <2>2
  <2>4. \A i \in 1..N : ~appliesTo(p, i) => discountsOf(p, l)[i] = 0
    BY <1>3, <2>1
  <2>5. discountsOf(p, l) = [i \in 1..N |-> discountsOf(p, l)[i]]
    BY <2>1
  <2>6. p.type # "PERCENTAGE"
    BY <1>9
  <2> QED
    BY <1>9, <2>3, <2>4, <2>5, <2>6 DEF a, s, T, I
<1> QED
  BY <1>7, <1>8, <1>9, DiscountsAssumption

\* Among n lines, no more than n cents go one each.
LEMMA SmallQuotient ==
  ASSUME NEW n \in Nat \ {0}, NEW left \in 0..n, NEW q \in Int, NEW r \in 0..(n - 1), left = n * q + r
  PROVE  q \in 0..1 /\ (left = 0 => q = 0 /\ r = 0) /\ (q = 1 => r = 0)
<1> DEFINE y == n * q
<1>1. y \in Int /\ left = y + r
  OBVIOUS
<1>2. CASE q <= -1
  <2>1. y <= n * (-1)
    BY <1>2, Scales
  <2> HIDE DEF y
  <2> QED
    BY <1>1, <2>1
<1>3. CASE q >= 2
  <2>1. n * 2 <= y
    BY <1>3, Scales
  <2> HIDE DEF y
  <2> QED
    BY <1>1, <2>1
<1>4. CASE q = 0
  BY <1>4
<1>5. CASE q = 1
  BY <1>5
<1> QED
  BY <1>2, <1>3, <1>4, <1>5
\* A line gets one cent of those left, or none.
LEMMA CentsGo ==
  ASSUME NEW n \in Nat \ {0}, NEW left \in 0..n, NEW place \in 1..n
  PROVE  centsLeft(left, n, place) \in 0..1 /\ (left = 0 => centsLeft(left, n, place) = 0)
<1> DEFINE q == left \div n
           r == left % n
<1>1. q \in Int /\ r \in 0..(n - 1) /\ left = n * q + r
  BY left \in Int, Divides
<1>2. centsLeft(left, n, place) = q + IF place <= r THEN 1 ELSE 0
  BY DEF centsLeft
<1> HIDE DEF q, r
<1>3. q \in 0..1 /\ (left = 0 => q = 0 /\ r = 0) /\ (q = 1 => r = 0)
  BY <1>1, SmallQuotient
<1> QED
  BY <1>1, <1>2, <1>3

\* An amount is shared to the last cent.
SharedOut(N, l, I, a, T, d) ==
  /\ d = [i \in 1..N |-> d[i]]
  /\ \A i \in 1..N : d[i] = Shares(N, l, I, a, T)[i] + Extras(N, l, I, a - AddUp(Shares(N, l, I, a, T)))[i]
\* Sharing an amount out gives all of it, no line more than it costs, and none more than a cent above its part.
LEMMA AmountIsShared ==
  ASSUME NEW N, NEW l, NEW I, Lines(N, l, I), Positive(N, l), NEW T \in Nat \ {0}, T = AddUp(Among(N, l, I)), NEW a \in 1..T,
         NEW d, SharedOut(N, l, I, a, T, d)
  PROVE  /\ AddUp(d) = a
         /\ \A i \in 1..N : d[i] \in 0..l[i]
         /\ \A i \in I : (d[i] - 1) * T <= a * l[i]
<1> DEFINE s == Shares(N, l, I, a, T)
           left == a - AddUp(s)
           n == Cardinality(I)
           e == Extras(N, l, I, left)
<1>0. N \in Nat /\ I \in SUBSET (1..N) /\ a \in Nat /\ a <= T /\ \A i \in 1..N : l[i] \in Nat
  BY DEF Lines, Positive
<1>a. d = [i \in 1..N |-> d[i]] /\ \A i \in 1..N : d[i] = s[i] + e[i]
  BY DEF SharedOut
<1>1. Values(N, s) /\ n \in Nat /\ left \in 0..n /\ (a = T => AddUp(s) = a)
  BY LittleIsLeft
<1>2. AddUp(s) \in Int /\ left \in Nat
  BY <1>0, <1>1, SumOfValues
<1>3. \A i \in 1..N : s[i] = IF i \in I THEN (a * l[i]) \div T ELSE 0
  BY DEF Shares
<1>4. \A i \in I : s[i] \in 0..l[i] /\ T * s[i] <= a * l[i] /\ (a < T => s[i] < l[i])
  <2> TAKE i \in I
  <2>1. s[i] = (a * l[i]) \div T /\ l[i] \in Nat \ {0}
    BY <1>0, <1>3 DEF Positive
  <2>2. s[i] \in 0..l[i] /\ T * s[i] <= a * l[i]
    BY <1>0, <2>1, ShareIs
  <2>3. ASSUME a < T, s[i] = l[i] PROVE FALSE
    <3> DEFINE x == l[i]
    <3>1. x \in Nat \ {0} /\ T * x <= a * x /\ T - a \in Nat \ {0}
      <4>1. T * s[i] <= a * x /\ s[i] = x
        BY <2>2, <2>3
      <4>2. T - a \in Nat \ {0}
        BY <1>0, <2>3
      <4> HIDE DEF s
      <4> QED
        BY <2>1, <4>1, <4>2
    <3>2. (T - a) * x = T * x - a * x
      BY <1>0, <3>1
    <3>3. (T - a) * x \in Nat \ {0}
      BY <3>1
    <3>4. T * x \in Int /\ a * x \in Int
      BY <1>0, <3>1
    <3> QED
      BY <3>1, <3>2, <3>3, <3>4
  <2> QED
    BY <1>0, <2>1, <2>2, <2>3
<1>5. CASE I = {}
  BY <1>5, <1>0, SumOfSame DEF Among
<1>6. CASE I # {}
  <2>1. /\ n \in Nat \ {0}
        /\ \A i \in I : centsLeft(left, n, placeOf(l, I, i)) \in Nat
        /\ AddUp(e) = left
    <3> HIDE DEF left
    <3> QED
      <4>1. left \in Nat /\ I # {} /\ Lines(N, l, I)
        BY <1>2, <1>6
      <4> HIDE DEF e, n
      <4>2. /\ Cardinality(I) \in Nat \ {0}
            /\ \A i \in I : centsLeft(left, Cardinality(I), placeOf(l, I, i)) \in Nat
            /\ AddUp([i \in 1..N |-> IF i \in I THEN centsLeft(left, Cardinality(I), placeOf(l, I, i)) ELSE 0]) = left
        BY ONLY <4>1, LeftGoes
      <4> QED
        BY <4>2 DEF Extras, e, n
  <2>2. \A i \in 1..N : e[i] = IF i \in I THEN centsLeft(left, n, placeOf(l, I, i)) ELSE 0
    BY DEF Extras
  <2>3. \A i \in I : centsLeft(left, n, placeOf(l, I, i)) \in 0..1 /\ (left = 0 => centsLeft(left, n, placeOf(l, I, i)) = 0)
    <3> TAKE i \in I
    <3>1. placeOf(l, I, i) \in 1..n
      BY PlacesAre
    <3> HIDE DEF left, n
    <3> QED
      BY <1>1, <2>1, <3>1, CentsGo
  <2>4. e = [i \in 1..N |-> e[i]]
    BY DEF Extras
  <2>5. ASSUME NEW i \in 1..N
        PROVE  /\ s[i] \in Int /\ e[i] \in 0..1 /\ d[i] = s[i] + e[i] /\ (i \notin I => s[i] = 0 /\ e[i] = 0)
               /\ (left = 0 => e[i] = 0)
    <3>1. CASE i \in I
      <4> HIDE DEF left, n
      <4>1. s[i] \in 0..l[i] /\ e[i] = centsLeft(left, n, placeOf(l, I, i)) /\ l[i] \in Nat
        BY <1>0, <1>4, <2>2, <3>1
      <4>2. e[i] \in 0..1 /\ (left = 0 => e[i] = 0)
        BY <2>3, <3>1, <4>1
      <4>3. s[i] \in Int
        BY <4>1
      <4> QED
        BY <1>a, <3>1, <4>2, <4>3 DEF left, s, e, n
    <3>2. CASE i \notin I
      <4>1. s[i] = 0 /\ e[i] = 0
        BY <1>3, <2>2, <3>2
      <4> HIDE DEF s, e, left, n
      <4> QED
        BY <1>a, <3>2, <4>1 DEF s, e, left, n
    <3> QED
      BY <3>1, <3>2
  <2> HIDE DEF s, e, left, n
  <2>6. ASSUME NEW i \in 1..N
        PROVE  d[i] \in 0..l[i] /\ (i \in I => (d[i] - 1) * T <= a * l[i])
    <3>1. CASE i \in I
      <4>1. s[i] \in 0..l[i] /\ T * s[i] <= a * l[i] /\ (a < T => s[i] < l[i]) /\ l[i] \in Nat
        BY <1>0, <1>4, <3>1 DEF s
      <4>2. a = T => left = 0
        BY <1>0, <1>1, <1>2 DEF left
      <4>3. d[i] \in 0..l[i]
        BY <1>0, <2>5, <4>1, <4>2
      <4>4. d[i] - 1 <= s[i] /\ d[i] - 1 \in Int
        BY <2>5, <4>1
      <4>5. T * (d[i] - 1) <= T * s[i]
        BY <2>5, <4>1, <4>4, Scales
      <4>6. (d[i] - 1) * T = T * (d[i] - 1) /\ T * s[i] \in Int /\ a * l[i] \in Int /\ T * (d[i] - 1) \in Int
        BY <1>0, <4>1, <4>4
      <4> QED
        BY <4>1, <4>3, <4>5, <4>6
    <3>2. CASE i \notin I
      BY <1>0, <2>5, <3>2
    <3> QED
      BY <3>1, <3>2
  <2>7. Values(N, e) /\ AreSums(N, d, s, e)
    BY <1>a, <2>4, <2>5, <2>6 DEF Values, AreSums
  <2>8. AddUp(d) = AddUp(s) + AddUp(e)
    BY <1>0, <1>1, <2>7, SumOfValues DEF s
  <2>9. AddUp(d) = a
    BY <1>0, <1>2, <2>1, <2>8 DEF left, s, e
  <2> QED
    BY <1>0, <2>6, <2>9
<1> QED
  BY <1>5, <1>6

\* Discounts of lines, none more than its line costs.
Off(N, d, l) == d = [i \in 1..N |-> d[i]] /\ \A i \in 1..N : d[i] \in 0..l[i]

\* What an offer takes off: the properties of its shares.
LEMMA SharesAre ==
  ASSUME NEW p \in Offers, NEW N, NEW l, Lines(N, l, 1..N), Positive(N, l)
  PROVE  LET d == discountsOf(p, l) IN
         /\ Off(N, d, l)
         /\ p.type = "AMOUNT" => AddUp(d) = Least(p.value, TotalOf(N, p, l))
         /\ \A i \in 1..N :
              IF ~appliesTo(p, i) THEN d[i] = 0
              ELSE IF p.type = "PERCENTAGE" THEN 2 * (100 * d[i] - l[i] * p.value) \in -100..100
              ELSE (d[i] - 1) * TotalOf(N, p, l) <= Least(p.value, TotalOf(N, p, l)) * l[i]
<1> DEFINE d == discountsOf(p, l)
           I == Applied(N, p)
           T == TotalOf(N, p, l)
           a == Least(p.value, T)
<1>0. N \in Nat /\ \A i \in 1..N : l[i] \in Nat \ {0}
  BY DEF Lines, Positive
<1>1. Lines(N, l, I)
  BY DEF Lines, Applied
<1>2. p.type \in {"PERCENTAGE", "AMOUNT"} /\ p.value \in Nat \ {0} /\ (p.type = "PERCENTAGE" => p.value <= 100)
  BY DiscountsAssumption
<1>3. T \in Nat /\ \A i \in I : l[i] <= T
  BY <1>1, AmongAddsUp DEF TotalOf
<1>4. /\ d = [i \in 1..N |-> d[i]]
      /\ \A i \in 1..N : ~appliesTo(p, i) => d[i] = 0
      /\ p.type = "PERCENTAGE" => \A i \in 1..N : appliesTo(p, i) => d[i] = percentageOf(l[i], p.value)
      /\ p.type = "AMOUNT" /\ T = 0 => \A i \in 1..N : d[i] = 0
      /\ p.type = "AMOUNT" /\ T # 0 =>
           \A i \in 1..N : d[i] = Shares(N, l, I, a, T)[i] + Extras(N, l, I, a - AddUp(Shares(N, l, I, a, T)))[i]
  BY DiscountsAre
<1>5. \A i \in 1..N : i \in I <=> appliesTo(p, i)
  BY DEF Applied
<1>6. T = AddUp(Among(N, l, I))
  BY DEF TotalOf
<1> HIDE DEF d, I, T
<1>7. CASE p.type = "PERCENTAGE"
  <2>1. ASSUME NEW i \in 1..N
        PROVE  d[i] \in 0..l[i] /\ IF ~appliesTo(p, i) THEN d[i] = 0 ELSE 2 * (100 * d[i] - l[i] * p.value) \in -100..100
    <3>1. CASE appliesTo(p, i)
      <4>1. d[i] = percentageOf(l[i], p.value) /\ l[i] \in Nat /\ p.value \in Nat /\ p.value <= 100
        BY <1>0, <1>2, <1>4, <1>7, <3>1
      <4>2. percentageOf(l[i], p.value) \in 0..l[i] /\ 2 * (100 * percentageOf(l[i], p.value) - l[i] * p.value) \in -100..100
        BY <4>1, PercentageIs
      <4> QED
        BY <3>1, <4>1, <4>2
    <3>2. CASE ~appliesTo(p, i)
      BY <1>0, <1>4, <3>2
    <3> QED
      BY <3>1, <3>2
  <2> QED
    BY <1>4, <1>7, <2>1 DEF Off, d
<1>8. CASE p.type = "AMOUNT" /\ T = 0
  <2>1. \A i \in 1..N : d[i] = 0 /\ ~appliesTo(p, i)
    BY <1>0, <1>3, <1>4, <1>5, <1>8
  <2>2. AddUp(d) = N * 0
    BY <1>4, <2>1, <1>0, SumOfSame
  <2>3. a = 0
    BY <1>2, <1>8 DEF Least
  <2>4. \A i \in 1..N : d[i] \in 0..l[i]
    BY <1>0, <2>1
  <2> QED
    BY <1>0, <1>4, <1>8, <2>1, <2>2, <2>3, <2>4 DEF Off, d, T
<1>9. CASE p.type = "AMOUNT" /\ T # 0
  <2>1. a \in 1..T /\ T \in Nat \ {0}
    BY <1>2, <1>3, <1>9 DEF Least
  <2>2. \A i \in 1..N : d[i] = Shares(N, l, I, a, T)[i] + Extras(N, l, I, a - AddUp(Shares(N, l, I, a, T)))[i]
    BY <1>4, <1>9
  <2> HIDE DEF a
  <2>3. AddUp(d) = a /\ (\A i \in 1..N : d[i] \in 0..l[i]) /\ \A i \in I : (d[i] - 1) * T <= a * l[i]
    <3>1. SharedOut(N, l, I, a, T, d)
      BY <1>4, <2>2 DEF SharedOut
    <3> QED
      BY <1>1, <1>6, <2>1, <3>1, AmountIsShared
  <2>4. \A i \in 1..N : IF ~appliesTo(p, i) THEN d[i] = 0 ELSE (d[i] - 1) * T <= a * l[i]
    BY <1>4, <1>5, <2>3
  <2>5. p.type # "PERCENTAGE"
    BY <1>9
  <2> QED
    BY <1>4, <1>9, <2>3, <2>4, <2>5 DEF Off, d, T, a
<1> QED
  BY <1>2, <1>7, <1>8, <1>9

\* Taking back what is missing.
TakenBack(sub, taken, min, w, b) == taken = w + b /\ b = Least(Most(Least(taken, min - (sub - taken)), 0), taken)
\* What is taken off a payment is what it may be.
LEMMA PaidIs ==
  ASSUME NEW sub \in Nat, NEW taken \in Nat, NEW min \in Nat, NEW w \in Int, NEW b,
         TakenBack(sub, taken, min, w, b)
  PROVE  w \in Nat /\ w = Most(0, Least(taken, sub - min))
<1> DEFINE missing == min - (sub - taken)
<1>1. missing \in Int /\ taken = w + b /\ b = Least(Most(Least(taken, missing), 0), taken)
  BY DEF TakenBack
<1>2. CASE missing <= 0
  BY <1>1, <1>2 DEF Least, Most
<1>3. CASE missing > 0 /\ missing <= taken
  BY <1>1, <1>3 DEF Least, Most
<1>4. CASE missing > taken
  BY <1>1, <1>4 DEF Least, Most
<1> QED
  BY <1>1, <1>2, <1>3, <1>4

\* What is paid is no less than the least payment, or all there is to pay.
LEMMA LeastIsPaid ==
  ASSUME NEW N, NEW l, Lines(N, l, 1..N), Positive(N, l), NEW d, Off(N, d, l)
  PROVE  LET w == withMinimumPayment(d, l) IN
         /\ Off(N, w, l)
         /\ AddUp(l) \in Nat /\ AddUp(d) \in Nat /\ AddUp(w) \in Nat
         /\ AddUp(w) = Most(0, Least(AddUp(d), AddUp(l) - MINIMUM_PAYMENT))
<1> DEFINE w == withMinimumPayment(d, l)
           taken == AddUp(d)
           excess == Least(taken, MINIMUM_PAYMENT - (AddUp(l) - taken))
           back == Back(N, d, excess)
<1>0. N \in Nat /\ l \in [1..N -> Int] /\ DOMAIN l = 1..N /\ (\A i \in 1..N : l[i] \in Nat) /\ MINIMUM_PAYMENT \in Nat
  BY DiscountsAssumption DEF Lines, Positive
<1>1. d = [i \in 1..N |-> d[i]] /\ \A i \in 1..N : d[i] \in 0..l[i]
  BY DEF Off
<1>2. d \in [1..N -> Nat]
  BY <1>0, <1>1
<1>3. d \in [1..N -> Int] /\ \A i \in 1..N : d[i] \in Nat
  BY <1>2
<1>4. AddUp(d) \in Nat /\ AddUp(l) \in Nat
  <2> DEFINE none == [i \in 1..N |-> 0]
  <2>1. none \in [1..N -> Int] /\ \A i \in 1..N : none[i] = 0
    OBVIOUS
  <2> HIDE DEF none
  <2>2. Values(N, none) /\ Values(N, d) /\ Values(N, l) /\ NoMore(N, none, d) /\ NoMore(N, none, l)
    BY <1>0, <1>3, <2>1 DEF Values, NoMore
  <2>3. AddUp(none) = N * 0
    BY <1>0, <2>1, SumOfSame
  <2>4. AddUp(none) <= AddUp(d) /\ AddUp(none) <= AddUp(l) /\ AddUp(d) \in Int /\ AddUp(l) \in Int
    BY <1>0, <2>2, SumOfValues
  <2> QED
    BY <1>0, <2>3, <2>4
<1>5. excess \in Int
  BY <1>0, <1>4 DEF Least
<1>6. w = [i \in 1..N |-> d[i] - takenBack(excess, AddUp(Ahead(N, d, i)), d[i])]
  <2> HIDE DEF excess
  <2>1. \A i \in 1..N : [j \in DOMAIN l |-> IF comesFirst(d, j, i) THEN d[j] ELSE 0] = Ahead(N, d, i)
    BY <1>0 DEF Ahead
  <2> QED
    BY <1>0, <2>1 DEF withMinimumPayment, excess
<1> HIDE DEF excess, w
<1>7. back \in [1..N -> Int] /\ (\A i \in 1..N : back[i] \in 0..d[i]) /\ AddUp(back) = Least(Most(excess, 0), taken)
  BY <1>0, <1>2, <1>5, TakesBack
<1>8. \A i \in 1..N : w[i] = d[i] - back[i]
  BY <1>6 DEF Back
<1> HIDE DEF back
<1>9. \A i \in 1..N : w[i] \in 0..d[i] /\ w[i] \in 0..l[i] /\ d[i] = w[i] + back[i]
  BY <1>0, <1>1, <1>7, <1>8
<1>10. w = [i \in 1..N |-> w[i]]
  BY <1>6
<1>11. Values(N, w) /\ Values(N, back) /\ AreSums(N, d, w, back)
  BY <1>3, <1>7, <1>9, <1>10 DEF Values, AreSums
<1>12. AddUp(d) = AddUp(w) + AddUp(back) /\ AddUp(w) \in Int
  BY <1>0, <1>11, SumOfValues
<1>13. /\ AddUp(w) \in Nat
       /\ AddUp(w) = Most(0, Least(AddUp(d), AddUp(l) - MINIMUM_PAYMENT))
  <2>1. TakenBack(AddUp(l), AddUp(d), MINIMUM_PAYMENT, AddUp(w), AddUp(back))
    BY <1>7, <1>12 DEF TakenBack, excess
  <2> QED
    BY <1>0, <1>4, <1>12, <2>1, PaidIs
<1> QED
  BY <1>4, <1>9, <1>10, <1>13 DEF Off, w

\* What an offer takes off in the end.
LEMMA TakenIs ==
  ASSUME NEW p \in Offers, NEW N, NEW l, Lines(N, l, 1..N), Positive(N, l)
  PROVE  /\ takenBy(p, l) \in Nat /\ p.start \in Nat /\ p.minimum \in Nat /\ p # NoOffer
         /\ Off(N, withMinimumPayment(discountsOf(p, l), l), l)
<1>1. Off(N, discountsOf(p, l), l)
  BY SharesAre
<1>2. p.type \in {"PERCENTAGE", "AMOUNT"} /\ NoOffer.type = "NONE" /\ p.start \in Nat /\ p.minimum \in Nat
  BY DiscountsAssumption DEF NoOffer
<1> QED
  BY <1>1, <1>2, LeastIsPaid DEF takenBy

\* The tax of an amount is within half a cent.
LEMMA TaxIs ==
  ASSUME NEW x \in Nat
  PROVE  /\ containedTax(x) \in Int
         /\ 2 * ((10000 + TaxRate) * containedTax(x) - TaxRate * x) \in -(10000 + TaxRate)..(10000 + TaxRate)
<1> DEFINE D == 10000 + TaxRate
           y == x * TaxRate
           q == y \div D
           r == y % D
           up == IF 2 * r >= D THEN 1 ELSE 0
<1>1. TaxRate \in Nat
  BY DiscountsAssumption
<1>2. D \in Nat \ {0}
  BY <1>1
<1>3. y \in Int /\ TaxRate * x = y
  BY <1>1
<1>4. containedTax(x) = q + up
  BY DEF containedTax
<1> HIDE DEF D, y
<1>5. q \in Int /\ r \in 0..(D - 1) /\ y = D * q + r
  BY <1>2, <1>3, Divides
<1> HIDE DEF q, r
<1>6. D * (q + up) = D * q + D * up /\ D * q \in Int /\ D * up = (IF 2 * r >= D THEN D ELSE 0)
  BY <1>2, <1>5
<1>7. 2 * (D * (q + up) - y) \in -D..D
  BY <1>2, <1>3, <1>5, <1>6
<1>8. q + up \in Int
  BY <1>5
<1> QED
  BY <1>3, <1>4, <1>7, <1>8 DEF D

-----------------------------------------------------------------------------
(* Discounts: the best offer, and the totals.                              *)

\* One offer may take the place of the best so far.
BetterOf(best, p, l) ==
  IF /\ p.minimum <= AddUp(l) /\ takenBy(p, l) > 0
     /\ best = NoOffer \/ beats(p, takenBy(p, l), best, takenBy(best, l))
  THEN p ELSE best
\* The best of some offers, none of which is out of reach and takes off more, or as much and started first.
Outdone(best, p, l) ==
  p.minimum <= AddUp(l) /\ takenBy(p, l) > 0 =>
    /\ best # NoOffer
    /\ takenBy(p, l) < takenBy(best, l) \/ (takenBy(p, l) = takenBy(best, l) /\ best.start <= p.start)

\* The better of two offers is outdone by neither.
LEMMA BetterOutdoes ==
  ASSUME NEW N, NEW l, Lines(N, l, 1..N), Positive(N, l), NEW best \in Offers \cup {NoOffer}, NEW p \in Offers
  PROVE  /\ BetterOf(best, p, l) \in Offers \cup {NoOffer}
         /\ Outdone(BetterOf(best, p, l), p, l)
         /\ \A q \in Offers : Outdone(best, q, l) => Outdone(BetterOf(best, p, l), q, l)
<1> DEFINE after == BetterOf(best, p, l)
<1>1. takenBy(p, l) \in Nat /\ p.start \in Nat /\ p # NoOffer
  BY TakenIs
<1>2. best # NoOffer => takenBy(best, l) \in Nat /\ best.start \in Nat
  BY TakenIs
<1>3. after \in {p, best} /\ after \in Offers \cup {NoOffer}
  BY DEF BetterOf
<1>4. Outdone(after, p, l)
  BY <1>1, <1>2, <1>3 DEF Outdone, BetterOf, beats
<1>5. ASSUME NEW q \in Offers, Outdone(best, q, l)
      PROVE  Outdone(after, q, l)
  BY TakenIs, <1>5, <1>1, <1>2, <1>3 DEF Outdone, BetterOf, beats
<1> QED
  BY <1>3, <1>4, <1>5

\* The best of all the offers is one of them, or none, and no other outdoes it.
LEMMA BestIs ==
  ASSUME NEW N, NEW l, Lines(N, l, 1..N), Positive(N, l), NEW ps \in Seq(Offers)
  PROVE  /\ bestDiscount(ps, l) \in Offers \cup {NoOffer}
         /\ \A n \in 1..Len(ps) : Outdone(bestDiscount(ps, l), ps[n], l)
<1> DEFINE M == Len(ps)
           A == Offers \cup {NoOffer}
           op(best, p) ==
             IF /\ p.minimum <= AddUp(l) /\ takenBy(p, l) > 0
                /\ best = NoOffer \/ beats(p, takenBy(p, l), best, takenBy(best, l))
             THEN p ELSE best
           G == [q \in (1..M) \X A |-> op(q[2], ps[q[1]])]
<1>0. M \in Nat /\ DOMAIN ps = 1..M /\ \A i \in 1..M : ps[i] \in Offers
  BY LenProperties
<1>1. \A best, p : op(best, p) = BetterOf(best, p, l)
  BY DEF BetterOf
<1>2. G \in [(1..M) \X A -> A]
  <2>1. \A q \in (1..M) \X A : op(q[2], ps[q[1]]) \in A
    <3> TAKE q \in (1..M) \X A
    <3>1. q[2] \in A /\ ps[q[1]] \in Offers
      BY <1>0
    <3> HIDE DEF op
    <3> QED
      BY <1>1, <3>1, BetterOutdoes
  <2> HIDE DEF op, A
  <2> QED
    BY <2>1
<1>3. NoOffer \in A
  OBVIOUS
<1>4. PICK f : Iterates(f, M, NoOffer, A, G)
  <2> HIDE DEF M, G, A
  <2> QED
    BY <1>0, <1>2, <1>3, FoldExists
<1>5. f = [x \in SUBSET (DOMAIN ps) |-> IF x = {} THEN NoOffer ELSE op(f[x \ {Max(x)}], ps[Max(x)])]
  <2>1. f \in [SUBSET (1..M) -> A]
    BY <1>4 DEF Iterates
  <2>2. ASSUME NEW x \in SUBSET (1..M), x # {}
        PROVE  f[x] = op(f[x \ {Max(x)}], ps[Max(x)])
    <3>1. Max(x) \in 1..M /\ x \ {Max(x)} \in SUBSET (1..M)
      BY <1>0, <2>2, MaxIsOne
    <3>2. f[x] = G[<<Max(x), f[x \ {Max(x)}]>>]
      BY <1>4, <2>2 DEF Iterates
    <3>3. f[x \ {Max(x)}] \in A
      BY <2>1, <3>1
    <3> HIDE DEF op, A
    <3> QED
      BY <3>1, <3>2, <3>3
  <2>3. f[{}] = NoOffer
    BY <1>4 DEF Iterates
  <2> HIDE DEF G, op, A
  <2> QED
    BY <1>0, <2>1, <2>2, <2>3
<1> DEFINE iter == CHOOSE it : it = [x \in SUBSET (DOMAIN ps) |-> IF x = {} THEN NoOffer ELSE op(it[x \ {Max(x)}], ps[Max(x)])]
<1>6. iter = [x \in SUBSET (DOMAIN ps) |-> IF x = {} THEN NoOffer ELSE op(iter[x \ {Max(x)}], ps[Max(x)])]
  <2> HIDE DEF G, op
  <2> QED
    BY <1>5
<1>7. bestDiscount(ps, l) = iter[1..M]
  BY <1>0 DEF bestDiscount, FoldLeft, MapThenFoldSet
<1>8. iter[1..0] = NoOffer
  <2>1. 1..0 = {}
    OBVIOUS
  <2> HIDE DEF G, op, iter
  <2> QED
    BY <1>6, <2>1
<1>9. ASSUME NEW i \in 1..M
      PROVE  iter[1..i] = BetterOf(iter[1..(i - 1)], ps[i], l)
  <2>1. /\ 1..i \in SUBSET (1..M) /\ 1..i # {} /\ Max(1..i) = i
        /\ (1..i) \ {Max(1..i)} = 1..(i - 1)
    BY <1>0, FirstOnes
  <2>2. iter[1..i] = op(iter[1..(i - 1)], ps[i])
    <3> HIDE DEF G, op, iter
    <3> QED
      BY <1>0, <1>6, <2>1
  <2> HIDE DEF iter, op
  <2> QED
    BY <1>1, <2>2
<1> HIDE DEF iter, op, G
<1> DEFINE T == {i \in Nat : i <= M => iter[1..i] \in A /\ \A n \in 1..i : Outdone(iter[1..i], ps[n], l)}
<1>10. 0 \in T
  BY <1>8
<1>11. ASSUME NEW i \in Nat, i \in T
       PROVE  i + 1 \in T
  <2> SUFFICES ASSUME i + 1 <= M
               PROVE  iter[1..(i + 1)] \in A /\ \A n \in 1..(i + 1) : Outdone(iter[1..(i + 1)], ps[n], l)
    OBVIOUS
  <2>1. i + 1 \in 1..M /\ (i + 1) - 1 = i /\ ps[i + 1] \in Offers
    BY <1>0
  <2>2. iter[1..i] \in A /\ \A n \in 1..i : Outdone(iter[1..i], ps[n], l) /\ ps[n] \in Offers
    BY <1>0, <1>11
  <2>3. iter[1..(i + 1)] = BetterOf(iter[1..i], ps[i + 1], l)
    BY <1>9, <2>1
  <2> HIDE DEF M
  <2>4. /\ iter[1..(i + 1)] \in A /\ Outdone(iter[1..(i + 1)], ps[i + 1], l)
        /\ \A q \in Offers : Outdone(iter[1..i], q, l) => Outdone(iter[1..(i + 1)], q, l)
    BY <2>1, <2>2, <2>3, BetterOutdoes
  <2>5. ASSUME NEW n \in 1..(i + 1)
        PROVE  Outdone(iter[1..(i + 1)], ps[n], l)
    BY <2>4, <2>2
  <2> QED
    BY <2>4, <2>5
<1>12. \A i \in Nat : i \in T
  <2> HIDE DEF T
  <2> QED
    BY <1>10, <1>11, NatSets
<1> QED
  BY <1>0, <1>7, <1>12

\* The tax of some amounts is within half a cent for each.
Taxes(N, t, x) == \A i \in 1..N : x[i] \in Nat /\ t[i] = containedTax(x[i])
\* The taxes of the lines are near the tax of the sum, by half a cent a line.
LEMMA TaxesAre ==
  ASSUME NEW N \in Nat, NEW x, Values(N, x), NEW t, Values(N, t), Taxes(N, t, x)
  PROVE  LET D == 10000 + TaxRate  error == 2 * (D * AddUp(t) - TaxRate * AddUp(x)) IN
         -(N * D) <= error /\ error <= N * D
<1> DEFINE D == 10000 + TaxRate
           a == [i \in 1..N |-> (2 * D) * t[i]]
           b == [i \in 1..N |-> (-(2 * TaxRate)) * x[i]]
           e == [i \in 1..N |-> a[i] + b[i]]
           lo == [i \in 1..N |-> -D]
           hi == [i \in 1..N |-> D]
<1>1. TaxRate \in Nat /\ D \in Nat
  BY DiscountsAssumption
<1>2. \A i \in 1..N : t[i] \in Int /\ x[i] \in Nat /\ t[i] = containedTax(x[i])
  BY DEF Values, Taxes
<1>3. 2 * D \in Int /\ -(2 * TaxRate) \in Int /\ -D \in Int
  BY <1>1
<1> DEFINE dd == 2 * D
           rr == -(2 * TaxRate)
<1>4. \A i \in 1..N : a[i] \in Int /\ b[i] \in Int /\ e[i] \in Int
  <2> TAKE i \in 1..N
  <2>1. t[i] \in Int /\ x[i] \in Int
    BY <1>2
  <2>2. dd * t[i] \in Int /\ rr * x[i] \in Int
    <3> HIDE DEF dd, rr
    <3> QED
      BY <1>3, <2>1 DEF dd, rr
  <2>3. a[i] = dd * t[i] /\ b[i] = rr * x[i] /\ e[i] = a[i] + b[i]
    OBVIOUS
  <2> HIDE DEF a, b, e, dd, rr
  <2> QED
    BY <2>2, <2>3
<1>5. \A i \in 1..N : lo[i] <= e[i] /\ e[i] <= hi[i]
  <2> TAKE i \in 1..N
  <2>1. t[i] \in Int /\ 2 * (D * t[i] - TaxRate * x[i]) \in -D..D
    BY <1>2, TaxIs
  <2> DEFINE y == D * t[i]
             z == TaxRate * x[i]
  <2>2. y \in Int /\ z \in Int /\ dd * t[i] = 2 * y /\ rr * x[i] = -(2 * z)
    BY <1>1, <1>2
  <2>3. a[i] = dd * t[i] /\ b[i] = rr * x[i] /\ e[i] = a[i] + b[i] /\ lo[i] = -D /\ hi[i] = D
    OBVIOUS
  <2>4. 2 * (y - z) \in -D..D
    BY <2>1
  <2> HIDE DEF a, b, e, lo, hi, y, z, dd, rr, D
  <2> QED
    BY <1>1, <2>2, <2>3, <2>4
<1>6. /\ Values(N, e) /\ Values(N, a) /\ Values(N, b) /\ Values(N, lo) /\ Values(N, hi)
      /\ Multiples(N, a, dd, t) /\ Multiples(N, b, rr, x) /\ AreSums(N, e, a, b)
      /\ NoMore(N, lo, e) /\ NoMore(N, e, hi)
  <2>1. \A i \in 1..N : a[i] = dd * t[i] /\ b[i] = rr * x[i] /\ e[i] = a[i] + b[i] /\ lo[i] \in Int /\ hi[i] \in Int
    BY <1>1, <1>3
  <2>2. a = [i \in 1..N |-> a[i]] /\ b = [i \in 1..N |-> b[i]] /\ e = [i \in 1..N |-> e[i]]
    OBVIOUS
  <2>3. lo \in [1..N -> Int] /\ hi \in [1..N -> Int]
    BY <1>1, <1>3
  <2> HIDE DEF a, b, e, lo, hi
  <2>4. a \in [1..N -> Int] /\ b \in [1..N -> Int] /\ e \in [1..N -> Int]
    BY <1>4, <2>2
  <2> HIDE DEF dd, rr
  <2> QED
    BY <1>3, <1>5, <2>1, <2>3, <2>4 DEF Values, Multiples, AreSums, NoMore, dd, rr
<1>7. AddUp(lo) = N * (-D) /\ AddUp(hi) = N * D
  <2>1. lo \in [1..N -> Int] /\ hi \in [1..N -> Int] /\ (\A i \in 1..N : lo[i] = -D) /\ \A i \in 1..N : hi[i] = D
    BY <1>1, <1>3
  <2> HIDE DEF lo, hi, D
  <2> QED
    BY <1>1, <1>3, <2>1, SumOfSame
<1> HIDE DEF a, b, e, lo, hi, dd, rr
<1>8. AddUp(e) = AddUp(a) + AddUp(b) /\ AddUp(a) = dd * AddUp(t) /\ AddUp(b) = rr * AddUp(x)
  BY <1>6, SumOfValues, SumOfMultiples
<1>9. AddUp(lo) <= AddUp(e) /\ AddUp(e) <= AddUp(hi) /\ AddUp(t) \in Int /\ AddUp(x) \in Int
  BY <1>6, SumOfValues
<1> HIDE DEF D
<1>10. AddUp(e) = 2 * (D * AddUp(t) - TaxRate * AddUp(x))
  <2> DEFINE y == D * AddUp(t)
             z == TaxRate * AddUp(x)
  <2>1. y \in Int /\ z \in Int /\ dd * AddUp(t) = 2 * y /\ rr * AddUp(x) = -(2 * z)
    BY <1>1, <1>9 DEF dd, rr
  <2> HIDE DEF y, z
  <2>2. AddUp(e) = 2 * (y - z)
    BY <1>8, <2>1
  <2> QED
    BY <2>2 DEF y, z
<1>11. N * (-D) = -(N * D)
  BY <1>1
<1> QED
  BY <1>7, <1>9, <1>10, <1>11 DEF D

\* What is wrong with a sum is what is wrong with its parts.
Within(D, R, n, tax, x) == -(n * D) <= 2 * (D * tax - R * x) /\ 2 * (D * tax - R * x) <= n * D
\* The rounding of one line more adds half a cent.
LEMMA ErrorsAdd ==
  ASSUME NEW D \in Int, NEW R \in Int, NEW N \in Int, NEW c \in Int, NEW x \in Int, NEW tax \in Int, NEW cost \in Int,
         Within(D, R, N, c, x), Within(D, R, 1, tax, cost)
  PROVE  Within(D, R, N + 1, c + tax, x + cost)
<1> DEFINE y == D * c
           z == R * x
           u == D * tax
           v == R * cost
           w == N * D
<1>1. y \in Int /\ z \in Int /\ u \in Int /\ v \in Int /\ w \in Int
  OBVIOUS
<1>2. D * (c + tax) = y + u /\ R * (x + cost) = z + v /\ (N + 1) * D = w + D
  OBVIOUS
<1>3. -w <= 2 * (y - z) /\ 2 * (y - z) <= w /\ -D <= 2 * (u - v) /\ 2 * (u - v) <= D
  BY DEF Within
<1> HIDE DEF y, z, u, v, w
<1>4. -(w + D) <= 2 * ((y + u) - (z + v)) /\ 2 * ((y + u) - (z + v)) <= w + D
  BY <1>1, <1>3
<1> QED
  BY <1>2, <1>4 DEF Within

\* The totals agree with the discounts of the lines.
LEMMA TotalsAre ==
  ASSUME NEW N, NEW l, Lines(N, l, 1..N), Positive(N, l), NEW d, Off(N, d, l), AddUp(d) \in Nat
  PROVE  LET t == orderTotals(l, d)  products == t.subtotal - t.discountTotal IN
         /\ t.grandTotal = AddUp([i \in 1..N |-> l[i] - d[i]]) + t.shippingCost
         /\ t.shippingCost = IF products >= FreeShippingThreshold THEN 0 ELSE FlatFee
         /\ LET error == 2 * ((10000 + TaxRate) * t.taxTotal - TaxRate * t.grandTotal)
                bound == (N + 1) * (10000 + TaxRate)
            IN -bound <= error /\ error <= bound
<1> DEFINE x == [i \in 1..N |-> l[i] - d[i]]
           c == [i \in 1..N |-> containedTax(l[i] - d[i])]
           cost == charge(AddUp(l), AddUp(d))
           D == 10000 + TaxRate
           t == orderTotals(l, d)
<1>0. N \in Nat /\ l \in [1..N -> Int] /\ DOMAIN l = 1..N /\ (\A i \in 1..N : l[i] \in Nat) /\ TaxRate \in Nat /\ FlatFee \in Nat
  BY DiscountsAssumption DEF Lines, Positive
<1>1. d = [i \in 1..N |-> d[i]] /\ \A i \in 1..N : d[i] \in 0..l[i]
  BY DEF Off
<1>2. \A i \in 1..N : d[i] \in Int /\ x[i] \in Nat /\ x[i] = l[i] - d[i] /\ l[i] = x[i] + d[i]
  BY <1>0, <1>1
<1>3. \A i \in 1..N : c[i] = containedTax(x[i]) /\ c[i] \in Int
  BY <1>2, TaxIs
<1>4. x = [i \in 1..N |-> x[i]] /\ c = [i \in 1..N |-> c[i]]
  OBVIOUS
<1>5. /\ t.subtotal = AddUp(l) /\ t.discountTotal = AddUp(d) /\ t.shippingCost = cost
      /\ t.grandTotal = AddUp(l) + cost - AddUp(d)
      /\ t.taxTotal = AddUp(c) + containedTax(cost)
  BY <1>0 DEF orderTotals
<1>6. cost = (IF AddUp(l) - AddUp(d) >= FreeShippingThreshold THEN 0 ELSE FlatFee) /\ cost \in Nat
  BY <1>0 DEF charge, isFree
<1> HIDE DEF x, c, cost, t, D
<1>7. Values(N, x) /\ Values(N, c) /\ Values(N, d) /\ Values(N, l) /\ AreSums(N, l, x, d)
  BY <1>1, <1>2, <1>3, <1>4, <1>0 DEF Values, AreSums
<1>8. AddUp(l) = AddUp(x) + AddUp(d) /\ AddUp(x) \in Int /\ AddUp(c) \in Int
  BY <1>0, <1>7, SumOfValues
<1>9. t.grandTotal = AddUp(x) + cost
  BY <1>5, <1>6, <1>8
<1>10. -(N * D) <= 2 * (D * AddUp(c) - TaxRate * AddUp(x)) /\ 2 * (D * AddUp(c) - TaxRate * AddUp(x)) <= N * D
  <2>1. Taxes(N, c, x)
    BY <1>2, <1>3 DEF Taxes
  <2> QED
    BY <1>0, <1>7, <2>1, TaxesAre DEF D
<1>11. containedTax(cost) \in Int /\ 2 * (D * containedTax(cost) - TaxRate * cost) \in -D..D
  BY <1>6, TaxIs DEF D
<1>12. -((N + 1) * D) <= 2 * (D * t.taxTotal - TaxRate * t.grandTotal) /\ 2 * (D * t.taxTotal - TaxRate * t.grandTotal) <= (N + 1) * D
  <2>1. D \in Int /\ TaxRate \in Int /\ cost \in Int
    BY <1>0, <1>6 DEF D
  <2> QED
    <3>1. Within(D, TaxRate, N, AddUp(c), AddUp(x))
      BY <1>10 DEF Within
    <3>2. Within(D, TaxRate, N + 1, AddUp(c) + containedTax(cost), AddUp(x) + cost)
      <4>1. Within(D, TaxRate, 1, containedTax(cost), cost)
        BY <1>11, <2>1 DEF Within
      <4> QED
        BY <1>0, <1>8, <1>11, <2>1, <3>1, <4>1, ErrorsAdd
    <3> QED
      BY <1>5, <1>9, <3>2 DEF Within
<1>13. t.shippingCost = IF t.subtotal - t.discountTotal >= FreeShippingThreshold THEN 0 ELSE FlatFee
  BY <1>5, <1>6
<1> QED
  BY <1>5, <1>9, <1>12, <1>13 DEF x, t, D

-----------------------------------------------------------------------------
(* Discounts: a basket is put together and assessed.                       *)

\* The assessment of some lines with some offers.
DiscountsBy(best, l) == IF best = NoOffer THEN [i \in DOMAIN l |-> 0] ELSE withMinimumPayment(discountsOf(best, l), l)
Assessment(l, ps) ==
  [offer |-> bestDiscount(ps, l), discounts |-> DiscountsBy(bestDiscount(ps, l), l),
   totals |-> orderTotals(l, DiscountsBy(bestDiscount(ps, l), l))]

\* What is assessed is the basket there is, with the offers there are.
DiscountsInv ==
  /\ basket \in Seq(LineTotals) /\ offers \in Seq(Offers)
  /\ assessed # NotYet => assessed = Assessment(basket, offers)

\* Discounts start with nothing computed.
LEMMA DiscountsStart == DiscountsInit => DiscountsInv
  BY EmptySeq DEF DiscountsInit, DiscountsInv

\* Each computation keeps the invariant.
LEMMA DiscountsStep == DiscountsInv /\ [DiscountsNext]_discountVars => DiscountsInv'
<1> SUFFICES ASSUME DiscountsInv, [DiscountsNext]_discountVars
             PROVE  DiscountsInv'
  OBVIOUS
<1>1. ASSUME NEW cents \in LineTotals, putLine(cents)
      PROVE  DiscountsInv'
  BY <1>1, AppendProperties DEF putLine, DiscountsInv
<1>2. ASSUME NEW p \in Offers, offer(p)
      PROVE  DiscountsInv'
  BY <1>2, AppendProperties DEF offer, DiscountsInv
<1>3. ASSUME assessBasket
      PROVE  DiscountsInv'
  BY <1>3 DEF assessBasket, Assessment, DiscountsBy, DiscountsInv
<1>4. ASSUME UNCHANGED discountVars
      PROVE  DiscountsInv'
  BY <1>4 DEF discountVars, DiscountsInv
<1> QED
  BY <1>1, <1>2, <1>3, <1>4 DEF DiscountsNext

\* The cents of any basket and any offers add up.
LEMMA DiscountsImply == DiscountsInv => CentsAddUp
<1> SUFFICES ASSUME DiscountsInv
             PROVE  CentsAddUp
  OBVIOUS
<1> DEFINE N == Len(basket)
           l == basket
           best == bestDiscount(offers, basket)
           d == DiscountsBy(best, basket)
<1>0. N \in Nat /\ DOMAIN l = 1..N /\ \A i \in 1..N : l[i] \in Nat \ {0}
  BY DiscountsAssumption, LenProperties DEF DiscountsInv
<1>1. Lines(N, l, 1..N) /\ Positive(N, l)
  BY <1>0 DEF DiscountsInv, Lines, Positive
<1>2. \A n \in 1..Len(offers) : offers[n] \in Offers
  BY DEF DiscountsInv
<1>3. \A p : EligibleTotal(p) = TotalOf(N, p, l)
  BY <1>0 DEF Among, Applied, EligibleTotal, TotalOf
<1>4. best \in Offers \cup {NoOffer} /\ \A n \in 1..Len(offers) : Outdone(best, offers[n], l)
  BY <1>1, BestIs DEF DiscountsInv
<1>5. Done => assessed.offer = best /\ assessed.discounts = d /\ assessed.totals = orderTotals(l, d)
  BY DEF DiscountsInv, Assessment, Done
<1> HIDE DEF N, l, best, d
<1>6. /\ Off(N, d, l) /\ AddUp(d) \in Nat /\ AddUp(l) \in Nat
      /\ AddUp(d) = Most(0, Least(IF best = NoOffer THEN 0 ELSE AddUp(discountsOf(best, l)), AddUp(l) - MINIMUM_PAYMENT))
      /\ AddUp(d) = IF best = NoOffer THEN 0 ELSE takenBy(best, l)
  <2>1. MINIMUM_PAYMENT \in Nat
    BY DiscountsAssumption
  <2>2. CASE best = NoOffer
    <3>1. d = [i \in 1..N |-> 0]
      BY <1>0, <2>2 DEF d, l, DiscountsBy
    <3>2. d \in [1..N -> Int] /\ \A i \in 1..N : d[i] = 0
      BY <3>1
    <3>3. AddUp(d) = N * 0
      BY <1>0, <3>2, SumOfSame
    <3>4. Off(N, d, l)
      BY <1>0, <3>1 DEF Off
    <3>5. withMinimumPayment(d, l) = withMinimumPayment(d, l) /\ AddUp(l) \in Nat
      BY <1>1, <3>4, LeastIsPaid
    <3>6. AddUp(d) = 0
      BY <1>0, <3>3
    <3>7. Most(0, Least(0, AddUp(l) - MINIMUM_PAYMENT)) = 0
      BY <2>1, <3>5 DEF Most, Least
    <3> QED
      BY <2>2, <3>4, <3>5, <3>6, <3>7
  <2>3. CASE best # NoOffer
    BY <1>4, <2>3, <1>1, SharesAre, LeastIsPaid DEF d, l, DiscountsBy, takenBy
  <2> QED
    BY <2>2, <2>3
<1>7. SharesAddUp
  <2> SUFFICES ASSUME NEW n \in 1..Len(offers)
               PROVE  LET p == offers[n]  shares == discountsOf(p, basket) IN
                      /\ p.type = "AMOUNT" => AddUp(shares) = Least(p.value, EligibleTotal(p))
                      /\ \A i \in DOMAIN basket :
                           /\ shares[i] \in 0..basket[i]
                           /\ IF ~appliesTo(p, i) THEN shares[i] = 0
                              ELSE IF p.type = "PERCENTAGE" THEN 2 * (100 * shares[i] - basket[i] * p.value) \in -100..100
                              ELSE (shares[i] - 1) * EligibleTotal(p) <= Least(p.value, EligibleTotal(p)) * basket[i]
    BY DEF SharesAddUp
  <2> DEFINE p == offers[n]
  <2>1. p \in Offers
    BY <1>2
  <2> HIDE DEF p
  <2>2. /\ Off(N, discountsOf(p, l), l)
        /\ p.type = "AMOUNT" => AddUp(discountsOf(p, l)) = Least(p.value, TotalOf(N, p, l))
        /\ \A i \in 1..N :
              IF ~appliesTo(p, i) THEN discountsOf(p, l)[i] = 0
              ELSE IF p.type = "PERCENTAGE" THEN 2 * (100 * discountsOf(p, l)[i] - l[i] * p.value) \in -100..100
              ELSE (discountsOf(p, l)[i] - 1) * TotalOf(N, p, l) <= Least(p.value, TotalOf(N, p, l)) * l[i]
    BY <1>1, <2>1, SharesAre
  <2>3. \A i \in 1..N : discountsOf(p, l)[i] \in 0..l[i]
    BY <2>2 DEF Off
  <2>4. DOMAIN basket = 1..N /\ EligibleTotal(p) = TotalOf(N, p, l)
    BY <1>0, <1>3 DEF l
  <2> QED
    BY <2>2, <2>3, <2>4 DEF p, l
<1>8. PaysTheLeast
  BY <1>6, <1>0, <1>5 DEF PaysTheLeast, Off, l
<1>9. BestOffer
  BY <1>4, <1>5, <1>6 DEF BestOffer, l, Outdone
<1>10. TotalsAgree
  <2> SUFFICES ASSUME Done
               PROVE  LET t == assessed.totals  products == t.subtotal - t.discountTotal IN
          /\ t.grandTotal = AddUp([i \in DOMAIN basket |-> basket[i] - assessed.discounts[i]]) + t.shippingCost
          /\ t.shippingCost = IF products >= FreeShippingThreshold THEN 0 ELSE FlatFee
          /\ LET error == 2 * ((10000 + TaxRate) * t.taxTotal - TaxRate * t.grandTotal)
                 bound == (Len(basket) + 1) * (10000 + TaxRate)
             IN -bound <= error /\ error <= bound
    BY DEF TotalsAgree
  <2>1. LET t == orderTotals(l, d)  products == t.subtotal - t.discountTotal IN
         /\ t.grandTotal = AddUp([i \in 1..N |-> l[i] - d[i]]) + t.shippingCost
         /\ t.shippingCost = IF products >= FreeShippingThreshold THEN 0 ELSE FlatFee
         /\ LET error == 2 * ((10000 + TaxRate) * t.taxTotal - TaxRate * t.grandTotal)
                bound == (N + 1) * (10000 + TaxRate)
            IN -bound <= error /\ error <= bound
    BY <1>1, <1>6, TotalsAre
  <2>2. assessed.totals = orderTotals(l, d) /\ assessed.discounts = d /\ DOMAIN basket = 1..N /\ Len(basket) = N
    BY <1>0, <1>5 DEF l, N
  <2> QED
    BY <2>1, <2>2 DEF l
<1> QED
  BY <1>7, <1>8, <1>9, <1>10 DEF CentsAddUp

\* The discounts of an order and its totals agree to the cent with what its lines cost: CentsAddUp
\* (promotion-discounts.ts, order.ts).
THEOREM CentsAlwaysAddUp == DiscountsSpec => []CentsAddUp
<1>1. DiscountsInit => DiscountsInv
  BY DiscountsStart
<1>2. DiscountsInv /\ [DiscountsNext]_discountVars => DiscountsInv'
  BY DiscountsStep
<1>3. DiscountsInv => CentsAddUp
  BY DiscountsImply
<1> QED
  BY <1>1, <1>2, <1>3, PTL DEF DiscountsSpec

-----------------------------------------------------------------------------
(* Pricing: the periods of a variant and what was asked for.              *)

\* The periods of a variant are one line of prices.
Timeline(L) ==
  /\ L \subseteq Period
  /\ \A p \in L : p.from < p.to /\ validCompareAt(p.price) /\ (p.to = Forever \/ \E q \in L : q.from = p.to)
  /\ \A p, q \in L : p # q => q.to <= p.from \/ q.from >= p.to

\* They follow what was asked for: each began with a wish, and each wish is in a period that it began, unless it is of an
\* instant gone by, when its price was in force already.
Follows(L, W, now) ==
  /\ \A p \in L : W[p.from] = p.price
  /\ \A t \in Starts : W[t] # NoPrice =>
       \E p \in L : p.from <= t /\ t < p.to /\ p.price = W[t] /\ (p.from = t \/ t <= now)
Sound(L, W, now) == Timeline(L) /\ Follows(L, W, now)

Wishes == [Starts -> Price \cup {NoPrice}]
PricingInv ==
  /\ periods \in [PricedVariants -> SUBSET Period] /\ wished \in [PricedVariants -> Wishes]
  /\ priceClock \in 0..MaxPriceTime /\ priceCalls \in 0..MaxPriceCalls /\ importRows \in Seq(PriceRows)
  /\ \A v \in PricedVariants : Sound(periods[v], wished[v], priceClock)

\* What the last wish not after an instant is.
LastWish(W, at) ==
  LET wishes == {t \in 0..at : W[t] # NoPrice} IN
  IF wishes = {} THEN {} ELSE {W[CHOOSE t \in wishes : \A u \in wishes : u <= t]}

\* Times of prices are numbers before the end of time.
LEMMA InstantsAre ==
  /\ MaxPriceTime \in Nat /\ Forever \in Nat /\ Forever = MaxPriceTime + 2 /\ NoPrice \notin Price
  /\ \A t : t \in Starts <=> t \in Nat /\ t < Forever
  /\ \A p \in Period : /\ p.price \in Price /\ p.from \in Starts /\ p.from \in Nat /\ p.to \in Nat /\ p.to <= Forever
                       /\ p.price # NoPrice
<1>1. MaxPriceTime \in Nat /\ Forever \in Nat /\ Forever = MaxPriceTime + 2
  BY PricingAssumption DEF Forever
<1>2. \A t : t \in Starts <=> t \in Nat /\ t < Forever
  BY <1>1 DEF Starts
<1>3. NoPrice \notin Price
  BY PricingAssumption DEF NoPrice, Price
<1>4. \A p \in Period : p.price \in Price /\ p.from \in Starts /\ p.to \in 0..Forever
  BY DEF Period
<1>5. \A t \in 0..Forever : t \in Nat /\ t <= Forever
  BY <1>1
<1> QED
  BY <1>1, <1>2, <1>3, <1>4, <1>5

\* A period is in force from its start until before its end.
LEMMA InForceIs ==
  ASSUME NEW L \in SUBSET Period, NEW at \in Nat
  PROVE  inForceAt(L, at) = {p \in L : p.from <= at /\ at < p.to}
<1>1. \A p \in L : p.from \in Nat /\ p.to \in Nat
  BY InstantsAre
<1>2. \A p \in L : periodState(p, at) = "CURRENT" <=> p.from <= at /\ at < p.to
  BY <1>1 DEF periodState
<1> QED
  BY <1>2 DEF inForceAt

\* The next period after an instant begins when this says.
LEMMA NextIs ==
  ASSUME NEW L \in SUBSET Period, NEW s \in Starts
  PROVE  /\ nextStart(L, s) \in Nat /\ s < nextStart(L, s) /\ nextStart(L, s) <= Forever
         /\ nextStart(L, s) = Forever \/ \E q \in L : q.from = nextStart(L, s)
         /\ \A q \in L : q.from > s => q.from >= nextStart(L, s)
<1> DEFINE later == {p.from : p \in {q \in L : q.from > s}}
<1>0. \A q \in L : q.from \in Nat /\ q.from < Forever
  BY InstantsAre
<1>s. s \in Nat /\ s < Forever /\ Forever \in Nat
  BY InstantsAre
<1>1. CASE later = {}
  <2>1. nextStart(L, s) = Forever
    BY <1>1 DEF nextStart
  <2>2. \A q \in L : ~(q.from > s)
    BY <1>1
  <2> QED
    BY <2>1, <2>2, <1>s
<1>2. CASE later # {}
  <2>1. later \subseteq Nat
    BY <1>0
  <2>2. PICK n \in later : \A u \in later : n <= u
    <3> HIDE DEF later
    <3> QED
      BY <1>2, <2>1, LeastNat
  <2>3. nextStart(L, s) = CHOOSE t \in later : \A u \in later : t <= u
    BY <1>2 DEF nextStart
  <2>4. nextStart(L, s) \in later /\ \A u \in later : nextStart(L, s) <= u
    <3> HIDE DEF later
    <3> QED
      BY <2>2, <2>3
  <2>5. PICK q \in L : q.from > s /\ q.from = nextStart(L, s)
    BY <2>4
  <2>6. \A x \in L : x.from > s => x.from \in later
    OBVIOUS
  <2> HIDE DEF later
  <2>7. \A x \in L : x.from > s => x.from >= nextStart(L, s)
    BY <2>4, <2>6, <1>0, <2>5
  <2> QED
    BY <1>0, <1>s, <2>5, <2>7
<1> QED
  BY <1>1, <1>2

-----------------------------------------------------------------------------
(* Setting a price. *)

Inserted(L, price, s) ==
  (L \ inForceAt(L, s)) \cup {[p EXCEPT !.to = s] : p \in inForceAt(L, s)}
     \cup {[price |-> price, from |-> s, to |-> nextStart(L, s)]}

\* A price starts now or later.
LEMMA StartIs ==
  ASSUME NEW from \in Starts, NEW now \in 0..MaxPriceTime
  PROVE  /\ startOf(from, now) \in Starts /\ startOf(from, now) \in Nat /\ now \in Nat /\ now \in Starts
         /\ startOf(from, now) >= now /\ (from <= now => startOf(from, now) = now)
<1>1. MaxPriceTime \in Nat /\ Starts = 0..(MaxPriceTime + 1)
  BY InstantsAre DEF Starts
<1> QED
  BY <1>1 DEF startOf

\* Setting a price is refused, changes nothing, or inserts a period.
LEMMA SetIs ==
  ASSUME NEW L \in SUBSET Period, NEW price \in Price, NEW from \in Starts, NEW now \in 0..MaxPriceTime
  PROVE  LET s == startOf(from, now)
             r == set(L, price, from, now)
         IN /\ r.change \in {"invalid", "unchanged", "overlap", "new"}
            /\ r.change = "new" => /\ validCompareAt(price) /\ r.list = Inserted(L, price, s)
                                   /\ \A p \in L : p.from # s
            /\ r.change # "new" => r.list = L
            /\ r.change = "unchanged" => \/ \E p \in L : p.from = s /\ p.price = price
                                         \/ s = now /\ \E p \in inForceAt(L, now) : p.price = price
<1> DEFINE s == startOf(from, now)
           same == {p \in L : p.from = s}
           asItIs == same \cup (IF from <= now THEN inForceAt(L, now) ELSE {})
           r == set(L, price, from, now)
           new == [price |-> price, from |-> s, to |-> nextStart(L, s)]
<1>1. CASE ~validCompareAt(price)
  <2>1. r = [list |-> L, change |-> "invalid"]
    BY <1>1 DEF set
  <2> HIDE DEF r
  <2>2. r.list = L /\ r.change = "invalid"
    BY <2>1
  <2> QED
    BY <2>2 DEF r
<1>2. CASE validCompareAt(price) /\ \E p \in asItIs : p.price = price
  <2>1. r = [list |-> L, change |-> "unchanged"]
    BY <1>2 DEF set
  <2>2. PICK p \in asItIs : p.price = price
    BY <1>2
  <2>3. p \in same \/ (from <= now /\ p \in inForceAt(L, now))
    OBVIOUS
  <2>4. from <= now => s = now
    BY StartIs
  <2> HIDE DEF r
  <2>5. r.list = L /\ r.change = "unchanged"
    BY <2>1
  <2> QED
    BY <2>2, <2>3, <2>4, <2>5 DEF r
<1>3. CASE validCompareAt(price) /\ ~(\E p \in asItIs : p.price = price) /\ same # {}
  <2>1. r = [list |-> L, change |-> "overlap"]
    BY <1>3 DEF set
  <2> HIDE DEF r
  <2>2. r.list = L /\ r.change = "overlap"
    BY <2>1
  <2> QED
    BY <2>2 DEF r
<1>4. CASE validCompareAt(price) /\ ~(\E p \in asItIs : p.price = price) /\ same = {}
  <2>1. r = [list |-> Inserted(L, price, s), change |-> "new"]
    BY <1>4 DEF set, Inserted
  <2>2. \A p \in L : p.from # s
    BY <1>4
  <2> HIDE DEF r
  <2>3. r.list = Inserted(L, price, s) /\ r.change = "new"
    BY <2>1
  <2> QED
    BY <1>4, <2>2, <2>3 DEF r
<1> QED
  BY <1>1, <1>2, <1>3, <1>4

\* The three kinds of period after setting one, without the records.
LEMMA InsertedIs ==
  ASSUME NEW L \in SUBSET Period, NEW price \in Price, NEW s \in Starts, NEW x \in Inserted(L, price, s)
  PROVE  /\ x \in Period
         /\ \/ x \in L /\ ~(x.from <= s /\ s < x.to)
            \/ \E c \in L : c.from <= s /\ s < c.to /\ x.from = c.from /\ x.to = s /\ x.price = c.price
            \/ x.from = s /\ x.to = nextStart(L, s) /\ x.price = price
<1>1. s \in Nat /\ s \in 0..Forever
  BY InstantsAre
<1>2. inForceAt(L, s) = {p \in L : p.from <= s /\ s < p.to}
  BY <1>1, InForceIs
<1>3. CASE x \in L \ inForceAt(L, s)
  BY <1>2, <1>3
<1>4. CASE x \in {[p EXCEPT !.to = s] : p \in inForceAt(L, s)}
  BY <1>4, <1>2, <1>1 DEF Period
<1>5. CASE x = [price |-> price, from |-> s, to |-> nextStart(L, s)]
  BY NextIs, InstantsAre, <1>5 DEF Period
<1> QED
  BY <1>3, <1>4, <1>5 DEF Inserted

\* And every one of them is there.
LEMMA InsertedHas ==
  ASSUME NEW L \in SUBSET Period, NEW price \in Price, NEW s \in Starts
  PROVE  /\ \A p \in L : ~(p.from <= s /\ s < p.to) => p \in Inserted(L, price, s)
         /\ \A c \in L : c.from <= s /\ s < c.to =>
              \E x \in Inserted(L, price, s) : x.from = c.from /\ x.to = s /\ x.price = c.price
         /\ \E x \in Inserted(L, price, s) : x.from = s /\ x.to = nextStart(L, s) /\ x.price = price
<1>1. s \in Nat
  BY InstantsAre
<1>2. inForceAt(L, s) = {p \in L : p.from <= s /\ s < p.to}
  BY <1>1, InForceIs
<1>3. \A p \in L : ~(p.from <= s /\ s < p.to) => p \in Inserted(L, price, s)
  BY <1>2 DEF Inserted
<1>4. ASSUME NEW c \in L, c.from <= s /\ s < c.to
      PROVE  \E x \in Inserted(L, price, s) : x.from = c.from /\ x.to = s /\ x.price = c.price
  <2>1. [c EXCEPT !.to = s] \in Inserted(L, price, s)
    BY <1>2, <1>4 DEF Inserted
  <2>2. c \in Period
    OBVIOUS
  <2>3. [c EXCEPT !.to = s].from = c.from /\ [c EXCEPT !.to = s].to = s /\ [c EXCEPT !.to = s].price = c.price
    BY <2>2 DEF Period
  <2> QED
    BY <2>1, <2>3
<1>5. \E x \in Inserted(L, price, s) : x.from = s /\ x.to = nextStart(L, s) /\ x.price = price
  <2> DEFINE new == [price |-> price, from |-> s, to |-> nextStart(L, s)]
  <2>1. new \in Inserted(L, price, s)
    BY DEF Inserted
  <2>2. new.from = s /\ new.to = nextStart(L, s) /\ new.price = price
    OBVIOUS
  <2> HIDE DEF new
  <2> QED
    BY <2>1, <2>2
<1> QED
  BY <1>3, <1>4, <1>5

\* An inserted period leaves periods that follow each other.
LEMMA InsertIsLine ==
  ASSUME NEW L, Timeline(L), NEW price \in Price, validCompareAt(price), NEW s \in Starts, \A p \in L : p.from # s
  PROVE  Timeline(Inserted(L, price, s))
<1> DEFINE I == Inserted(L, price, s)
           n == nextStart(L, s)
           Whole(x) == x \in L /\ ~(x.from <= s /\ s < x.to)
           Cut(x) == \E c \in L : c.from <= s /\ s < c.to /\ x.from = c.from /\ x.to = s /\ x.price = c.price
           Begun(x) == x.from = s /\ x.to = n /\ x.price = price
<1>1. L \in SUBSET Period /\ s \in Nat /\ s < Forever /\ Forever \in Nat
  BY InstantsAre DEF Timeline
<1>2. /\ n \in Nat /\ s < n /\ n <= Forever
      /\ n = Forever \/ \E q \in L : q.from = n
      /\ \A q \in L : q.from > s => q.from >= n
  BY <1>1, NextIs
<1>3. \A x \in I : x \in Period /\ (Whole(x) \/ Cut(x) \/ Begun(x))
  BY <1>1, InsertedIs
<1>4. /\ \A p \in L : Whole(p) => p \in I
      /\ \A c \in L : c.from <= s /\ s < c.to => \E x \in I : x.from = c.from /\ x.to = s /\ x.price = c.price
      /\ \E x \in I : Begun(x)
  BY <1>1, InsertedHas
<1>5. \A p \in L : /\ p.from < p.to /\ validCompareAt(p.price) /\ (p.to = Forever \/ \E q \in L : q.from = p.to)
                   /\ p.from \in Nat /\ p.to \in Nat /\ p.from # s /\ p.to <= Forever
  BY <1>1, InstantsAre DEF Timeline
<1>6. \A p, q \in L : p # q => q.to <= p.from \/ q.from >= p.to
  BY DEF Timeline
<1>7. \A q \in L : \E x \in I : x.from = q.from
  BY <1>4
<1> HIDE DEF I, n
<1>8. \A x \in I : Cut(x) => x.from < x.to /\ validCompareAt(x.price) /\ \E q \in I : q.from = x.to
  BY <1>5, <1>1, <1>4
<1>9. \A x \in I : Begun(x) => x.from < x.to /\ validCompareAt(x.price) /\ (x.to = Forever \/ \E q \in I : q.from = x.to)
  BY <1>2, <1>7
<1>10. \A x \in I : Whole(x) => x.from < x.to /\ validCompareAt(x.price) /\ (x.to = Forever \/ \E q \in I : q.from = x.to)
  BY <1>5, <1>7
<1>11. \A x \in I : x.from \in Nat /\ x.to \in Nat
  BY <1>3, InstantsAre
<1>12. \A p \in L : Whole(p) => p.to <= s \/ p.from >= n
  <2> TAKE p \in L
  <2> HAVE Whole(p)
  <2>1. p.from \in Nat /\ p.to \in Nat /\ p.from # s
    BY <1>5
  <2>2. CASE p.from > s
    BY <1>2, <2>2
  <2>3. CASE p.from < s
    BY <1>1, <2>1, <2>3
  <2> QED
    BY <1>1, <2>1, <2>2, <2>3
<1>13. ASSUME NEW x \in I, NEW y \in I, x # y
       PROVE  y.to <= x.from \/ y.from >= x.to
  <2>0. x.from \in Nat /\ x.to \in Nat /\ y.from \in Nat /\ y.to \in Nat
    BY <1>11
  <2>1. CASE Whole(x) /\ Whole(y)
    BY <1>6, <1>13, <2>1
  <2>2. CASE Whole(x) /\ Begun(y)
    BY <1>1, <1>2, <1>12, <2>0, <2>2
  <2>3. CASE Begun(x) /\ Whole(y)
    BY <1>1, <1>2, <1>12, <2>0, <2>3
  <2>4. CASE Begun(x) /\ Begun(y)
    BY <1>3, <2>4, <1>13 DEF Period
  <2>5. CASE Cut(x) /\ Begun(y)
    BY <1>1, <2>0, <2>5
  <2>6. CASE Begun(x) /\ Cut(y)
    BY <1>1, <2>0, <2>6
  <2>7. CASE Cut(x) /\ Whole(y)
    BY <2>7, <1>6, <1>5, <1>1, <2>0
  <2>8. CASE Whole(x) /\ Cut(y)
    BY <2>8, <1>6, <1>5, <1>1, <2>0
  <2>9. CASE Cut(x) /\ Cut(y)
    <3>1. PICK c \in L : c.from <= s /\ s < c.to /\ x.from = c.from /\ x.to = s /\ x.price = c.price
      BY <2>9
    <3>2. PICK d \in L : d.from <= s /\ s < d.to /\ y.from = d.from /\ y.to = s /\ y.price = d.price
      BY <2>9
    <3>3. c.from \in Nat /\ c.to \in Nat /\ d.from \in Nat /\ d.to \in Nat
      BY <1>5
    <3>4. c = d
      BY <1>1, <1>6, <3>1, <3>2, <3>3
    <3>5. x \in Period /\ y \in Period
      BY <1>3
    <3> QED
      BY <1>13, <3>1, <3>2, <3>4, <3>5 DEF Period
  <2> HIDE DEF Whole, Cut, Begun
  <2> QED
    BY <1>3, <2>1, <2>2, <2>3, <2>4, <2>5, <2>6, <2>7, <2>8, <2>9
<1>14. I \subseteq Period
  BY <1>3
<1>15. \A x \in I : x.from < x.to /\ validCompareAt(x.price) /\ (x.to = Forever \/ \E q \in I : q.from = x.to)
  <2> HIDE DEF Whole, Cut, Begun
  <2> QED
    BY <1>3, <1>8, <1>9, <1>10
<1> QED
  BY <1>13, <1>14, <1>15 DEF Timeline, I

\* And leaves them as they were asked for.
LEMMA InsertFollows ==
  ASSUME NEW L, NEW W \in Wishes, NEW now \in 0..MaxPriceTime, Sound(L, W, now),
         NEW price \in Price, NEW s \in Starts, s >= now, \A p \in L : p.from # s
  PROVE  Follows(Inserted(L, price, s), [W EXCEPT ![s] = price], now)
<1> DEFINE I == Inserted(L, price, s)
           V == [W EXCEPT ![s] = price]
<1>1. L \in SUBSET Period /\ s \in Nat /\ now \in Nat /\ \A t \in Starts : t \in Nat
  BY InstantsAre DEF Sound, Timeline
<1>2. /\ \A p \in L : W[p.from] = p.price /\ p.from \in Starts /\ p.from \in Nat /\ p.to \in Nat
      /\ \A t \in Starts : W[t] # NoPrice =>
           \E p \in L : p.from <= t /\ t < p.to /\ p.price = W[t] /\ (p.from = t \/ t <= now)
  BY <1>1, InstantsAre DEF Sound, Follows
<1>3. V[s] = price /\ \A t \in Starts : t # s => V[t] = W[t]
  BY DEF Wishes
<1>4. nextStart(L, s) \in Nat /\ s < nextStart(L, s)
  BY <1>1, NextIs
<1>5. ASSUME NEW x \in I
      PROVE  V[x.from] = x.price
  <2>1. \/ x \in L
        \/ \E c \in L : x.from = c.from /\ x.price = c.price
        \/ x.from = s /\ x.price = price
    BY <1>1, InsertedIs
  <2> HIDE DEF V, I
  <2> QED
    BY <1>2, <1>3, <2>1
<1>6. ASSUME NEW t \in Starts, V[t] # NoPrice
      PROVE  \E x \in I : x.from <= t /\ t < x.to /\ x.price = V[t] /\ (x.from = t \/ t <= now)
  <2>1. CASE t = s
    <3>1. PICK x \in I : x.from = s /\ x.to = nextStart(L, s) /\ x.price = price
      BY <1>1, InsertedHas
    <3> HIDE DEF V, I
    <3> QED
      BY <1>1, <1>3, <1>4, <2>1, <3>1
  <2>2. CASE t # s
    <3>1. V[t] = W[t]
      BY <1>3, <2>2
    <3>2. PICK p \in L : p.from <= t /\ t < p.to /\ p.price = W[t] /\ (p.from = t \/ t <= now)
      BY <1>2, <1>6, <3>1
    <3>3. p.from \in Nat /\ p.to \in Nat /\ t \in Nat
      BY <1>1, <1>2
    <3>4. CASE p.from <= s /\ s < p.to
      <4>1. PICK x \in I : x.from = p.from /\ x.to = s /\ x.price = p.price
        BY <1>1, <3>4, InsertedHas
      <4>2. t < s
        BY <1>1, <2>2, <3>3, <3>4, <3>2
      <4> HIDE DEF V, I
      <4> QED
        BY <3>1, <3>2, <4>1, <4>2
    <3>5. CASE ~(p.from <= s /\ s < p.to)
      <4>1. p \in I
        BY <1>1, <3>5, InsertedHas
      <4> HIDE DEF V, I
      <4> QED
        BY <3>1, <3>2, <4>1
    <3> QED
      BY <3>4, <3>5
  <2> QED
    BY <2>1, <2>2
<1> HIDE DEF V, I
<1>7. Follows(I, V, now)
  BY <1>5, <1>6 DEF Follows
<1> QED
  BY <1>7 DEF V, I

\* A price that is there already from that instant, or in force at it now.
LEMMA ThereFollows ==
  ASSUME NEW L, NEW W \in Wishes, NEW now \in 0..MaxPriceTime, Sound(L, W, now),
         NEW price \in Price, NEW s \in Starts, NEW p \in L, p.price = price, p.from <= s, s < p.to, p.from = s \/ s = now
  PROVE  Follows(L, [W EXCEPT ![s] = price], now)
<1> DEFINE V == [W EXCEPT ![s] = price]
<1>1. L \in SUBSET Period /\ s \in Nat /\ now \in Nat
  BY InstantsAre DEF Sound, Timeline
<1>2. /\ \A q \in L : W[q.from] = q.price /\ q.from \in Starts /\ q.from \in Nat /\ q.to \in Nat /\ q.from < q.to
      /\ \A t \in Starts : W[t] # NoPrice =>
           \E q \in L : q.from <= t /\ t < q.to /\ q.price = W[t] /\ (q.from = t \/ t <= now)
      /\ \A q \in L : q # p => q.to <= p.from \/ q.from >= p.to
  BY <1>1, InstantsAre DEF Sound, Follows, Timeline
<1>3. V[s] = price /\ \A t \in Starts : t # s => V[t] = W[t]
  BY DEF Wishes
<1> HIDE DEF V
<1>4. ASSUME NEW x \in L
      PROVE  V[x.from] = x.price
  BY <1>1, <1>2, <1>3
<1>5. ASSUME NEW t \in Starts, V[t] # NoPrice
      PROVE  \E x \in L : x.from <= t /\ t < x.to /\ x.price = V[t] /\ (x.from = t \/ t <= now)
  BY <1>1, <1>3, <1>2, <1>5
<1>6. Follows(L, V, now)
  BY <1>4, <1>5 DEF Follows
<1> QED
  BY <1>6 DEF V

\* Setting a price that is not refused keeps a variant as asked for.
LEMMA SetKeeps ==
  ASSUME NEW L, NEW W \in Wishes, NEW now \in 0..MaxPriceTime, Sound(L, W, now),
         NEW price \in Price, NEW from \in Starts, set(L, price, from, now).change \notin {"invalid", "overlap"}
  PROVE  Sound(set(L, price, from, now).list, [W EXCEPT ![startOf(from, now)] = price], now)
<1> DEFINE s == startOf(from, now)
           r == set(L, price, from, now)
<1>1. L \in SUBSET Period /\ Timeline(L)
  BY DEF Sound, Timeline
<1>2. s \in Starts /\ s \in Nat /\ s >= now /\ now \in Nat
  BY StartIs
<1>3. /\ r.change \in {"unchanged", "new"}
      /\ r.change = "new" => validCompareAt(price) /\ r.list = Inserted(L, price, s) /\ \A p \in L : p.from # s
      /\ r.change = "unchanged" => r.list = L /\ \/ \E p \in L : p.from = s /\ p.price = price
                                                 \/ s = now /\ \E p \in inForceAt(L, now) : p.price = price
  BY <1>1, SetIs
<1> HIDE DEF s, r
<1>4. CASE r.change = "new"
  BY <1>3, <1>4, <1>1, <1>2, InsertIsLine, InsertFollows DEF Sound, s, r
<1>5. CASE r.change = "unchanged"
  <2>1. PICK p \in L : p.price = price /\ (p.from = s \/ (s = now /\ p \in inForceAt(L, now)))
    BY <1>1, <1>2, <1>3, <1>5, InForceIs
  <2>2. p.from < p.to /\ p.from \in Nat /\ p.to \in Nat
    BY <1>1, InstantsAre DEF Timeline
  <2>3. p.from <= s /\ s < p.to
    BY <1>2, <2>2, <1>1, InForceIs, <2>1
  <2>4. Follows(L, [W EXCEPT ![s] = price], now)
    BY <1>2, <2>1, <2>3, ThereFollows
  <2> QED
    BY <1>1, <1>3, <1>5, <2>4 DEF Sound, s, r
<1> QED
  BY <1>3, <1>4, <1>5

\* Types: whatever a change makes of periods and wishes is some of them.
LEMMA SetTypes ==
  ASSUME NEW L \in SUBSET Period, NEW W \in Wishes, NEW price \in Price, NEW from \in Starts, NEW now \in 0..MaxPriceTime
  PROVE  /\ set(L, price, from, now).list \in SUBSET Period
         /\ set(L, price, from, now).change \in {"invalid", "unchanged", "overlap", "new"}
         /\ [W EXCEPT ![startOf(from, now)] = price] \in Wishes
<1>1. startOf(from, now) \in Starts
  BY StartIs
<1>2. Inserted(L, price, startOf(from, now)) \subseteq Period
  BY <1>1, InsertedIs
<1>3. [W EXCEPT ![startOf(from, now)] = price] \in Wishes
  BY <1>1 DEF Wishes
<1> QED
  BY <1>2, <1>3, SetIs

-----------------------------------------------------------------------------
(* Cancelling a price that has not begun. *)

\* What becomes of a period.
Longer(p, period) == IF p.to = period.from THEN [p EXCEPT !.to = period.to] ELSE p

\* A period made longer keeps its start and price.
LEMMA LongerIs ==
  ASSUME NEW p \in Period, NEW period \in Period
  PROVE  /\ Longer(p, period) \in Period /\ Longer(p, period).from = p.from /\ Longer(p, period).price = p.price
         /\ Longer(p, period).to = IF p.to = period.from THEN period.to ELSE p.to
  BY DEF Longer, Period

\* A cancelled period leaves the one before it in force, as asked.
LEMMA CancelKeeps ==
  ASSUME NEW L, NEW W \in Wishes, NEW now \in 0..MaxPriceTime, Sound(L, W, now), NEW period \in L, period.from > now
  PROVE  /\ Sound(cancelled(L, period), [W EXCEPT ![period.from] = NoPrice], now)
         /\ [W EXCEPT ![period.from] = NoPrice] \in Wishes
<1> DEFINE C == cancelled(L, period)
           V == [W EXCEPT ![period.from] = NoPrice]
           b == period.from
           e == period.to
<1>1. L \in SUBSET Period /\ now \in Nat /\ b \in Starts /\ b \in Nat /\ e \in Nat /\ b < e /\ e <= Forever /\ Forever \in Nat
      /\ b < Forever
  BY InstantsAre DEF Sound, Timeline
<1>2. /\ \A p \in L : /\ W[p.from] = p.price /\ p.from \in Starts /\ p.from \in Nat /\ p.to \in Nat /\ p.from < p.to
                      /\ validCompareAt(p.price) /\ (p.to = Forever \/ \E q \in L : q.from = p.to)
                      /\ p \in Period
      /\ \A p, q \in L : p # q => q.to <= p.from \/ q.from >= p.to
      /\ \A t \in Starts : W[t] # NoPrice =>
           \E q \in L : q.from <= t /\ t < q.to /\ q.price = W[t] /\ (q.from = t \/ t <= now)
  BY <1>1, InstantsAre DEF Sound, Follows, Timeline
<1>3. V[b] = NoPrice /\ V \in Wishes /\ \A t \in Starts : t # b => V[t] = W[t]
  BY <1>1 DEF Wishes
<1>4. C = {Longer(p, period) : p \in L \ {period}}
  BY DEF cancelled, Longer
<1>5. \A p \in L : /\ Longer(p, period) \in Period /\ Longer(p, period).from = p.from
                   /\ Longer(p, period).price = p.price
                   /\ Longer(p, period).to = IF p.to = b THEN e ELSE p.to
  BY <1>1, LongerIs
<1> HIDE DEF V
<1>6. \A x \in C : \E p \in L : /\ p # period /\ x = Longer(p, period) /\ x \in Period
                                /\ x.from = p.from /\ x.price = p.price /\ x.to = IF p.to = b THEN e ELSE p.to
  BY <1>4, <1>5
<1>7. \A p \in L : p # period => \E x \in C : /\ x.from = p.from /\ x.price = p.price /\ x.to = IF p.to = b THEN e ELSE p.to
  <2> TAKE p \in L
  <2> HAVE p # period
  <2>1. Longer(p, period) \in C
    BY <1>4
  <2> HIDE DEF C
  <2> QED
    BY <1>5, <2>1
<1> HIDE DEF C
<1>8. \A p \in L : p # period => p.from # b /\ (p.to <= b \/ p.from >= e)
  BY <1>1, <1>2
<1>9. ASSUME NEW x \in C
      PROVE  x.from < x.to /\ validCompareAt(x.price) /\ (x.to = Forever \/ \E q \in C : q.from = x.to)
  <2>1. PICK p \in L : p # period /\ x.from = p.from /\ x.price = p.price /\ x.to = IF p.to = b THEN e ELSE p.to
    BY <1>6
  <2>2. CASE p.to = b
    BY <2>1, <2>2, <1>1, <1>2, <1>7
  <2>3. CASE p.to # b
    BY <2>1, <2>3, <1>2, <1>7
  <2> QED
    BY <2>2, <2>3
<1>10. ASSUME NEW x \in C, NEW y \in C, x # y
       PROVE  y.to <= x.from \/ y.from >= x.to
  <2>1. PICK p \in L : p # period /\ x = Longer(p, period) /\ x.from = p.from /\ x.to = IF p.to = b THEN e ELSE p.to
    BY <1>6
  <2>2. PICK q \in L : q # period /\ y = Longer(q, period) /\ y.from = q.from /\ y.to = IF q.to = b THEN e ELSE q.to
    BY <1>6
  <2>3. p # q
    BY <1>10, <2>1, <2>2
  <2>4. /\ q.to <= p.from \/ q.from >= p.to
        /\ p.to <= b \/ p.from >= e
        /\ q.to <= b \/ q.from >= e
        /\ p.from \in Nat /\ p.to \in Nat /\ q.from \in Nat /\ q.to \in Nat /\ p.from < p.to /\ q.from < q.to
    BY <1>2, <1>8, <2>1, <2>2, <2>3
  <2>5. x.from = p.from /\ y.from = q.from /\ (p.to = b => x.to = e) /\ (p.to # b => x.to = p.to)
        /\ (q.to = b => y.to = e) /\ (q.to # b => y.to = q.to)
    BY <2>1, <2>2
  <2> QED
    BY <1>1, <2>4, <2>5
<1>11. Timeline(C)
  BY <1>6, <1>9, <1>10 DEF Timeline
<1>12. ASSUME NEW x \in C
       PROVE  V[x.from] = x.price
  BY <1>2, <1>3, <1>6, <1>8
<1>13. ASSUME NEW t \in Starts, V[t] # NoPrice
       PROVE  \E x \in C : x.from <= t /\ t < x.to /\ x.price = V[t] /\ (x.from = t \/ t <= now)
  <2>1. t # b /\ V[t] = W[t] /\ t \in Nat
    BY <1>3, <1>13, InstantsAre
  <2>2. PICK q \in L : q.from <= t /\ t < q.to /\ q.price = W[t] /\ (q.from = t \/ t <= now)
    BY <1>2, <1>13, <2>1
  <2>3. q # period
    BY <1>1, <2>1, <2>2
  <2>4. PICK x \in C : x.from = q.from /\ x.price = q.price /\ x.to = IF q.to = b THEN e ELSE q.to
    BY <1>7, <2>3
  <2>5. t < x.to
    BY <1>1, <1>2, <2>1, <2>2, <2>4
  <2> QED
    BY <2>1, <2>2, <2>4, <2>5
<1>14. Follows(C, V, now)
  BY <1>12, <1>13 DEF Follows
<1> QED
  BY <1>3, <1>11, <1>14 DEF Sound, C, V

\* Later, the wishes of the instants gone by are in force still.
LEMMA LaterSound ==
  ASSUME NEW L, NEW W, NEW now \in 0..MaxPriceTime, Sound(L, W, now)
  PROVE  Sound(L, W, now + 1)
<1>1. now \in Nat /\ \A t \in Starts : t \in Nat
  BY InstantsAre
<1>2. \A t \in Starts : t <= now => t <= now + 1
  BY <1>1
<1> QED
  BY <1>2 DEF Sound, Follows

-----------------------------------------------------------------------------
(* What is in force is what was asked for last. *)

\* Some numbers up to one of them have a greatest.
LEMMA GreatestUpTo ==
  ASSUME NEW n \in Nat, NEW T \in SUBSET (0..n), T # {}
  PROVE  \E x \in T : \A y \in T : y <= x
<1> DEFINE R == {n - x : x \in T}
<1>1. R \subseteq Nat /\ R # {}
  <2>1. \A x \in T : x \in Nat /\ n - x \in Nat
    OBVIOUS
  <2>2. PICK x \in T : TRUE
    OBVIOUS
  <2> QED
    BY <2>1, <2>2
<1>2. PICK t \in R : \A y \in R : t <= y
  <2> HIDE DEF R
  <2> QED
    BY <1>1, LeastNat
<1>3. PICK x \in T : t = n - x
  BY <1>2
<1>4. \A y \in T : n - y \in R /\ y \in Nat
  OBVIOUS
<1>5. \A y \in T : n - x <= n - y
  BY <1>2, <1>3, <1>4
<1> QED
  BY <1>3, <1>4, <1>5

\* The price in force is the one last asked for.
LEMMA SoundIsAsked ==
  ASSUME NEW L, NEW W \in Wishes, NEW now \in 0..MaxPriceTime, Sound(L, W, now), NEW at \in Starts
  PROVE  {p.price : p \in inForceAt(L, at)} = LastWish(W, at)
<1> DEFINE wishes == {t \in 0..at : W[t] # NoPrice}
<1>1. L \in SUBSET Period /\ at \in Nat /\ at < Forever /\ Forever \in Nat /\ \A t \in 0..at : t \in Starts /\ t \in Nat
  BY InstantsAre DEF Sound, Timeline
<1>2. /\ \A p \in L : /\ W[p.from] = p.price /\ p.price # NoPrice /\ p.from \in Starts /\ p.from \in Nat /\ p.to \in Nat
                      /\ p.from < p.to /\ (p.to = Forever \/ \E q \in L : q.from = p.to)
      /\ \A p, q \in L : p # q => q.to <= p.from \/ q.from >= p.to
      /\ \A t \in Starts : W[t] # NoPrice => \E q \in L : q.from <= t /\ t < q.to /\ q.price = W[t]
  BY <1>1, InstantsAre DEF Sound, Follows, Timeline
<1>3. inForceAt(L, at) = {p \in L : p.from <= at /\ at < p.to}
  BY <1>1, InForceIs
<1>4. \A p \in L : p.from <= at => p.from \in wishes
  BY <1>1, <1>2
<1>5. CASE wishes = {}
  BY <1>5, <1>3, <1>4 DEF LastWish
<1>6. CASE wishes # {}
  <2> DEFINE m == CHOOSE t \in wishes : \A u \in wishes : u <= t
  <2>1. \E t \in wishes : \A u \in wishes : u <= t
    <3>1. wishes \in SUBSET (0..at)
      OBVIOUS
    <3> HIDE DEF wishes
    <3> QED
      BY <1>1, <1>6, <3>1, GreatestUpTo
  <2>2. LastWish(W, at) = {W[m]}
    BY <1>6 DEF LastWish
  <2>3. m \in wishes /\ \A u \in wishes : u <= m
    <3> HIDE DEF wishes
    <3> QED
      BY <2>1
  <2>4. m \in Starts /\ m \in Nat /\ m <= at /\ W[m] # NoPrice
    <3>1. m \in 0..at /\ W[m] # NoPrice
      BY <2>3
    <3> HIDE DEF m
    <3> QED
      BY <1>1, <3>1
  <2> HIDE DEF m
  <2>5. PICK p \in L : p.from <= m /\ m < p.to /\ p.price = W[m]
    BY <1>2, <2>4
  <2>6. at < p.to
    <3>1. CASE p.to = Forever
      BY <1>1, <3>1
    <3>2. CASE \E q \in L : q.from = p.to
      BY <3>2, <1>2, <2>4, <2>5, <2>3, <1>4, <1>1
    <3> QED
      BY <1>2, <3>1, <3>2
  <2>7. p \in inForceAt(L, at)
    BY <1>1, <1>2, <1>3, <2>4, <2>5, <2>6
  <2>8. ASSUME NEW q \in inForceAt(L, at)
        PROVE  q = p
    BY <1>3, <2>7, <1>2, <1>1
  <2>9. inForceAt(L, at) = {p}
    BY <2>7, <2>8
  <2> QED
    BY <2>2, <2>5, <2>9
<1> QED
  BY <1>5, <1>6

\* It is about the instants up to then only.
LEMMA SameWish ==
  ASSUME NEW W, NEW V, NEW at \in Nat, \A t \in 0..at : W[t] = V[t]
  PROVE  LastWish(W, at) = LastWish(V, at)
<1> DEFINE w == {t \in 0..at : W[t] # NoPrice}
           u == {t \in 0..at : V[t] # NoPrice}
           m == CHOOSE t \in w : \A x \in w : x <= t
<1>1. w = u
  OBVIOUS
<1>2. CASE w = {}
  BY <1>1, <1>2 DEF LastWish
<1>3. CASE w # {}
  <2>1. LastWish(W, at) = {W[m]} /\ LastWish(V, at) = {V[m]}
    <3>1. LastWish(V, at) = {V[CHOOSE t \in u : \A x \in u : x <= t]}
      BY <1>1, <1>3 DEF LastWish
    <3>2. LastWish(W, at) = {W[m]}
      BY <1>3 DEF LastWish
    <3> HIDE DEF w, u
    <3> QED
      BY <1>1, <3>1, <3>2
  <2>2. \E t \in w : \A x \in w : x <= t
    <3>1. w \in SUBSET (0..at)
      OBVIOUS
    <3> HIDE DEF w
    <3> QED
      BY <1>3, <3>1, GreatestUpTo
  <2>3. m \in 0..at
    <3>1. m \in w
      <4> HIDE DEF w
      <4> QED
        BY <2>2
    <3>2. w \subseteq 0..at
      OBVIOUS
    <3> HIDE DEF m, w
    <3> QED
      BY <3>1, <3>2
  <2> HIDE DEF m
  <2> QED
    BY <2>1, <2>3
<1> QED
  BY <1>2, <1>3

-----------------------------------------------------------------------------
(* Importing a file of prices. *)

ImportStates == [periods : [PricedVariants -> SUBSET Period], failed : BOOLEAN, wished : [PricedVariants -> Wishes]]

\* What the rows so far left, when none failed: every variant as asked for, and the past as it was.
PastKept(V, W) == \A v \in PricedVariants, t \in Starts : t < priceClock => V[v][t] = W[v][t]
StillSound(state) ==
  ~state.failed => /\ \A v \in PricedVariants : Sound(state.periods[v], state.wished[v], priceClock)
                   /\ PastKept(state.wished, wished)

\* A row of an import keeps periods as asked, or fails.
LEMMA RowKeeps ==
  ASSUME priceClock \in 0..MaxPriceTime, NEW row \in PriceRows, NEW state \in ImportStates
  PROVE  /\ applyRow(state, row) \in ImportStates
         /\ StillSound(state) => StillSound(applyRow(state, row))
<1> DEFINE v == row.v
           r == set(state.periods[v], row.price, row.effectiveFrom, priceClock)
           s == startOf(row.effectiveFrom, priceClock)
           p == [state.periods EXCEPT ![v] = r.list]
           f == state.failed \/ r.change \in {"invalid", "overlap"}
           w == [state.wished EXCEPT ![v][s] = row.price]
           after == applyRow(state, row)
<1>1. v \in PricedVariants /\ row.price \in Price /\ row.effectiveFrom \in Starts
  BY DEF PriceRows
<1>2. /\ state.periods \in [PricedVariants -> SUBSET Period] /\ state.wished \in [PricedVariants -> Wishes]
      /\ state.failed \in BOOLEAN
  BY DEF ImportStates
<1>3. after = [periods |-> p, failed |-> f, wished |-> w]
  BY DEF applyRow
<1>4. s \in Starts /\ s \in Nat /\ s >= priceClock /\ priceClock \in Nat
  BY <1>1, StartIs
<1>5. r.list \in SUBSET Period /\ [state.wished[v] EXCEPT ![s] = row.price] \in Wishes
  BY <1>1, <1>2, SetTypes
<1>6. w = [state.wished EXCEPT ![v] = [state.wished[v] EXCEPT ![s] = row.price]]
  OBVIOUS
<1>7. p \in [PricedVariants -> SUBSET Period] /\ w \in [PricedVariants -> Wishes]
  <2> DEFINE x == [state.wished[v] EXCEPT ![s] = row.price]
  <2>1. w = [state.wished EXCEPT ![v] = x] /\ x \in Wishes
    BY <1>5, <1>6
  <2> HIDE DEF w, x, r, v
  <2> QED
    BY <1>1, <1>2, <1>5, <2>1
<1>8. f \in BOOLEAN
  OBVIOUS
<1>9. after.periods = p /\ after.failed = f /\ after.wished = w
  <2> HIDE DEF p, f, w, after
  <2> QED
    BY <1>3
<1>10. after \in ImportStates
  <2> HIDE DEF p, f, w, after
  <2> QED
    BY <1>3, <1>7, <1>8 DEF ImportStates
<1>11. ASSUME StillSound(state), ~f
       PROVE  (\A x \in PricedVariants : Sound(p[x], w[x], priceClock)) /\ PastKept(w, wished)
  <2>1. ~state.failed /\ r.change \notin {"invalid", "overlap"}
    BY <1>11
  <2>2. (\A x \in PricedVariants : Sound(state.periods[x], state.wished[x], priceClock)) /\ PastKept(state.wished, wished)
    BY <1>11, <2>1 DEF StillSound
  <2> DEFINE y == [state.wished[v] EXCEPT ![s] = row.price]
  <2>3. Sound(r.list, y, priceClock)
    BY <1>1, <1>2, <2>1, <2>2, SetKeeps
  <2>4. p[v] = r.list /\ w[v] = y /\ \A x \in PricedVariants : x # v => p[x] = state.periods[x] /\ w[x] = state.wished[x]
    <3>1. w = [state.wished EXCEPT ![v] = y]
      BY <1>6
    <3> HIDE DEF w, y, r, v
    <3> QED
      BY <1>1, <1>2, <3>1
  <2>5. \A t \in Starts : t < priceClock => y[t] = state.wished[v][t]
    <3>1. state.wished[v] \in Wishes /\ \A t \in Starts : t \in Nat
      BY <1>1, <1>2, InstantsAre
    <3> HIDE DEF s, r, v
    <3> QED
      BY <1>4, <3>1 DEF Wishes
  <2> HIDE DEF p, w, y, r, v, s
  <2>6. \A x \in PricedVariants : Sound(p[x], w[x], priceClock)
    BY <2>3, <2>4, <2>2
  <2>7. PastKept(w, wished)
    BY <2>2, <2>4, <2>5 DEF PastKept
  <2> QED
    BY <2>6, <2>7
<1> HIDE DEF p, f, w, after
<1>12. StillSound(state) => StillSound(after)
  BY <1>9, <1>11 DEF StillSound
<1> QED
  BY <1>10, <1>12 DEF after

\* So does a whole file.
LEMMA FileKeeps ==
  ASSUME PricingInv
  PROVE  LET after == FoldLeft(applyRow, [periods |-> periods, failed |-> FALSE, wished |-> wished], importRows)
         IN after \in ImportStates /\ StillSound(after)
<1> DEFINE M == Len(importRows)
           A == ImportStates
           base == [periods |-> periods, failed |-> FALSE, wished |-> wished]
           G == [q \in (1..M) \X A |-> applyRow(q[2], importRows[q[1]])]
           after == FoldLeft(applyRow, base, importRows)
<1>0. M \in Nat /\ DOMAIN importRows = 1..M /\ \A i \in 1..M : importRows[i] \in PriceRows
  BY LenProperties DEF PricingInv
<1>c. priceClock \in 0..MaxPriceTime
  BY DEF PricingInv
<1>b. base \in A /\ StillSound(base)
  <2>1. base.periods = periods /\ base.failed = FALSE /\ base.wished = wished
    OBVIOUS
  <2>2. base \in A
    BY DEF PricingInv, ImportStates
  <2> HIDE DEF base
  <2> QED
    BY <2>1, <2>2 DEF StillSound, PastKept, PricingInv
<1> HIDE DEF base
<1>2. G \in [(1..M) \X A -> A]
  <2>1. \A q \in (1..M) \X A : applyRow(q[2], importRows[q[1]]) \in A
    BY <1>0, <1>c, RowKeeps
  <2> HIDE DEF A
  <2> QED
    BY <2>1
<1>4. PICK f : Iterates(f, M, base, A, G)
  <2> HIDE DEF M, G, A
  <2> QED
    BY <1>0, <1>2, <1>b, FoldExists
<1>5. f = [x \in SUBSET (DOMAIN importRows) |-> IF x = {} THEN base ELSE applyRow(f[x \ {Max(x)}], importRows[Max(x)])]
  <2>1. f \in [SUBSET (1..M) -> A]
    BY <1>4 DEF Iterates
  <2>2. ASSUME NEW x \in SUBSET (1..M), x # {}
        PROVE  f[x] = applyRow(f[x \ {Max(x)}], importRows[Max(x)])
    <3>1. Max(x) \in 1..M /\ x \ {Max(x)} \in SUBSET (1..M)
      BY <1>0, <2>2, MaxIsOne
    <3>2. f[x] = G[<<Max(x), f[x \ {Max(x)}]>>]
      BY <1>4, <2>2 DEF Iterates
    <3>3. f[x \ {Max(x)}] \in A
      BY <2>1, <3>1
    <3> HIDE DEF A
    <3> QED
      BY <3>1, <3>2, <3>3
  <2>3. f[{}] = base
    BY <1>4 DEF Iterates
  <2> HIDE DEF G, A
  <2> QED
    BY <1>0, <2>1, <2>2, <2>3
<1> DEFINE iter == CHOOSE it : it = [x \in SUBSET (DOMAIN importRows) |-> IF x = {} THEN base ELSE applyRow(it[x \ {Max(x)}], importRows[Max(x)])]
<1>6. iter = [x \in SUBSET (DOMAIN importRows) |-> IF x = {} THEN base ELSE applyRow(iter[x \ {Max(x)}], importRows[Max(x)])]
  <2> HIDE DEF G
  <2> QED
    BY <1>5
<1>7. after = iter[1..M]
  BY <1>0 DEF FoldLeft, MapThenFoldSet
<1>8. iter[1..0] = base
  <2>1. 1..0 = {}
    OBVIOUS
  <2> HIDE DEF G, iter
  <2> QED
    BY <1>6, <2>1
<1>9. ASSUME NEW i \in 1..M
      PROVE  iter[1..i] = applyRow(iter[1..(i - 1)], importRows[i])
  <2>1. /\ 1..i \in SUBSET (1..M) /\ 1..i # {} /\ Max(1..i) = i
        /\ (1..i) \ {Max(1..i)} = 1..(i - 1)
    BY <1>0, FirstOnes
  <2> HIDE DEF G, iter
  <2> QED
    BY <1>0, <1>6, <2>1
<1> HIDE DEF iter, G, after
<1> DEFINE T == {i \in Nat : i <= M => iter[1..i] \in A /\ StillSound(iter[1..i])}
<1>10. 0 \in T
  BY <1>8, <1>b
<1>11. ASSUME NEW i \in Nat, i \in T
       PROVE  i + 1 \in T
  <2> SUFFICES ASSUME i + 1 <= M
               PROVE  iter[1..(i + 1)] \in A /\ StillSound(iter[1..(i + 1)])
    OBVIOUS
  <2>1. i + 1 \in 1..M /\ (i + 1) - 1 = i /\ importRows[i + 1] \in PriceRows
    BY <1>0
  <2>2. iter[1..i] \in A /\ StillSound(iter[1..i])
    BY <1>0, <1>11
  <2>3. iter[1..(i + 1)] = applyRow(iter[1..i], importRows[i + 1])
    BY <1>9, <2>1
  <2> HIDE DEF M
  <2> QED
    BY <1>c, <2>1, <2>2, <2>3, RowKeeps
<1>12. \A i \in Nat : i \in T
  <2> HIDE DEF T
  <2> QED
    BY <1>10, <1>11, NatSets
<1>13. after \in ImportStates /\ StillSound(after)
  BY <1>0, <1>7, <1>12
<1> QED
  BY <1>13 DEF after, base

-----------------------------------------------------------------------------
(* Every step. *)

\* A step keeps the invariant, and no wish of an instant gone by.
KeepsPrices == PricingInv' /\ \A v \in PricedVariants, t \in Starts : t < priceClock => wished'[v][t] = wished[v][t]

\* Setting a price keeps the invariant, and the past.
LEMMA SetPriceKeeps ==
  ASSUME PricingInv, NEW v \in PricedVariants, NEW price \in Price, NEW from \in Starts, SetPrice(v, price, from)
  PROVE  KeepsPrices
<1> DEFINE r == set(periods[v], price, from, priceClock)
           s == startOf(from, priceClock)
           y == [wished[v] EXCEPT ![s] = price]
<1>1. /\ periods \in [PricedVariants -> SUBSET Period] /\ wished \in [PricedVariants -> Wishes]
      /\ priceClock \in 0..MaxPriceTime /\ priceCalls \in 0..MaxPriceCalls /\ importRows \in Seq(PriceRows)
      /\ \A x \in PricedVariants : Sound(periods[x], wished[x], priceClock)
  BY DEF PricingInv
<1>2. priceClock' = priceClock /\ importRows' = importRows /\ priceCalls' \in 0..MaxPriceCalls
  BY <1>1, PricingAssumption DEF SetPrice, Called
<1>3. CASE r.change \in {"invalid", "overlap"}
  BY <1>3, <1>1, <1>2 DEF SetPrice, Refused, KeepsPrices, PricingInv
<1>4. CASE r.change \notin {"invalid", "overlap"}
  <2>1. periods' = [periods EXCEPT ![v] = r.list] /\ wished' = [wished EXCEPT ![v] = y]
    BY <1>4 DEF SetPrice
  <2>2. s \in Starts /\ s \in Nat /\ s >= priceClock /\ priceClock \in Nat
    BY <1>1, StartIs
  <2>3. r.list \in SUBSET Period /\ y \in Wishes
    BY <1>1, SetTypes
  <2>4. Sound(r.list, y, priceClock)
    BY <1>1, <1>4, SetKeeps
  <2>5. \A t \in Starts : t < priceClock => y[t] = wished[v][t]
    <3>1. wished[v] \in Wishes /\ \A t \in Starts : t \in Nat
      BY <1>1, InstantsAre
    <3> HIDE DEF s, r
    <3> QED
      BY <2>2, <3>1 DEF Wishes
  <2> HIDE DEF r, s, y
  <2>6. /\ periods'[v] = r.list /\ wished'[v] = y
        /\ \A x \in PricedVariants : x # v => periods'[x] = periods[x] /\ wished'[x] = wished[x]
        /\ periods' \in [PricedVariants -> SUBSET Period] /\ wished' \in [PricedVariants -> Wishes]
    BY <1>1, <2>1, <2>3
  <2>7. \A x \in PricedVariants : Sound(periods'[x], wished'[x], priceClock)
    BY <2>4, <2>6, <1>1
  <2>8. PricingInv'
    BY <1>2, <2>7, <1>1, <2>6 DEF PricingInv, Sound, Timeline, Follows
  <2>9. \A x \in PricedVariants, t \in Starts : t < priceClock => wished'[x][t] = wished[x][t]
    BY <2>5, <2>6
  <2> QED
    BY <2>8, <2>9 DEF KeepsPrices
<1> QED
  BY <1>3, <1>4

\* Cancelling a price does.
LEMMA CancelPriceKeeps ==
  ASSUME PricingInv, NEW v \in PricedVariants, NEW period \in periods[v], CancelPrice(v, period)
  PROVE  KeepsPrices
<1> DEFINE C == cancelled(periods[v], period)
           y == [wished[v] EXCEPT ![period.from] = NoPrice]
<1>1. /\ periods \in [PricedVariants -> SUBSET Period] /\ wished \in [PricedVariants -> Wishes]
      /\ priceClock \in 0..MaxPriceTime /\ priceCalls \in 0..MaxPriceCalls /\ importRows \in Seq(PriceRows)
      /\ \A x \in PricedVariants : Sound(periods[x], wished[x], priceClock)
  BY DEF PricingInv
<1>2. priceClock' = priceClock /\ importRows' = importRows /\ priceCalls' \in 0..MaxPriceCalls
  BY <1>1, PricingAssumption DEF CancelPrice, Called
<1>3. CASE ~CanCancel(period)
  BY <1>3, <1>1, <1>2 DEF CancelPrice, Refused, KeepsPrices, PricingInv
<1>4. CASE CanCancel(period)
  <2>1. periods' = [periods EXCEPT ![v] = C] /\ wished' = [wished EXCEPT ![v] = y]
    BY <1>4 DEF CancelPrice
  <2>2. period.from > priceClock /\ priceClock \in Nat /\ period.from \in Starts /\ period.from \in Nat
    BY <1>1, PricingAssumption, <1>4, InstantsAre DEF CanCancel
  <2>3. Sound(C, y, priceClock) /\ y \in Wishes
    BY <1>1, <2>2, CancelKeeps
  <2>4. C \in SUBSET Period
    BY <2>3 DEF Sound, Timeline
  <2>5. \A t \in Starts : t < priceClock => y[t] = wished[v][t]
    BY <1>1, InstantsAre, <2>2 DEF Wishes
  <2> HIDE DEF C, y
  <2>6. /\ periods'[v] = C /\ wished'[v] = y
        /\ \A x \in PricedVariants : x # v => periods'[x] = periods[x] /\ wished'[x] = wished[x]
        /\ periods' \in [PricedVariants -> SUBSET Period] /\ wished' \in [PricedVariants -> Wishes]
    BY <1>1, <2>1, <2>3, <2>4
  <2>7. \A x \in PricedVariants : Sound(periods'[x], wished'[x], priceClock)
    BY <2>3, <2>6, <1>1
  <2>8. PricingInv'
    BY <1>2, <2>7, <1>1, <2>6 DEF PricingInv, Sound, Timeline, Follows
  <2>9. \A x \in PricedVariants, t \in Starts : t < priceClock => wished'[x][t] = wished[x][t]
    BY <2>5, <2>6
  <2> QED
    BY <2>8, <2>9 DEF KeepsPrices
<1> QED
  BY <1>3, <1>4

\* Importing a file does, all of it or nothing.
LEMMA ImportKeeps ==
  ASSUME PricingInv, NEW dryRun, applyImport(dryRun)
  PROVE  KeepsPrices
<1> DEFINE after == FoldLeft(applyRow, [periods |-> periods, failed |-> FALSE, wished |-> wished], importRows)
<1>1. /\ periods \in [PricedVariants -> SUBSET Period] /\ wished \in [PricedVariants -> Wishes]
      /\ priceClock \in 0..MaxPriceTime /\ priceCalls \in 0..MaxPriceCalls
      /\ \A x \in PricedVariants : Sound(periods[x], wished[x], priceClock)
  BY DEF PricingInv
<1>2. after \in ImportStates /\ StillSound(after)
  BY FileKeeps
<1>3. /\ priceClock' = priceClock /\ priceCalls' = priceCalls /\ importRows' = <<>>
      /\ \/ ~after.failed /\ periods' = after.periods /\ wished' = after.wished
         \/ periods' = periods /\ wished' = wished
  BY DEF applyImport, pricesAfter, Refused
<1> HIDE DEF after
<1>4. importRows' \in Seq(PriceRows)
  BY <1>3
<1>5. CASE periods' = periods /\ wished' = wished
  BY <1>1, <1>3, <1>4, <1>5 DEF KeepsPrices, PricingInv
<1>6. CASE ~after.failed /\ periods' = after.periods /\ wished' = after.wished
  <2>1. /\ \A v \in PricedVariants : Sound(after.periods[v], after.wished[v], priceClock)
        /\ PastKept(after.wished, wished)
    BY <1>2, <1>6 DEF StillSound
  <2>2. after.periods \in [PricedVariants -> SUBSET Period] /\ after.wished \in [PricedVariants -> Wishes]
    BY <1>2 DEF ImportStates
  <2>3. \A v \in PricedVariants : Sound(periods'[v], wished'[v], priceClock')
    BY <1>3, <1>6, <2>1
  <2>4. PricingInv'
    BY <1>1, <1>3, <1>4, <1>6, <2>2, <2>3 DEF PricingInv, Sound, Timeline, Follows
  <2> QED
    BY <1>6, <2>1, <2>4 DEF KeepsPrices, PastKept
<1> QED
  BY <1>3, <1>5, <1>6

\* Each step on prices does.
LEMMA PricingStep ==
  ASSUME PricingInv, [PricingNext]_pricingVars
  PROVE  KeepsPrices
<1>1. /\ periods \in [PricedVariants -> SUBSET Period] /\ wished \in [PricedVariants -> Wishes]
      /\ priceClock \in 0..MaxPriceTime /\ priceCalls \in 0..MaxPriceCalls /\ importRows \in Seq(PriceRows)
      /\ \A x \in PricedVariants : Sound(periods[x], wished[x], priceClock)
  BY DEF PricingInv
<1>2. CASE UNCHANGED pricingVars
  BY <1>2, <1>1 DEF pricingVars, KeepsPrices, PricingInv
<1>3. ASSUME NEW file \in PriceFiles, checkImport(file)
      PROVE  KeepsPrices
  <2>1. periods' = periods /\ wished' = wished /\ priceClock' = priceClock /\ priceCalls' \in 0..MaxPriceCalls
    BY <1>1, <1>3, PricingAssumption DEF checkImport, Called
  <2>2. importRows' = <<>> \/ importRows' = file
    BY <1>3 DEF checkImport
  <2>3. importRows' \in Seq(PriceRows)
    <3>1. PriceFiles \subseteq Seq(PriceRows) /\ <<>> \in Seq(PriceRows)
      BY PricingAssumption
    <3> QED
      BY <2>2, <3>1
  <2> QED
    BY <1>1, <2>1, <2>3 DEF KeepsPrices, PricingInv
<1>4. CASE PriceTick
  <2>1. /\ periods' = periods /\ wished' = wished /\ priceClock' = priceClock + 1 /\ priceClock < MaxPriceTime
        /\ priceCalls' = priceCalls /\ importRows' = importRows
    BY <1>4 DEF PriceTick
  <2>2. priceClock' \in 0..MaxPriceTime
    BY <1>1, <2>1, PricingAssumption
  <2>3. \A x \in PricedVariants : Sound(periods'[x], wished'[x], priceClock')
    BY <1>1, <2>1, LaterSound
  <2>4. PricingInv'
    BY <1>1, <2>1, <2>2, <2>3 DEF PricingInv, Sound, Timeline, Follows
  <2> QED
    BY <2>1, <2>4 DEF KeepsPrices
<1> QED
  BY <1>2, <1>3, <1>4, SetPriceKeeps, CancelPriceKeeps, ImportKeeps DEF PricingNext

\* Nothing is priced at first.
LEMMA PricingInitInv == PricingInit => PricingInv
<1> SUFFICES ASSUME PricingInit
             PROVE  PricingInv
  OBVIOUS
<1>1. /\ periods = [v \in PricedVariants |-> {}] /\ priceClock = 0 /\ importRows = <<>> /\ priceCalls = 0
      /\ wished = [v \in PricedVariants |-> [t \in Starts |-> NoPrice]]
  BY DEF PricingInit
<1>2. [t \in Starts |-> NoPrice] \in Wishes
  BY DEF Wishes
<1>3. Sound({}, [t \in Starts |-> NoPrice], 0)
  BY DEF Sound, Timeline, Follows
<1> QED
  BY <1>1, <1>2, <1>3, PricingAssumption DEF PricingInv

\* The invariant has that prices are as asked for.
LEMMA PricesFollow ==
  ASSUME PricingInv
  PROVE  PricingTypeOK /\ PricesAsAsked
<1>1. PricingTypeOK
  BY DEF PricingInv, PricingTypeOK, Sound, Timeline
<1>2. ASSUME NEW v \in PricedVariants, NEW at \in Starts
      PROVE  {p.price : p \in inForceAt(periods[v], at)} = Expected(v, at)
  <2>1. wished[v] \in Wishes /\ Sound(periods[v], wished[v], priceClock) /\ priceClock \in 0..MaxPriceTime
    BY DEF PricingInv
  <2>2. {p.price : p \in inForceAt(periods[v], at)} = LastWish(wished[v], at)
    BY <2>1, SoundIsAsked
  <2> QED
    BY <2>2 DEF LastWish, Expected
<1> QED
  BY <1>1, <1>2 DEF PricesAsAsked

\* A step leaves every price of the past.
LEMMA PastStays ==
  ASSUME PricingInv, KeepsPrices
  PROVE  \A v \in PricedVariants : \A at \in 0..(priceClock - 1) :
           {p.price : p \in inForceAt(periods'[v], at)} = {p.price : p \in inForceAt(periods[v], at)}
<1> TAKE v \in PricedVariants
<1> TAKE at \in 0..(priceClock - 1)
<1>1. priceClock \in 0..MaxPriceTime /\ wished[v] \in Wishes /\ Sound(periods[v], wished[v], priceClock)
  BY DEF PricingInv
<1>2. priceClock' \in 0..MaxPriceTime /\ wished'[v] \in Wishes /\ Sound(periods'[v], wished'[v], priceClock')
  BY DEF KeepsPrices, PricingInv, Sound, Timeline, Follows
<1>3. at \in Starts /\ at \in Nat /\ \A t \in 0..at : t \in Starts /\ t < priceClock
  BY <1>1, PricingAssumption DEF Starts
<1>4. {p.price : p \in inForceAt(periods[v], at)} = LastWish(wished[v], at)
  BY <1>1, <1>3, SoundIsAsked
<1>5. {p.price : p \in inForceAt(periods'[v], at)} = LastWish(wished'[v], at)
  BY <1>2, <1>3, SoundIsAsked
<1>6. LastWish(wished'[v], at) = LastWish(wished[v], at)
  BY <1>3, SameWish DEF KeepsPrices
<1> QED
  BY <1>4, <1>5, <1>6

\* A variant has at each instant the price last asked for from an instant not after it and not cancelled, whatever was
\* set, scheduled, cancelled and imported in whatever order, and no change reaches an instant gone by.
THEOREM PricesAlwaysHold == PricingSpec => PricesHold
<1>1. PricingInit => PricingInv
  BY PricingInitInv
<1>2. PricingInv /\ [PricingNext]_pricingVars => PricingInv'
  BY PricingStep DEF KeepsPrices
<1>3. PricingInv => PricingTypeOK /\ PricesAsAsked
  BY PricesFollow
<1>4. PricingInv /\ [PricingNext]_pricingVars =>
        [\A v \in PricedVariants : \A at \in 0..(priceClock - 1) :
           {p.price : p \in inForceAt(periods'[v], at)} = {p.price : p \in inForceAt(periods[v], at)}]_pricingVars
  BY PricingStep, PastStays
<1> QED
  BY <1>1, <1>2, <1>3, <1>4, PTL DEF PricingSpec, PricesHold, PastPricesStay

=============================================================================
