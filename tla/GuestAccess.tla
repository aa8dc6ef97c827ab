---------------------------- MODULE GuestAccess ----------------------------
(***************************************************************************)
(* A guest sees their orders with a link sent to the email of the orders   *)
(* (src/modules/ordering/application/order-access-links.ts), until the     *)
(* orders with that email are anonymized, by request or by the retention   *)
(* job.  Issuing a link and deleting the links of an email are two steps   *)
(* each, what they read and their commit, under a lock of the email.       *)
(***************************************************************************)
CONSTANTS
  GuestOrders,  \* orders of a guest, all with the same email
  AccessLinks,  \* links to the orders of that email
  Free, Anonymizer  \* who may hold its lock, besides a link being issued

ASSUME GuestAccessAssumption == Free # Anonymizer /\ Free \notin AccessLinks /\ Anonymizer \notin AccessLinks

VARIABLES
  guestOrders,
  links,
  issuing,      \* requests for a link in progress, by the link, with those it invalidates
  guestErasure, \* the orders being anonymized
  emailLock     \* lockEmail: who holds the email

guestVars == <<guestOrders, links, issuing, guestErasure, emailLock>>

NoGuestOrder == [status |-> "NONE", personal |-> FALSE]
NotIssuing == [busy |-> FALSE, invalidates |-> {}]

GuestAccessInit ==
  /\ guestOrders = [o \in GuestOrders |-> NoGuestOrder] /\ links = [l \in AccessLinks |-> "NONE"]
  /\ issuing = [l \in AccessLinks |-> NotIssuing] /\ guestErasure = {} /\ emailLock = Free

WithEmail == {o \in GuestOrders : guestOrders[o].personal}
Pending == {l \in AccessLinks : links[l] = "PENDING"}

buyAsGuest(o) ==
  /\ guestOrders[o] = NoGuestOrder
  /\ guestOrders' = [guestOrders EXCEPT ![o].status = "OPEN", ![o].personal = TRUE]
  /\ UNCHANGED <<links, issuing, guestErasure, emailLock>>

concludeGuestOrder(o) ==
  /\ guestOrders[o].status = "OPEN" /\ guestOrders' = [guestOrders EXCEPT ![o].status = "CONCLUDED"]
  /\ UNCHANGED <<links, issuing, guestErasure, emailLock>>

lockEmail(who) == emailLock = Free /\ emailLock' = who

\* issue: under the lock of the email, with orders to see, the links before it stop being good.
startIssue(l) ==
  /\ links[l] = "NONE" /\ issuing[l] = NotIssuing /\ WithEmail # {} /\ lockEmail(l)
  /\ issuing' = [issuing EXCEPT ![l] = [busy |-> TRUE, invalidates |-> Pending]]
  /\ UNCHANGED <<guestOrders, links, guestErasure>>

endIssue(l) ==
  /\ issuing[l].busy /\ issuing' = [issuing EXCEPT ![l] = NotIssuing] /\ emailLock' = Free
  /\ links' = [k \in AccessLinks |->
       IF k = l THEN "PENDING" ELSE IF k \in issuing[l].invalidates THEN "INVALIDATED" ELSE links[k]]
  /\ UNCHANGED <<guestOrders, guestErasure>>

\* With the row of the link, that another may be invalidating or deleting.
redeem(l) ==
  /\ links[l] = "PENDING" /\ emailLock # Anonymizer /\ \A k \in AccessLinks : l \notin issuing[k].invalidates
  /\ links' = [links EXCEPT ![l] = "USED"]
  /\ UNCHANGED <<guestOrders, issuing, guestErasure, emailLock>>

\* AccessTokenCleanup.
deleteSpent ==
  /\ \E l \in AccessLinks : links[l] \in {"USED", "INVALIDATED"}
  /\ links' = [l \in AccessLinks |-> IF links[l] \in {"USED", "INVALIDATED"} THEN "DELETED" ELSE links[l]]
  /\ UNCHANGED <<guestOrders, issuing, guestErasure, emailLock>>

\* Every order of the email, or for the retention one of them; all concluded.
eraseGuestOrders(found) ==
  /\ guestErasure = {} /\ found # {} /\ \A o \in found : guestOrders[o].status = "CONCLUDED"
  /\ guestErasure' = found /\ UNCHANGED <<guestOrders, links, issuing, emailLock>>

\* The links of the email go, and none is issued before the commit.
deleteLinksOf == guestErasure # {} /\ lockEmail(Anonymizer) /\ UNCHANGED <<guestOrders, links, issuing, guestErasure>>

commitGuestErasure ==
  /\ emailLock = Anonymizer /\ emailLock' = Free /\ guestErasure' = {}
  /\ guestOrders' = [o \in GuestOrders |-> IF o \in guestErasure THEN [guestOrders[o] EXCEPT !.personal = FALSE] ELSE guestOrders[o]]
  /\ links' = [l \in AccessLinks |-> IF links[l] = "NONE" THEN "NONE" ELSE "DELETED"]
  /\ UNCHANGED <<issuing>>

-----------------------------------------------------------------------------
GuestAccessNext ==
  \/ \E o \in GuestOrders : buyAsGuest(o) \/ concludeGuestOrder(o) \/ eraseGuestOrders({o} \cap WithEmail)
  \/ eraseGuestOrders(WithEmail) \/ deleteLinksOf \/ commitGuestErasure \/ deleteSpent
  \/ \E l \in AccessLinks : startIssue(l) \/ endIssue(l) \/ redeem(l)

GuestAccessSpec == GuestAccessInit /\ [][GuestAccessNext]_guestVars

-----------------------------------------------------------------------------
(* Properties. *)

\* Only the last link to a guest's orders is good, whoever asked for one at the same time.
OneAccessLink == \A k, l \in Pending : k = l

\* When no order has the email of the guest any more, no link has it either, not even one that was being issued.
NoLinkOfNobody == WithEmail = {} => \A l \in AccessLinks : links[l] \in {"NONE", "DELETED"}

\* There is one good link to the orders of a guest, and none when they are nobody's (issue, deleteOf).
LinksFollowGuests == OneAccessLink /\ NoLinkOfNobody
=============================================================================
