--------------------------- MODULE ReservationLife ---------------------------
(***************************************************************************)
(* The life of the reservation of an order as the two sides of it see it:  *)
(* the inventory, which keeps it, and the order, which asks for it.  The   *)
(* stock of an order leaves the warehouse at most once and only sold stock *)
(* comes back.  Inventory and OrderLifecycle both implement it, so what    *)
(* each assumes of the other is what the other does.                       *)
(***************************************************************************)
CONSTANT Reservers

VARIABLES
  life,      \* of each order: the state of its last reservation
  returned   \* the orders of which some stock came back

lifeVars == <<life, returned>>

LifeInit == life = [o \in Reservers |-> "NONE"] /\ returned = {}

become(o, from, to) ==
  /\ life[o] \in from
  /\ life' = [life EXCEPT ![o] = to]
  /\ UNCHANGED returned

Unheld == {"NONE", "RELEASED", "EXPIRED"}
Reserve(o) == become(o, Unheld, "ACTIVE")
Commit(o) == become(o, {"ACTIVE"}, "COMMITTED")
Release(o) == become(o, {"ACTIVE"}, "RELEASED")
Expire(o) == become(o, {"ACTIVE"}, "EXPIRED")
\* Reserve and commit in one transaction, for a payment that found no reservation.
Take(o) == become(o, Unheld, "COMMITTED")

Return(o) ==
  /\ life[o] = "COMMITTED"
  /\ returned' = returned \cup {o}
  /\ UNCHANGED life

LifeNext == \E o \in Reservers : Reserve(o) \/ Commit(o) \/ Release(o) \/ Expire(o) \/ Take(o) \/ Return(o)

LifeSpec == LifeInit /\ [][LifeNext]_lifeVars

=============================================================================
