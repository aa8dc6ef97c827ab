------------------------------ MODULE MCPeople ------------------------------
(* The people of the shop and what it keeps of them: a customer whose      *)
(* requests run two at a time, in scenarios that put together the use      *)
(* cases that touch the same rows; two members of the staff who manage     *)
(* each other and one role; repairs and purchases of a customer who is     *)
(* anonymized; the access links of guests; what follows a sale: the        *)
(* payment of an order, its shipment and the shipping method; and the      *)
(* listings they are read from.  They share no rows here, so a behavior is *)
(* about one of them.                                                      *)
EXTENDS Accounts, StaffRoles, Privacy, Shipments, Listings, TLC

VARIABLE about   \* the component a behavior is about

SessionOps == {"signIn", "refresh", "reuse", "signOut"}
Everyday == {
  SessionOps \cup {"changePassword", "suspend", "reactivate"},
  {"signIn", "refresh", "reuse", "requestReset", "resetPassword"},
  {"signIn", "refresh", "reuse", "expire", "cleanUp"},
  {"changeEmail", "confirmEmail", "requestReset", "resetPassword"},
  {"changeEmail", "confirmEmail", "rectify", "suspend", "reactivate"},
  {"changeEmail", "confirmEmail", "expire", "cleanUp"},
  {"signIn", "refresh", "anonymize", "requestReset", "addAddress"},
  {"requestReset", "resetPassword", "expire", "cleanUp"},
  {"signIn", "refresh", "anonymize", "expire"},
  {"signIn", "anonymize", "resendVerification", "confirmEmail", "rectify", "suspend", "addAddress"}}

SeededRoles == [r \in Roles |-> Permissions \ SuperadminOnly]
Symmetric == Permutations(Requests) \cup Permutations(Emails) \cup Permutations(Staff)

\* One status between the first and the last stands for the three of the code.
ShortRepair == <<"RECEIVED", "IN_REPAIR", "DELIVERED">>

\* Where the behavior is not about a component, one of its initial states is enough.
PeopleInit ==
  /\ about \in {"customers", "staff", "privacy", "links", "shipments", "methods", "payments", "listings"}
  /\ AccountsInit /\ (about = "customers" \/ offered = CHOOSE scenario \in Scenarios : TRUE)
  /\ StaffInit /\ PrivacyInit /\ GuestAccessInit /\ PaymentRowsInit
  /\ ListingsInit
  /\ about = "listings" \/ /\ Listed = {} /\ walk.listing = "orders" /\ walk.filter = <<"all">> /\ walk.direction = "asc"
                           /\ walk.pageSize = CHOOSE size \in PageSizes : TRUE
  /\ ShipmentsInit /\ (about = "methods" \/ method = CHOOSE row \in MethodRow(1) : validSettings(row))

\* The other components stand still.
Others ==
  /\ about # "customers" => UNCHANGED accountsVars
  /\ about # "staff" => UNCHANGED staffVars
  /\ about # "privacy" => UNCHANGED privacyVars
  /\ about # "links" => UNCHANGED guestVars
  /\ about # "shipments" => UNCHANGED parcelVars
  /\ about # "methods" => UNCHANGED shippingMethodVars
  /\ about # "payments" => UNCHANGED paymentRowsVars
  /\ about # "listings" => UNCHANGED listingsVars
  /\ UNCHANGED about

PeopleNext ==
  \/ about = "customers" /\ AccountsNext /\ Others
  \/ about = "staff" /\ StaffNext /\ Others
  \/ about = "privacy" /\ PrivacyNext /\ Others
  \/ about = "links" /\ GuestAccessNext /\ Others
  \/ about = "shipments" /\ ParcelNext /\ Others
  \/ about = "methods" /\ MethodNext /\ Others
  \/ about = "payments" /\ PaymentRowsNext /\ Others
  \/ about = "listings" /\ ListingsNext /\ Others

peopleVars ==
  <<accountsVars, staffVars, privacyVars, guestVars, shipmentVars, paymentRowsVars, listingsVars, about>>

PeopleSpec == PeopleInit /\ [][PeopleNext]_peopleVars

=============================================================================
