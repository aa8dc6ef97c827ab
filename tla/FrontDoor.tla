----------------------------- MODULE FrontDoor -----------------------------
(***************************************************************************)
(* How a request reaches its handler: the access token, the rate limits,   *)
(* the authorization of the route, the guard of the purchases, the scope   *)
(* of its idempotency key and the filter that answers what was refused     *)
(* (src/platform/auth, src/platform/http, the controllers of the modules). *)
(*                                                                         *)
(* The last section is the limiter of failed attempts of                   *)
(* src/platform/http/rate-limiting.                                        *)
(*                                                                         *)
(* The account behind the token is read on every request, in three         *)
(* statements: its user and its session at once, then its roles.  Other    *)
(* requests change the account meanwhile.  What they change later is of no *)
(* consequence to this request, so they stop once the roles were read.     *)
(***************************************************************************)
EXTENDS Integers, Sequences, SequencesExt, TLC

CONSTANTS
  RoleSets,             \* the sets of roles an account of the staff may have
  RoleGrants,           \* the permissions the role that is not the superadmin's may have
  SuperadminRole,
  Anyone,               \* nobody is signed in
  MaxAccountChanges     \* bound: changes of the account while the request is authenticated

VARIABLES
  account,     \* the user, whether its session is active, and what its ordinary role grants
  visit,       \* the request: its token, what was read of the account, its route and its answer
  since,       \* what was true of the account at some time since the request came, and what all the time
  denials      \* accesses denied, as the audit has them

frontDoorVars == <<account, visit, since, denials>>

-----------------------------------------------------------------------------
(* The routes, as the decorators of their controllers declare them.        *)

open ==
  [path |-> "public", permissions |-> {}, account |-> "none", noStaff |-> FALSE, limits |-> {}, scope |-> "none",
   noStore |-> FALSE, personal |-> FALSE, buys |-> FALSE]

\* RequirePermissions of an administrative route.
needs(code) == [open EXCEPT !.path = "admin", !.permissions = {code}, !.personal = TRUE]

\* RequireAccount: of anyone, of a customer only, or even with a password still to change.
signedIn(account_) == [open EXCEPT !.path = "me", !.account = account_, !.personal = TRUE]

\* What a handler does: it buys for whoever asks, or it answers what belongs to somebody.
purchase(route) == [route EXCEPT !.buys = TRUE, !.personal = TRUE]
private(route) == [route EXCEPT !.personal = TRUE]

\* The other decorators: NoStaffPurchases, NoStore, RateLimit and Idempotent.
noStaff(route) == [route EXCEPT !.noStaff = TRUE]
unstored(route) == [route EXCEPT !.noStore = TRUE]
limited(names, route) == [route EXCEPT !.limits = names]
idempotent(scope, route) == [route EXCEPT !.scope = scope]

CatalogController == {open}
AdminBrandsController == {needs("catalog.read"), needs("catalog.write")}
AdminCategoriesController == {needs("catalog.read"), needs("catalog.write")}
AdminProductsController ==
  {needs("catalog.read"), needs("catalog.write"), limited({"ai-description-draft"}, needs("catalog.write"))}
AdminProductVariants == {needs("catalog.write")}
AdminProductImagesController == {needs("catalog.write")}
AdminProductImportsController == {needs("catalog.write")}
AdminVariantsController == {needs("catalog.read")}
AdminPricingController == {needs("pricing.read"), needs("pricing.write")}
AdminStockController == {needs("inventory.read"), needs("inventory.write")}
AdminWarehousesController == {needs("inventory.read"), needs("inventory.write")}
AdminReceiptImportsController == {needs("inventory.write")}

CartsController == {unstored(private(open)), unstored(noStaff(purchase(open)))}
MeCartController == {noStaff(purchase(signedIn("any")))}
CheckoutController == {unstored(noStaff(purchase(open)))}
MeCheckoutController == {noStaff(purchase(signedIn("any")))}

OrdersController ==
  {unstored(route) : route \in
     {idempotent("CART", limited({"place-order", "place-order-email"}, noStaff(purchase(open)))),
      idempotent("CART", noStaff(purchase(open))),
      limited({"guest-order"}, private(open)),
      limited({"order-access-email", "order-access-ip"}, open),
      limited({"guest-order"}, noStaff(purchase(open)))}}
MeOrdersController ==
  {noStaff(purchase(signedIn("any"))),
   idempotent("USER", limited({"place-order"}, noStaff(purchase(signedIn("any"))))),
   idempotent("USER", noStaff(purchase(signedIn("any")))),
   signedIn("customer")}
AdminOrdersController ==
  {needs("orders.place"), idempotent("USER", limited({"admin-place-order"}, needs("orders.place"))),
   needs("orders.manage"), needs("orders.read")}
AdminOrderChanges ==
  {needs("orders.read-blocked"), needs("orders.manage"), needs("orders.place"),
   idempotent("USER", needs("inventory.write")), needs("payments.manage")}
AdminStoreProfileController == {needs("orders.read")}
AdminPaymentsController == {needs("orders.read"), needs("payments.manage")}
AdminPaymentSettingsController == {needs("orders.read"), needs("payments.configure")}
AdminShippingMethodController == {needs("shipping.manage"), needs("shipping.configure")}
AdminShipmentsController == {needs("shipping.manage")}
AdminShipmentChanges == {needs("shipping.manage")}
AdminPromotionsController == {needs("promotions.read"), needs("promotions.manage")}
AdminWorkOrdersController ==
  {idempotent("USER", needs("work-orders.manage")), needs("work-orders.read"), needs("work-orders.manage")}
AdminWorkOrderChanges ==
  {needs("work-orders.manage"), needs("work-orders.read"), needs("work-orders.read-blocked"), needs("customers.manage")}

AuthController ==
  {unstored(limited({"register"}, private(open))), open, limited({"email-verification"}, open), unstored(private(open)),
   signedIn("pending"), limited({"password-reset-email", "password-reset-ip"}, open)}
MeController ==
  {signedIn("pending"), signedIn("customer"), limited({"email-verification"}, signedIn("customer"))}
MeAddressesController == {signedIn("customer")}
AdminCustomersController == {needs("customers.read"), needs("customers.manage")}
AnonymizationsController == {needs("customers.manage")}
AdminStaffController == {needs("staff.manage")}
AdminRolesController == {needs("staff.manage")}
AdminAuditController == {needs("audit.read")}
EventDeliveriesController == {needs("events.manage")}
RetentionPolicyController == {open}
GeoCatalogController == {open}

Routes ==
  CatalogController \cup AdminBrandsController \cup AdminCategoriesController \cup AdminProductsController
    \cup AdminProductVariants \cup AdminProductImagesController \cup AdminProductImportsController
    \cup AdminVariantsController \cup AdminPricingController \cup AdminStockController
    \cup AdminWarehousesController \cup AdminReceiptImportsController
    \cup CartsController \cup MeCartController \cup CheckoutController \cup MeCheckoutController
    \cup OrdersController \cup MeOrdersController \cup AdminOrdersController \cup AdminOrderChanges
    \cup AdminStoreProfileController \cup AdminPaymentsController \cup AdminPaymentSettingsController
    \cup AdminShippingMethodController \cup AdminShipmentsController \cup AdminShipmentChanges
    \cup AdminPromotionsController \cup AdminWorkOrdersController \cup AdminWorkOrderChanges
    \cup AuthController \cup MeController \cup MeAddressesController \cup AdminCustomersController
    \cup AnonymizationsController \cup AdminStaffController \cup AdminRolesController
    \cup AdminAuditController \cup EventDeliveriesController \cup RetentionPolicyController \cup GeoCatalogController

PERMISSION_CODES == UNION {route.permissions : route \in Routes}
SUPERADMIN_ONLY_PERMISSIONS == {"payments.configure"}

\* What each limit counts by: the fields of the request, in the order they are tried.
RATE_LIMITS ==
  [n \in {"register", "password-reset-ip", "guest-order", "order-access-ip", "password-reset-email", "order-access-email",
          "place-order-email", "email-verification", "place-order", "admin-place-order", "ai-description-draft"} |->
     CASE n \in {"register", "password-reset-ip", "guest-order", "order-access-ip"} -> <<>>
       [] n = "password-reset-email" -> <<"email">>
       [] n \in {"order-access-email", "place-order-email"} -> <<"contactEmail">>
       [] n = "email-verification" -> <<"user", "email">>
       [] n \in {"place-order", "admin-place-order", "ai-description-draft"} -> <<"user", "cartId">>]

-----------------------------------------------------------------------------
(* The account, as the requests of others change it.                       *)

AccountRows ==
  [type : {"STAFF"}, roles : RoleSets, grants : RoleGrants, canSignIn : BOOLEAN, mustChange : BOOLEAN, session : BOOLEAN]
    \cup [type : {"CUSTOMER"}, roles : {{}}, grants : {{}}, canSignIn : BOOLEAN, mustChange : {FALSE}, session : BOOLEAN]

\* What the properties ask of an account: what it could do, and what its roles gave it.
standing(row_) == {fact \in {"canSignIn", "session", "mustChange"} : row_[fact]}
powers(row_) ==
  (IF SuperadminRole \in row_.roles THEN {SuperadminRole} ELSE {}) \cup (IF row_.roles # {} THEN {"any role"} ELSE {})
    \cup row_.grants

NoVisit ==
  [at |-> "none", token |-> FALSE, changes |-> 0, user |-> Anyone, session |-> "unread",
   route |-> open, body |-> FALSE, keys |-> {}, scope |-> "none", noStore |-> FALSE, answer |-> "none"]

FrontDoorInit ==
  /\ account \in AccountRows
  /\ visit = NoVisit
  /\ since = [once |-> standing(account) \cup powers(account), always |-> standing(account)]
  /\ denials = 0

changeAccount(new) ==
  /\ visit.at = "authenticating" /\ visit.changes < MaxAccountChanges
  /\ new # account
  /\ account' = new
  /\ since' = [once |-> since.once \cup standing(new) \cup powers(new), always |-> since.always \cap standing(new)]
  /\ visit' = [visit EXCEPT !.changes = @ + 1]
  /\ UNCHANGED denials

\* A suspension ends every session.
suspendAccount == changeAccount([account EXCEPT !.canSignIn = FALSE, !.session = FALSE])
reactivateAccount == changeAccount([account EXCEPT !.canSignIn = TRUE])
endSession == changeAccount([account EXCEPT !.session = FALSE])
replaceRolesOf == account.type = "STAFF" /\ \E roles \in RoleSets : changeAccount([account EXCEPT !.roles = roles])
replacePermissions ==
  account.type = "STAFF" /\ \E grants \in RoleGrants : changeAccount([account EXCEPT !.grants = grants])
changePasswordOf == changeAccount([account EXCEPT !.mustChange = FALSE])

\* An account as the request knows it from then on.
SignedIn == [type : {"STAFF", "CUSTOMER"}, mustChange : BOOLEAN, permissions : SUBSET PERMISSION_CODES]

\* A role of the store's making is refused a permission that is the superadmin's only.
ASSUME FrontDoorAssumption ==
  RoleGrants \subseteq SUBSET (PERMISSION_CODES \ SUPERADMIN_ONLY_PERMISSIONS) /\ Anyone \notin SignedIn

-----------------------------------------------------------------------------
(* The guards, in the order their modules are imported.                    *)

\* Without a token nobody is signed in, and neither is anybody with one that expired.
arrive(token) ==
  /\ visit = NoVisit
  /\ visit' = [visit EXCEPT !.at = IF token THEN "authenticating" ELSE "limiting", !.token = token]
  /\ UNCHANGED <<account, since, denials>>

\* ResolveSignedInAccount asks for the user and for the session at once ...
findUser ==
  /\ visit.at = "authenticating" /\ visit.user = Anyone
  /\ visit' = [visit EXCEPT !.user = account]
  /\ UNCHANGED <<account, since, denials>>

isActive ==
  /\ visit.at = "authenticating" /\ visit.session = "unread"
  /\ visit' = [visit EXCEPT !.session = IF account.session THEN "active" ELSE "ended"]
  /\ UNCHANGED <<account, since, denials>>

\* The superadmin has every permission, and a customer none.
effectivePermissions(user) ==
  IF user.type # "STAFF" \/ user.roles = {} THEN {}
  ELSE IF SuperadminRole \in user.roles THEN PERMISSION_CODES
  ELSE account.grants


\* ... and then, if both allow it, for the permissions the roles of the user have by now.
signedInAs(user, session) ==
  IF ~user.canSignIn \/ session # "active" THEN Anyone
  ELSE [type |-> user.type, mustChange |-> user.mustChange, permissions |-> effectivePermissions(user)]

resolve ==
  /\ visit.at = "authenticating" /\ visit.user # Anyone /\ visit.session # "unread"
  /\ visit' = [visit EXCEPT !.at = "limiting", !.changes = 0, !.session = "unread",
                              !.user = signedInAs(visit.user, visit.session)]
  /\ UNCHANGED <<account, since, denials>>

\* A limit counts by the first field it names that the request has, or by its address.
rateLimitKey(name, user, body) ==
  LET has(field) == IF field = "user" THEN user # Anyone ELSE body
      fields == RATE_LIMITS[name]
      first == {i \in DOMAIN fields : has(fields[i]) /\ \A j \in 1..(i - 1) : ~has(fields[j])}
  IN IF first = {} THEN "ip" ELSE fields[CHOOSE i \in first : TRUE]

\* Whether the body is valid makes a difference where a limit or a key depends on it.
BodiesOf(route) == IF route.limits = {} /\ route.scope = "none" THEN {TRUE} ELSE BOOLEAN

answerWith(problem) == [visit EXCEPT !.at = "answered", !.answer = problem]

\* Every request is counted, with the limits of its route, and may be one too many.
rateLimit(route, body) ==
  /\ visit.at = "limiting"
  /\ LET keys == {<<name, rateLimitKey(name, visit.user, body)>> : name \in route.limits} IN
       \/ visit' = [visit EXCEPT !.at = "authorizing", !.route = route, !.body = body, !.keys = keys]
       \/ visit' = [answerWith("rate-limit-exceeded") EXCEPT !.route = route, !.body = body, !.keys = keys]
  /\ UNCHANGED <<account, since, denials>>

\* AuthorizationGuard: the problem it answers with.
authorization(route, user) ==
  IF route.permissions = {} /\ (route.path = "admin" \/ (route.path = "me" /\ route.account = "none")) THEN "undeclared"
  ELSE IF route.permissions = {} /\ route.account = "none" THEN "none"
  ELSE IF user = Anyone THEN "unauthenticated"
  ELSE IF user.mustChange /\ route.account # "pending" THEN "password-change-required"
  ELSE IF route.permissions # {} /\ ~(user.type = "STAFF" /\ route.permissions \subseteq user.permissions) THEN "forbidden"
  ELSE IF route.account = "customer" /\ user.type # "CUSTOMER" THEN "forbidden"
  ELSE "none"

\* ProblemDetailsFilter: an administrative access that is denied goes to the audit, unless the audit fails.
auditDeniedAccess(route, problem) ==
  denials' \in {denials, denials + IF route.path = "admin" /\ problem \in {"forbidden", "password-change-required"} THEN 1 ELSE 0}

authorize ==
  /\ visit.at = "authorizing"
  /\ LET problem == authorization(visit.route, visit.user)
         checked == problem # "undeclared" /\ (visit.route.permissions # {} \/ visit.route.account # "none")
         next == IF problem = "none" THEN [visit EXCEPT !.at = "handling"] ELSE answerWith(problem)
     IN /\ visit' = [next EXCEPT !.noStore = checked]
        /\ auditDeniedAccess(visit.route, problem)
  /\ UNCHANGED <<account, since>>

\* The key of an idempotent request belongs to its account or to its cart.
scopeOf(route, user, body) ==
  CASE route.scope = "USER" /\ user # Anyone -> "USER"
    [] route.scope = "CART" /\ body -> "CART"
    [] OTHER -> "none"


\* NoStaffPurchases.
isStaffPurchase(route, user) == route.noStaff /\ user # Anyone /\ user.type = "STAFF"

\* The guard of the route, its interceptors, the validation of its body and the handler.
runHandler ==
  /\ visit.at = "handling"
  /\ visit' = IF isStaffPurchase(visit.route, visit.user) THEN answerWith("staff-cannot-purchase")
              ELSE [answerWith(IF visit.body THEN "handled" ELSE "validation-error") EXCEPT
                      !.noStore = @ \/ visit.route.noStore, !.scope = scopeOf(visit.route, visit.user, visit.body)]
  /\ UNCHANGED <<account, since, denials>>

-----------------------------------------------------------------------------
FrontDoorNext ==
  \/ \E token \in BOOLEAN : arrive(token)
  \/ findUser \/ isActive \/ resolve
  \/ \E route \in Routes : \E body \in BodiesOf(route) : rateLimit(route, body)
  \/ authorize \/ runHandler
  \/ suspendAccount \/ reactivateAccount \/ endSession \/ replaceRolesOf \/ replacePermissions \/ changePasswordOf

FrontDoorSpec == FrontDoorInit /\ [][FrontDoorNext]_frontDoorVars

-----------------------------------------------------------------------------
(* Properties.                                                             *)

IsHandled == visit.answer = "handled"

\* Whoever reaches a handler had what it takes since the request came, even if the account changed while it was
\* read: an administrative route, an account that could sign in, a session, and a role of theirs that granted the
\* permission; a permission of the superadmin only, that role.  A suspension, a sign-out or a role taken away
\* before the request is never overlooked.
AuthorityIsFresh ==
  IsHandled =>
    /\ visit.route.path # "public" => visit.token /\ {"canSignIn", "session"} \subseteq since.once
    /\ \A code \in visit.route.permissions :
         /\ account.type = "STAFF"
         /\ \/ SuperadminRole \in since.once
            \/ code \notin SUPERADMIN_ONLY_PERMISSIONS /\ {"any role", code} \subseteq since.once

\* Signed in all along, a member of the staff never buys, nor does a customer reach the back office, nor does
\* anyone who must change the password do anything else that needs an account.
WhoMayDoWhat ==
  IsHandled /\ visit.token /\ {"canSignIn", "session"} \subseteq since.always =>
    /\ account.type = "STAFF" => ~visit.route.buys /\ visit.route.account # "customer"
    /\ account.type = "CUSTOMER" => visit.route.path # "admin"
    /\ "mustChange" \in since.always /\ visit.route.path # "public" => visit.route.account = "pending"

\* No route is one its guard gives up on: what an administrative or an account route needs is always declared.
EveryRouteIsDeclared == visit.answer # "undeclared"

\* What belongs to somebody is answered so that nothing on the way stores it; an idempotent handler runs under the key
\* of whoever asked; and a limit by account counts the account, never the cart or the address, of whoever is signed in.
AnswersAreTheirs ==
  /\ IsHandled /\ visit.route.personal => visit.noStore
  /\ IsHandled /\ visit.route.scope # "none" => visit.scope = visit.route.scope
  /\ visit.user # Anyone /\ visit.at \in {"authorizing", "handling", "answered"} =>
       \A name \in visit.route.limits : "user" \in Range(RATE_LIMITS[name]) => <<name, "user">> \in visit.keys

\* An access goes to the audit only if it was denied, and once.
DenialsAreReal ==
  denials <= IF visit.answer \in {"forbidden", "password-change-required"} /\ visit.route.path = "admin" THEN 1 ELSE 0

\* A request reaches the handlers its account may use, and no other.
RequestsAreAdmitted ==
  AuthorityIsFresh /\ WhoMayDoWhat /\ EveryRouteIsDeclared /\ AnswersAreTheirs /\ DenialsAreReal
-----------------------------------------------------------------------------
(* The limit of failed attempts of FailedAttemptLimiter (sign-ins, changes *)
(* of password, coupons).  A request is let in or refused when it arrives  *)
(* and its failure is recorded when it ends, so the requests of one moment *)
(* may together fail more than the limit.                                  *)

CONSTANTS
  AttemptKeys,
  FailureLimit,      \* the limit
  AttemptWindow,    \* windowMs, in ticks of the clock
  TicksPerSecond,
  MaxAtOnce,        \* bound: requests in progress of a key
  MaxAttemptTime    \* bound: the clock

ASSUME AttemptAssumption ==
  FailureLimit \in Nat \ {0} /\ AttemptWindow \in Nat /\ TicksPerSecond \in Nat \ {0} /\ MaxAttemptTime \in Nat

VARIABLES
  attemptClock,
  attemptFailures,      \* of each key: the times of its failures
  letIn,    \* of each key: requests let in that have not ended
  everFailed,    \* of each key: the times of all its failures, as long as they count
  promised       \* of each key: when the last refusal said it would be let in again

attemptVars == <<attemptClock, attemptFailures, letIn, everFailed, promised>>

NoPromise == MaxAttemptTime + 1000

AttemptInit ==
  /\ attemptClock = 0
  /\ attemptFailures = [k \in AttemptKeys |-> <<>>] /\ everFailed = attemptFailures
  /\ letIn = [k \in AttemptKeys |-> 0]
  /\ promised = [k \in AttemptKeys |-> NoPromise]

\* The failures of which the window is not over at some time.
recentAt(times, now) == FoldLeft(LAMBDA kept, at : IF at + AttemptWindow > now THEN Append(kept, at) ELSE kept, <<>>, times)
recentOf(times) == recentAt(times, attemptClock)
\* recentFailures forgets a key whose failures are all old.
recentFailures(k) == recentOf(attemptFailures[k])
forgetOld(k, kept) == attemptFailures' = [attemptFailures EXCEPT ![k] = IF recentFailures(k) = <<>> THEN <<>> ELSE kept]

ceilSeconds(ticks) == (ticks + TicksPerSecond - 1) \div TicksPerSecond
\* Mutant: the oldest recent failure, and not the one that leaves room when it expires.
retryAfterOldest(recent) ==
  LET left == ceilSeconds(Head(recent) + AttemptWindow - attemptClock)
  IN IF left < 1 THEN 1 ELSE left
\* Retry-After, in seconds: when the failures that are too many have expired.
retryAfter(recent) ==
  LET left == ceilSeconds(recent[Len(recent) - FailureLimit + 1] + AttemptWindow - attemptClock)
  IN IF left < 1 THEN 1 ELSE left

assertAllowed(k) ==
  /\ letIn[k] < MaxAtOnce
  /\ forgetOld(k, attemptFailures[k])
  /\ IF Len(recentFailures(k)) < FailureLimit
     THEN letIn' = [letIn EXCEPT ![k] = @ + 1] /\ UNCHANGED promised
     ELSE /\ promised' = [promised EXCEPT ![k] = attemptClock + TicksPerSecond * retryAfter(recentFailures(k))]
          /\ UNCHANGED letIn
  /\ UNCHANGED <<attemptClock, everFailed>>

\* sweep, when there are too many keys: it forgets the keys whose failures are all old.
sweep(k) == IF recentFailures(k) = <<>> THEN <<>> ELSE attemptFailures[k]

\* recordFailure; a new failure may delay what a refusal promised.
recordFailure(k) ==
  /\ letIn[k] > 0 /\ letIn' = [letIn EXCEPT ![k] = @ - 1]
  /\ \E full \in BOOLEAN :
       attemptFailures' = [u \in AttemptKeys |-> IF u = k THEN recentFailures(k) \o <<attemptClock>>
                                          ELSE IF full THEN sweep(u) ELSE attemptFailures[u]]
  /\ everFailed' = [everFailed EXCEPT ![k] = Append(recentOf(@), attemptClock)]
  /\ promised' = [promised EXCEPT ![k] = NoPromise]
  /\ UNCHANGED attemptClock

succeed(k) ==
  /\ letIn[k] > 0 /\ letIn' = [letIn EXCEPT ![k] = @ - 1]
  /\ UNCHANGED <<attemptClock, attemptFailures, everFailed, promised>>

passTime ==
  /\ attemptClock < MaxAttemptTime /\ attemptClock' = attemptClock + 1
  /\ UNCHANGED <<attemptFailures, letIn, everFailed, promised>>

AttemptNext == passTime \/ \E k \in AttemptKeys : assertAllowed(k) \/ recordFailure(k) \/ succeed(k)

AttemptSpec == AttemptInit /\ [][AttemptNext]_attemptVars

-----------------------------------------------------------------------------
(* Properties of the limiter. *)

\* Who waits the Retry-After of a refusal, without failing meanwhile, is let in, also when requests of the same moment
\* failed more times than the limit.
RetryAfterIsEnough == \A k \in AttemptKeys : attemptClock >= promised[k] => Len(recentFailures(k)) < FailureLimit

\* A failure counts until its window is over, however often the limiter forgets old keys.
FailuresCount == \A k \in AttemptKeys : recentFailures(k) = recentOf(everFailed[k])

\* The limiter refuses as long as it says and no failure escapes it (assertAllowed, recordFailure, sweep).
LimitIsExact == RetryAfterIsEnough /\ FailuresCount
=============================================================================
