------------------------------ MODULE Problems ------------------------------
(* The errors a handler throws and their answers: the category of a domain  *)
(* error decides its status, the catalog of problem types that of every     *)
(* other one.  With an Idempotency-Key some errors are kept, and the request *)
(* sent again is answered with them.                                        *)
EXTENDS Integers, Sequences, FiniteSets

CONSTANT MaxAnswers   \* bound: how often the request is sent

ASSUME ProblemsAssumption == MaxAnswers \in Nat

VARIABLES
  keptProblem,   \* the code kept with the key, "none" while there is none
  problems       \* history: what was thrown at each request, and what its client got

problemVars == <<keptProblem, problems>>

---------------------------------------------------------------------------
(* The catalog.                                                             *)

BadRequests == {"validation-error", "password-policy-violation", "invalid-or-expired-token", "idempotency-key-missing"}
Unauthenticated == {"unauthenticated", "invalid-credentials", "invalid-refresh-token", "invalid-webhook-signature"}
Refusals == {"forbidden", "email-not-verified", "staff-cannot-purchase", "password-change-required", "manual-payments-disabled"}
Conflicts ==
  {"version-conflict", "total-mismatch", "insufficient-stock", "variant-not-sellable", "invalid-state-transition",
   "duplicate-value", "resource-in-use", "price-period-conflict", "idempotency-request-in-progress", "cart-not-active",
   "cart-line-limit-reached", "image-limit-reached", "address-limit-reached", "last-superadmin", "restock-not-allowed",
   "active-orders-exist", "field-locked", "empty-cart", "source-cart-unavailable", "sale-not-linkable", "coupon-not-applicable"}
OtherProblems ==
  {"not-found", "payload-too-large", "unsupported-media-type", "idempotency-key-mismatch", "rate-limit-exceeded", "internal-error",
   "ai-unavailable"}
PROBLEM_TYPES ==
  [code \in BadRequests \cup Unauthenticated \cup Refusals \cup Conflicts \cup OtherProblems |->
     CASE code \in BadRequests -> 400
       [] code \in Unauthenticated -> 401
       [] code \in Refusals -> 403
       [] code = "not-found" -> 404
       [] code \in Conflicts -> 409
       [] code = "payload-too-large" -> 413
       [] code = "unsupported-media-type" -> 415
       [] code = "idempotency-key-mismatch" -> 422
       [] code = "rate-limit-exceeded" -> 429
       [] code = "internal-error" -> 500
       [] code = "ai-unavailable" -> 503]
isProblemCode(code) == code \in DOMAIN PROBLEM_TYPES

CATEGORY_STATUS ==
  [invalid |-> 400, forbidden |-> 403, missing |-> 404, conflict |-> 409, large |-> 413, unsupported |-> 415]
STATUS_CODES ==
  [status \in {400, 401, 403, 404, 413, 415, 429} |->
     CASE status = 400 -> "validation-error" [] status = 401 -> "unauthenticated" [] status = 403 -> "forbidden"
       [] status = 404 -> "not-found" [] status = 413 -> "payload-too-large" [] status = 415 -> "unsupported-media-type"
       [] status = 429 -> "rate-limit-exceeded"]

---------------------------------------------------------------------------
(* What is thrown: a domain error, of its code and category; a problem of   *)
(* the catalog; an HTTP error of the framework; or anything else.           *)

DomainError(code, category) == [kind |-> "domain", code |-> code, category |-> category]
Invalid(codes) == {DomainError(code, "invalid") : code \in codes}
Forbidden(codes) == {DomainError(code, "forbidden") : code \in codes}
Conflict(codes) == {DomainError(code, "conflict") : code \in codes}
NotFound == {DomainError("not-found", "missing")}

KernelErrors ==
  Invalid({"validation-error"}) \cup Conflict({"version-conflict", "invalid-state-transition", "duplicate-value", "resource-in-use"}) \cup NotFound
LinkErrors == Invalid({"invalid-or-expired-token"})
FileErrors == Invalid({"validation-error"})
CategoryErrors == Conflict({"invalid-state-transition"}) \cup Invalid({"validation-error"})
ProductErrors == Conflict({"field-locked", "invalid-state-transition"}) \cup Invalid({"validation-error"})
GalleryErrors == Conflict({"image-limit-reached"}) \cup Invalid({"validation-error"})
ImageErrors == {DomainError("unsupported-media-type", "unsupported"), DomainError("payload-too-large", "large")}
CartErrors == Conflict({"cart-not-active", "variant-not-sellable", "cart-line-limit-reached"}) \cup Invalid({"validation-error"})
CheckoutErrors ==
  Conflict({"source-cart-unavailable", "active-orders-exist", "empty-cart", "variant-not-sellable", "coupon-not-applicable", "total-mismatch"})
  \cup Forbidden({"email-not-verified"})
OrderErrors == Conflict({"restock-not-allowed"}) \cup Invalid({"validation-error"})
AddressErrors == Conflict({"address-limit-reached"})
IdentityErrors == Conflict({"last-superadmin"}) \cup Invalid({"validation-error"}) \cup Forbidden({"forbidden"})
PasswordErrors == Invalid({"password-policy-violation"})
GeoErrors == Invalid({"validation-error"}) \cup NotFound
ShipmentErrors == Invalid({"validation-error"})
ShippingMethodErrors == Invalid({"validation-error"})
ReceiptErrors == Conflict({"duplicate-value"})
WarehouseErrors == Invalid({"validation-error"}) \cup Conflict({"invalid-state-transition"})
StockErrors == Invalid({"validation-error"}) \cup Conflict({"insufficient-stock", "restock-not-allowed"})
PriceErrors == Conflict({"price-period-conflict"}) \cup Invalid({"validation-error"})
PromotionErrors == Invalid({"validation-error"})
PaymentErrors == Forbidden({"manual-payments-disabled"}) \cup Invalid({"validation-error"})
WorkOrderErrors == Conflict({"sale-not-linkable", "active-orders-exist"})

DomainErrors ==
  UNION {KernelErrors, LinkErrors, FileErrors, CategoryErrors, ProductErrors, GalleryErrors, ImageErrors, CartErrors, CheckoutErrors, OrderErrors,
         AddressErrors, IdentityErrors, PasswordErrors, GeoErrors, ShipmentErrors, ShippingMethodErrors, ReceiptErrors, WarehouseErrors,
         StockErrors, PriceErrors, PromotionErrors, PaymentErrors, WorkOrderErrors}

ProblemException(code) == [kind |-> "problem", code |-> code]
HttpException(status) == [kind |-> "http", status |-> status]
Thrown ==
  DomainErrors \cup {ProblemException(code) : code \in DOMAIN PROBLEM_TYPES}
    \cup {HttpException(status) : status \in {400, 401, 403, 404, 405, 413, 415, 429, 503}} \cup {[kind |-> "unknown"]}

---------------------------------------------------------------------------
(* The answers.                                                             *)

fromCatalog(code) == [code |-> code, status |-> PROBLEM_TYPES[code]]
fromDomainError(error) == [code |-> error.code, status |-> CATEGORY_STATUS[error.category]]
toProblem(error) ==
  CASE error.kind = "problem" -> fromCatalog(error.code)
    [] error.kind = "domain" -> fromDomainError(error)
    [] error.kind = "http" -> IF error.status \in DOMAIN STATUS_CODES THEN fromCatalog(STATUS_CODES[error.status]) ELSE fromCatalog("internal-error")
    [] OTHER -> fromCatalog("internal-error")

\* Only an error of the domain is kept, and never that of a value, which may be corrected and sent again.
IsKept(error) == error.kind = "domain" /\ isProblemCode(error.code) /\ error.code # "validation-error"

Told(error) == problems' = Append(problems, [thrown |-> error, got |-> toProblem(error)])

run(error) ==
  /\ keptProblem = "none" /\ Len(problems) < MaxAnswers
  /\ keptProblem' = IF IsKept(error) THEN error.code ELSE "none"
  /\ Told(error)

replay ==
  /\ keptProblem # "none" /\ Len(problems) < MaxAnswers
  /\ Told(IF isProblemCode(keptProblem) THEN ProblemException(keptProblem) ELSE [kind |-> "unknown"])
  /\ UNCHANGED keptProblem

ProblemsInit == keptProblem = "none" /\ problems = <<>>
ProblemsNext == (\E error \in Thrown : run(error)) \/ replay

---------------------------------------------------------------------------
\* Once an answer is kept, the request sent again gets the same one, its status decided then by the category of the
\* error and now by the catalog; an answer that is not kept is one the client may change or wait out, never a
\* broken rule. Every type means one status, whoever answers with it.
ProblemsHold ==
  /\ \A i \in DOMAIN problems : \A j \in DOMAIN problems :
       /\ i < j /\ IsKept(problems[i].thrown) => problems[j].got = problems[i].got
       /\ problems[i].got.code = problems[j].got.code => problems[i].got.status = problems[j].got.status
  /\ keptProblem = "none" =>
       \A i \in DOMAIN problems : problems[i].got.status \in {403, 409} => problems[i].thrown.kind \in {"problem", "http"}
=============================================================================
