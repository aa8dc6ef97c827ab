---------------------------- MODULE RequestBodies ----------------------------
(* What a request may carry: the declarations of its body or its query,     *)
(* field by field, and the pipe that checks a value against one of them.    *)
(* A value is described by what those checks and the rules behind them      *)
(* look at: its type, its length or amount, the blanks around a text,       *)
(* characters of two code units, and whether it has the form asked for.     *)
EXTENDS Integers, TLC

\* Stands for the highest value of an integer column, 2^31 - 1, and for the end of a length or a number that has none.
MaxInt == 1000000
NoLimit == 1000000000
MAX_MONEY_AMOUNT == MaxInt

---------------------------------------------------------------------------
(* Values.  "good" is of the form the field asks for, "bad" is not; "odd"   *)
(* is what passes for the form and is not: a GTIN with another check digit, *)
(* the ISO week of a date, a list with an item of another type.             *)

Value(kind, n, form) == [kind |-> kind, n |-> n, pad |-> FALSE, wide |-> FALSE, form |-> form]
Missing == Value("missing", 0, "good")
Null == Value("null", 0, "good")
\* A text of n characters between blanks, or not, its characters of two code units, or not.
Typed(n, pad, wide, form) == [Value("text", n, form) EXCEPT !.pad = pad, !.wide = wide]
Characters(v) == v.n + (IF v.pad THEN 1 ELSE 0)

---------------------------------------------------------------------------
(* What the decorators of a field ask of its value: its type, the limits,   *)
(* whether a blank text passes, what is done to the value before it is      *)
(* checked, the forms that pass and the forms the check itself fails on.    *)

Check(kind, lo, hi) ==
  [kind |-> kind, lo |-> lo, hi |-> hi, blank |-> TRUE, before |-> "nothing", forms |-> {"good"}, fails |-> {}]
\* @IsString @Length(min, max), @IsString @MaxLength(max), and @Matches(/\S/): some character that is not a blank.
AtLeast(min, max) == Check("text", min, max)
Some(max) == AtLeast(1, max)
Note(max) == AtLeast(0, max)
Words(max) == [Some(max) EXCEPT !.blank = FALSE]
\* @Matches(pattern), @IsIn, @IsUUID, @IsEmail: a whole text of one form, without blanks around it.
Form == Check("form", 1, 1)
Lookalike == [Form EXCEPT !.forms = {"good", "odd"}]
AnyText == [Form EXCEPT !.forms = {"good", "odd", "bad"}]
\* @Transform trims these before they are checked.
Email == [Form EXCEPT !.before = "trim"]
Coupon == [Some(30) EXCEPT !.before = "trim"]
\* @IsISO8601({ strict: true }) takes the week of a year for a date; with DATE_TIME_WITH_OFFSET it does not.
Date == Lookalike
Instant == Form
Whole(lo, hi) == Check("number", lo, hi)
\* @Type(() => Number) in a query: no text at all is the number 0.
Counted(lo, hi) == [Whole(lo, hi) EXCEPT !.before = "count"]
AFlag == Check("flag", 0, 0)
Items(lo, hi) == Check("list", lo, hi)
\* Centimeters with one decimal, counted in tenths.
Tenths == Whole(1, 9999999)
\* The codes of permissions, the ones of the superadmin alone ("odd") among them.
Codes == [Items(0, NoLimit) EXCEPT !.forms = {"good", "odd"}]
\* @CommaSeparated: a text becomes the list of its parts, trimmed; a repeated parameter is one already.
Commas == [Items(0, NoLimit) EXCEPT !.before = "split"]
UpTo(max) == [Commas EXCEPT !.hi = max]
\* @ArrayUnique puts the ids of the items in small letters before the items are checked: an id of another type has none.
ItemsById(lo, hi) == [Items(lo, hi) EXCEPT !.fails = {"odd"}]
Nested == Check("object", 0, 0)
Dictionary == [Nested EXCEPT !.forms = {"good", "odd"}]

\* When a field is checked: always; unless it is missing or null; unless it is missing; unless it is null.
Mandatory(check) == [check |-> check, unless |-> {}]
Optional(check) == [check |-> check, unless |-> {"missing", "null"}]
UnlessMissing(check) == [check |-> check, unless |-> {"missing"}]
Defined(check) == [check |-> check, unless |-> {"null"}]

\* The value the check sees.
Seen(c, v) ==
  CASE v.kind = "text" /\ c.before = "trim" -> [v EXCEPT !.pad = FALSE]
    [] v.kind = "text" /\ c.before = "split" -> Value("list", 1, IF v.n = 0 THEN "bad" ELSE v.form)
    [] v.kind = "text" /\ c.before = "count" /\ v.n = 0 -> Value("number", 0, "good")
    [] OTHER -> v

TypeOf(c) == IF c.kind = "form" THEN "text" ELSE c.kind
Passes(c, s) ==
  /\ s.kind = TypeOf(c)
  /\ s.form \in c.forms
  /\ c.kind = "text" => Characters(s) \in c.lo..c.hi /\ (s.n > 0 \/ c.blank)
  /\ c.kind = "form" => ~s.pad \/ "bad" \in c.forms
  /\ c.kind \in {"number", "list"} => s.n \in c.lo..c.hi
  /\ c.kind = "number" /\ ~c.blank => s.n # 0

\* The pipe lets a value through, refuses it with a 400, or fails on it.
Piped(field, v) ==
  IF v.kind \in field.unless THEN "passes"
  ELSE IF v.kind = "list" /\ v.form \in field.check.fails THEN "crashes"
  ELSE IF Passes(field.check, Seen(field.check, v)) THEN "passes"
  ELSE "refuses"

\* Values around the edges of a check, for an instance to try: of its own type, and of another.
Edges(c) == {n \in {c.lo - 1, c.lo, 0, 1, c.hi} : n < NoLimit} \cup (IF c.hi < NoLimit THEN {c.hi + 1} ELSE {MaxInt + 1})
Forms(c) == {"good", "bad"} \cup c.forms \cup c.fails
Tried(c) ==
  CASE c.kind = "text" -> {Typed(n, pad, wide, "good") : n \in {k \in Edges(c) : k >= 0}, pad \in BOOLEAN, wide \in BOOLEAN}
    [] c.kind = "form" -> {Typed(1, pad, FALSE, form) : pad \in BOOLEAN, form \in Forms(c)}
    [] c.kind = "number" -> {Value("number", n, form) : n \in Edges(c), form \in {"good", "bad"}} \cup {Typed(0, FALSE, FALSE, "good")}
    [] c.kind = "list" -> {Value("list", 0, "good"), Typed(1, FALSE, FALSE, "good")}
                            \cup {Value("list", n, form) : n \in {k \in Edges(c) : k > 0}, form \in Forms(c)}
    [] OTHER -> {Value(c.kind, 0, form) : form \in Forms(c)} \cup {Typed(1, FALSE, FALSE, "good")}

---------------------------------------------------------------------------
(* The shapes several requests share.                                       *)

VersionRead == [version |-> Mandatory(Whole(1, NoLimit))]
PageQueryDto == [page |-> Optional(Counted(1, MaxInt)), pageSize |-> Optional(Counted(1, 100))]
CursorQueryDto == [cursor |-> Optional(AnyText), limit |-> Optional(Counted(1, 100))]
\* A query sorted by some of its fields.
Sorted == [sort |-> Optional(Form)]
Search(max) == [q |-> Optional(Note(max))]

AddressInputDto ==
  [recipientName |-> Mandatory(Words(120)), phone |-> Mandatory(Form), street |-> Mandatory(Words(150)),
   exteriorNumber |-> Mandatory(Words(20)), interiorNumber |-> Optional(Some(20)), neighborhood |-> Mandatory(Words(120)),
   postalCode |-> Mandatory(Form), stateCode |-> Mandatory(Form), municipalityCode |-> Mandatory(Form),
   city |-> Optional(Some(120)), references |-> Optional(Some(250))]

---------------------------------------------------------------------------
(* Catalog.                                                                 *)

AdminCategoryTreeQueryDto == [status |-> Optional(Commas)]
CreateCategoryDto ==
  [name |-> Mandatory(Words(100)), slug |-> Optional(Form), parentId |-> Optional(Form), position |-> Optional(Whole(0, 10000))]
UpdateCategoryDto ==
  [name |-> Optional(Words(100)), slug |-> Optional(Form), parentId |-> Optional(Form), position |-> Optional(Whole(0, 10000))]
AdminBrandListQueryDto == PageQueryDto @@ Sorted @@ [q |-> Optional(Some(100)), status |-> Optional(Commas)]
CreateBrandDto == [name |-> Mandatory(Words(100)), slug |-> Optional(Form)]
UpdateBrandDto == [name |-> Optional(Words(100)), slug |-> Optional(Form)]
VariantLookupQueryDto == [code |-> Mandatory(Form)]
AdminProductListQueryDto ==
  PageQueryDto @@ Sorted
    @@ [q |-> Optional(Some(100)), status |-> Optional(Commas), brandId |-> Optional(Form), categoryId |-> Optional(Form),
        storeOnly |-> Optional(AFlag)]
CreateProductDto ==
  [title |-> Mandatory(Words(200)), slug |-> Optional(Form), description |-> Optional(Note(10000)), brandId |-> Optional(Form),
   categoryIds |-> Optional(Items(0, 10)), storeOnly |-> Optional(AFlag)]
UpdateProductDto ==
  VersionRead @@
  [title |-> Optional(Words(200)), slug |-> Optional(Form), description |-> Optional(Note(10000)), brandId |-> Optional(Form),
   categoryIds |-> Optional(Items(0, 10)), storeOnly |-> Optional(AFlag)]
ImageUploadFieldsDto == [altText |-> Optional(Note(200)), variantId |-> Optional(Form)]
UpdateImageDto == [altText |-> Optional(Note(200)), variantId |-> Optional(Form)]
ImageOrderDto == [imageIds |-> Mandatory(Items(0, 20))]
ProductVersionDto == VersionRead
CreateVariantDto ==
  VersionRead @@
  [sku |-> Mandatory(Form), gtin |-> Optional(Lookalike), options |-> Optional(Dictionary), weightGrams |-> Optional(Whole(1, MaxInt)),
   lengthCm |-> Optional(Tenths), widthCm |-> Optional(Tenths), heightCm |-> Optional(Tenths)]
UpdateVariantDto ==
  VersionRead @@
  [sku |-> Optional(Form), gtin |-> Optional(Lookalike), options |-> Optional(Dictionary), weightGrams |-> Optional(Whole(1, MaxInt)),
   lengthCm |-> Optional(Tenths), widthCm |-> Optional(Tenths), heightCm |-> Optional(Tenths)]
DescriptionDraftRequestDto == [language |-> Mandatory(Form), tone |-> Optional(Form)]
StoreProductListQueryDto ==
  PageQueryDto @@ Sorted
    @@ [q |-> Optional(AtLeast(2, 100)), category |-> Optional(Some(100)), brand |-> Optional(UpTo(20)),
        minPrice |-> Optional(Counted(0, MAX_MONEY_AMOUNT)), maxPrice |-> Optional(Counted(0, MAX_MONEY_AMOUNT)),
        available |-> Optional(AFlag)]
\* The files of products, of prices and of receipts.
ProductImportQueryDto == [dryRun |-> Optional(AFlag)]
PriceImportQueryDto == ProductImportQueryDto
ReceiptImportQueryDto == ProductImportQueryDto

---------------------------------------------------------------------------
(* Identity.                                                                *)

Password == Note(NoLimit)
ASecret == AtLeast(1, 256)
LoginDto == [email |-> Mandatory(Email), password |-> Mandatory(ASecret)]
RefreshTokenDto == [refreshToken |-> Mandatory(ASecret)]
RegisterDto ==
  [email |-> Mandatory(Email), password |-> Mandatory(Password), firstNames |-> Mandatory(Words(100)), lastNames |-> Mandatory(Words(100)),
   privacyNoticeVersion |-> Mandatory(Words(50))]
ConfirmEmailDto == [token |-> Mandatory(ASecret)]
ResendEmailVerificationDto == [email |-> Mandatory(Email)]
PasswordResetRequestDto == [email |-> Mandatory(Email)]
PasswordResetConfirmDto == [token |-> Mandatory(ASecret), newPassword |-> Mandatory(Password)]
ChangePasswordDto == [currentPassword |-> Mandatory(ASecret), newPassword |-> Mandatory(Password)]
UpdateAccountDto == [firstNames |-> UnlessMissing(Words(100)), lastNames |-> UnlessMissing(Words(100))]
ChangeEmailDto == [newEmail |-> Mandatory(Email), currentPassword |-> Mandatory(ASecret)]
CreateAddressDto == AddressInputDto @@ [isDefault |-> Optional(AFlag)]
\* Changing the state asks for the municipality; a change of neither has neither.
UpdateAddressDto ==
  [recipientName |-> UnlessMissing(Words(120)), phone |-> UnlessMissing(Form), street |-> UnlessMissing(Words(150)),
   exteriorNumber |-> UnlessMissing(Words(20)), interiorNumber |-> Optional(Some(20)), neighborhood |-> UnlessMissing(Words(120)),
   postalCode |-> UnlessMissing(Form), stateCode |-> UnlessMissing(Form), municipalityCode |-> Mandatory(Form),
   city |-> Optional(Some(120)), references |-> Optional(Some(250)), isDefault |-> Optional(AFlag)]
RoleListQueryDto == PageQueryDto @@ Sorted @@ Search(100)
CreateRoleDto == [name |-> Mandatory(Words(50)), description |-> Optional(Some(250)), permissions |-> Mandatory(Codes)]
UpdateRoleDto ==
  VersionRead @@ [name |-> Optional(Words(50)), description |-> Optional(Some(250)), permissions |-> Optional(Codes)]
StaffListQueryDto == PageQueryDto @@ Sorted @@ Search(254) @@ [status |-> Optional(Commas), roleId |-> Optional(Form)]
ReplaceRolesDto == VersionRead @@ [roleIds |-> Mandatory(Items(1, 50))]
CreateStaffDto ==
  [email |-> Mandatory(Email), firstNames |-> Mandatory(Words(100)), lastNames |-> Mandatory(Words(100)), roleIds |-> Mandatory(Items(1, 50))]
ReasonDto == VersionRead @@ [reason |-> Mandatory(Words(500))]
CustomerListQueryDto ==
  PageQueryDto @@ Sorted @@ Search(254)
    @@ [status |-> Optional(Commas), emailVerified |-> Optional(AFlag), createdFrom |-> Optional(Date), createdTo |-> Optional(Date)]

---------------------------------------------------------------------------
(* Inventory, prices and shopping.                                          *)

CreateWarehouseDto ==
  [code |-> Mandatory(Form), name |-> Mandatory(Words(100)), address |-> Optional(Nested), priority |-> Mandatory(Whole(1, 1000))]
UpdateWarehouseDto == [name |-> UnlessMissing(Words(100)), address |-> Optional(Nested), priority |-> Optional(Whole(1, 1000))]
StockItemQueryDto ==
  PageQueryDto @@ Sorted @@ Search(100)
    @@ [variantId |-> Optional(Form), sku |-> Optional(Note(64)), warehouseId |-> Optional(Form), availableMax |-> Optional(Counted(0, MaxInt))]
StockMovementQueryDto == CursorQueryDto @@ [type |-> Optional(Commas), from |-> Optional(Date), to |-> Optional(Date)]
ReceiptDto ==
  [variantId |-> Mandatory(Form), warehouseId |-> Mandatory(Form), quantity |-> Mandatory(Whole(1, 100000)), note |-> Optional(Note(500))]
AdjustmentDto ==
  [variantId |-> Mandatory(Form), warehouseId |-> Mandatory(Form), quantity |-> Mandatory([Whole(-100000, 100000) EXCEPT !.blank = FALSE]),
   reasonCode |-> Mandatory(Form), note |-> Optional(Note(500))]
PricePeriodQueryDto == [state |-> Optional(Commas)]
SetPriceDto ==
  [amount |-> Mandatory(Whole(0, MAX_MONEY_AMOUNT)), compareAtAmount |-> Optional(Whole(1, MAX_MONEY_AMOUNT)), effectiveFrom |-> Optional(Instant)]
AddCartLineDto == [variantId |-> Mandatory(Form), quantity |-> Mandatory(Whole(1, 30))]
ChangeCartLineDto == [quantity |-> Mandatory(Whole(1, 30))]
MergeCartDto == [guestCartId |-> Mandatory(Form)]

---------------------------------------------------------------------------
(* Promotions.                                                              *)

PromotionTargetDto == [type |-> Mandatory(Form), id |-> Mandatory(Form)]
PromotionTermsDto == [percentage |-> Optional(Whole(1, 100)), amountOff |-> Optional(Whole(1, MAX_MONEY_AMOUNT))]
CreatePromotionDto ==
  PromotionTermsDto @@
  [name |-> Mandatory(Words(120)), targets |-> Optional(ItemsById(0, 100)), channels |-> Optional(Items(1, 2)),
   minimumSubtotal |-> Optional(Whole(1, MAX_MONEY_AMOUNT)), startsAt |-> Optional(Instant), endsAt |-> Optional(Instant),
   code |-> Optional(Form), usageLimit |-> Optional(Whole(1, MaxInt)), oncePerCustomer |-> Optional(AFlag)]
UpdatePromotionDto ==
  VersionRead @@ PromotionTermsDto @@
  [name |-> UnlessMissing(Words(120)), targets |-> UnlessMissing(ItemsById(0, 100)), channels |-> UnlessMissing(Items(1, 2)),
   minimumSubtotal |-> Optional(Whole(1, MAX_MONEY_AMOUNT)), startsAt |-> UnlessMissing(Instant), endsAt |-> Optional(Instant),
   code |-> Optional(Form), usageLimit |-> Optional(Whole(1, MaxInt)), oncePerCustomer |-> UnlessMissing(AFlag)]
EndPromotionDto == VersionRead
PromotionListQueryDto ==
  PageQueryDto @@ Sorted @@ Search(254)
    @@ [status |-> Optional(Commas), channel |-> Optional(Form), appliesTo |-> Optional(Form), kind |-> Optional(Form)]

---------------------------------------------------------------------------
(* Orders and payments.                                                     *)

CouponCodeDto == [couponCode |-> Optional(Coupon)]
CustomerQuoteDto == CouponCodeDto
GuestQuoteDto == CouponCodeDto @@ [cartId |-> Mandatory(Form)]
PlaceGuestOrderDto ==
  CouponCodeDto @@
  [cartId |-> Mandatory(Form), contactEmail |-> Mandatory(Email), shippingAddress |-> Mandatory(Nested),
   expectedTotal |-> Mandatory(Whole(0, MAX_MONEY_AMOUNT)), privacyNoticeVersion |-> Mandatory(Words(50))]
GuestOrderLookupDto == [contactEmail |-> Mandatory(Email), publicCode |-> Mandatory(Words(100))]
GuestReorderDto == GuestOrderLookupDto @@ [cartId |-> Optional(Form)]
OrderAccessLinkRequestDto == [contactEmail |-> Mandatory(Email)]
OrderAccessRequestDto == [token |-> Mandatory(ASecret)]
PlaceCustomerOrderDto ==
  CouponCodeDto @@
  [addressId |-> Optional(Form), shippingAddress |-> Optional(Nested), expectedTotal |-> Mandatory(Whole(0, MAX_MONEY_AMOUNT))]
OrderListQueryDto == PageQueryDto @@ Sorted @@ [status |-> Optional(Commas), placedFrom |-> Optional(Date), placedTo |-> Optional(Date)]
AdminOrderListQueryDto ==
  PageQueryDto @@ Sorted @@ Search(254)
    @@ [status |-> Optional(Commas), customerId |-> Optional(Form), guest |-> Optional(AFlag), placedFrom |-> Optional(Date),
        placedTo |-> Optional(Date), hasPendingRefund |-> Optional(AFlag), channel |-> Optional(Form), placedBy |-> Optional(Form)]
StaffOrderLineDto == [variantId |-> Mandatory(Form), quantity |-> Mandatory(Whole(1, 30))]
StaffQuoteDto ==
  CouponCodeDto @@ [lines |-> Mandatory(ItemsById(1, 100)), warehouseId |-> Mandatory(Form), fulfillment |-> Optional(Form)]
PlaceStaffOrderDto ==
  StaffQuoteDto @@
  [customerId |-> Optional(Form), contactEmail |-> Optional(Email), privacyNoticeVersion |-> Optional(Words(50)), addressId |-> Optional(Form),
   shippingAddress |-> Optional(Nested), expectedTotal |-> Mandatory(Whole(0, MAX_MONEY_AMOUNT))]
CancelOrderDto == VersionRead @@ [reason |-> Mandatory(Words(500)), restock |-> Optional(AFlag)]
RestockLineDto == [orderLineId |-> Mandatory(Form), quantity |-> Mandatory(Whole(1, 100000))]
RestockOrderDto ==
  [reasonCode |-> Mandatory(Form), lines |-> Mandatory(ItemsById(1, 100)), warehouseId |-> Optional(Form), note |-> Optional(Note(500))]
HandOverDto == VersionRead
RetryFulfillmentDto == VersionRead
BlockedOrderDataRequestDto == [reason |-> Mandatory(Words(500))]
StartCustomerPaymentDto == [provider |-> Mandatory(Form)]
StartGuestPaymentDto == StartCustomerPaymentDto @@ [cartId |-> Mandatory(Form)]
ManualCaptureDto == [reference |-> Mandatory(Words(100)), method |-> Optional(Form), note |-> Optional(Note(500))]
AdminPaymentListQueryDto ==
  PageQueryDto @@ Sorted
    @@ [status |-> Optional(Commas), provider |-> Optional(Commas), orderId |-> Optional(Form), capturedFrom |-> Optional(Date),
        capturedTo |-> Optional(Date)]
ManualRefundDto == VersionRead @@ [reference |-> Mandatory(Words(100)), note |-> Optional(Note(500))]
UpdatePaymentSettingsDto == VersionRead @@ [manualPaymentsEnabled |-> Mandatory(AFlag)]

---------------------------------------------------------------------------
(* Shipments, work orders, erasures, audit and events.                      *)

AdminShipmentListQueryDto ==
  PageQueryDto @@ Sorted @@ Search(100)
    @@ [status |-> Optional(Commas), orderId |-> Optional(Form), warehouseId |-> Optional(Form), createdFrom |-> Optional(Date),
        createdTo |-> Optional(Date)]
RecordTrackingDto == VersionRead @@ [carrierName |-> Defined(Words(100)), trackingNumber |-> Defined(Words(100))]
ShipmentVersionDto == VersionRead
DispatchShipmentDto == ShipmentVersionDto @@ [ownDelivery |-> Optional(AFlag)]
ShipmentNoteDto == ShipmentVersionDto @@ [note |-> Optional(Note(500))]
UpdateShippingMethodDto ==
  VersionRead @@
  [name |-> Mandatory(Words(100)), flatFee |-> Mandatory(Whole(0, MAX_MONEY_AMOUNT)),
   freeShippingThreshold |-> Defined(Whole(1, MAX_MONEY_AMOUNT)), deliveryMinBusinessDays |-> Mandatory(Whole(1, 30)),
   deliveryMaxBusinessDays |-> Mandatory(Whole(1, 30))]
ReceiveWorkOrderDto ==
  [warehouseId |-> Mandatory(Form), customerId |-> Optional(Form), customerName |-> Mandatory(Words(120)), customerPhone |-> Mandatory(Form),
   customerEmail |-> Optional(Email), equipmentType |-> Mandatory(Words(60)), equipmentBrand |-> Optional(Note(60)),
   equipmentModel |-> Optional(Note(60)), serialNumber |-> Optional(Note(60)), accessories |-> Optional(Note(500)),
   equipmentCondition |-> Optional(Note(1000)), reportedFault |-> Mandatory(Words(2000)),
   estimatedCost |-> Optional(Whole(0, MAX_MONEY_AMOUNT)), technicianId |-> Optional(Form)]
UpdateWorkOrderDto ==
  VersionRead @@
  [customerId |-> Optional(Form), customerName |-> UnlessMissing(Words(120)), customerPhone |-> UnlessMissing(Form),
   customerEmail |-> Optional(Email), equipmentType |-> UnlessMissing(Words(60)), equipmentBrand |-> Optional(Note(60)),
   equipmentModel |-> Optional(Note(60)), serialNumber |-> Optional(Note(60)), accessories |-> Optional(Note(500)),
   equipmentCondition |-> Optional(Note(1000)), reportedFault |-> UnlessMissing(Words(2000)), diagnosis |-> Optional(Note(4000)),
   workPerformed |-> Optional(Note(4000)), estimatedCost |-> Optional(Whole(0, MAX_MONEY_AMOUNT)), technicianId |-> Optional(Form)]
\* A cancellation says why; the other changes may say something.
ChangeWorkOrderStatusDto(cancels) ==
  VersionRead @@ [status |-> Mandatory(Form), note |-> IF cancels THEN Mandatory(Words(500)) ELSE Optional(Words(500))]
WorkOrderListQueryDto ==
  PageQueryDto @@ Sorted @@ Search(254)
    @@ [status |-> Optional(Commas), warehouseId |-> Optional(Form), technicianId |-> Optional(Form), customerId |-> Optional(Form),
        receivedFrom |-> Optional(Date), receivedTo |-> Optional(Date)]
LinkSaleDto == VersionRead @@ [orderId |-> Mandatory(Form)]
UnlinkSaleQueryDto == [version |-> Mandatory(Counted(1, NoLimit))]
WorkOrderReasonDto == [reason |-> Mandatory(Words(500))]
AnonymizationReasonDto == [reason |-> Mandatory(Words(250))]
AnonymizeCustomerDto == VersionRead @@ AnonymizationReasonDto
AnonymizeGuestDto == AnonymizationReasonDto @@ [contactEmail |-> Mandatory(Email), publicCode |-> Mandatory(Words(100))]
AuditQueryDto ==
  CursorQueryDto @@
  [actorId |-> Optional(Form), actorType |-> Optional(Commas), action |-> Optional(Form), resourceType |-> Optional(Words(100)),
   resourceId |-> Optional(Words(200)), result |-> Optional(Commas), from |-> Optional(Date), to |-> Optional(Date)]
DeliveryTargetDto == [eventType |-> Optional(Form), handler |-> Optional(Form)]
RetryDeliveriesDto == DeliveryTargetDto
EventDeliveryListQueryDto == PageQueryDto @@ Sorted @@ DeliveryTargetDto @@ [status |-> Optional(Commas)]
=============================================================================
