------------------------------- MODULE Inputs --------------------------------
(* What becomes of one value of one field of a request: the pipe checks it  *)
(* against the declaration of its body, the controller and the domain make  *)
(* of it what is stored, and the filter of problems answers. The other      *)
(* fields of the request are good, or not sent where they would exclude it. *)
EXTENDS RequestBodies

VARIABLES
  request,   \* the operation, the field and the value it was sent with
  piped,     \* what the pipe said of the value, "pending" before
  verdict,   \* what the controller and the domain made of it, "pending" before
  status     \* the status of the answer, 0 before it

inputVars == <<request, piped, verdict, status>>

---------------------------------------------------------------------------
(* Rules.  What is done with a value the pipe let through: a null is        *)
(* "cleared" (nothing is stored), the "default" of what is created, "kept"  *)
(* (as if it was not sent), "refused" with a DomainError, written on a      *)
(* "column" that takes none, or "crashes". A text is measured by the domain *)
(* in code units, with its blanks or without.                               *)

Rule(null) ==
  [null |-> null, odd |-> "stored", blank |-> "stored", trims |-> FALSE, units |-> TRUE, lo |-> -NoLimit, hi |-> NoLimit]
AsSent == Rule("cleared")
OrDefault == Rule("default")
AsNotSent == Rule("kept")
NullRefused == Rule("refused")
NullCrashes == Rule("crashes")
Trimmed(max) == [AsSent EXCEPT !.blank = "cleared", !.trims = TRUE, !.hi = max]
Named(max) == [NullCrashes EXCEPT !.blank = "refused", !.trims = TRUE, !.lo = 1, !.hi = max]

\* The names and the texts of the domain.
CatalogName == Named(100)
ProductTitle == Named(200)
RoleName == Named(50)
WarehouseName == Named(100)
ShippingMethodName == Named(100)
PromotionName == Named(120)
Description == [AsSent EXCEPT !.blank = "cleared", !.hi = 10000]
AltText == Trimmed(200)
StockNote == Trimmed(NoLimit)
ShipmentNote == Trimmed(NoLimit)
Reference == [AsSent EXCEPT !.trims = TRUE]
RequiredText(max) == Named(max)
OptionalText(max) == Trimmed(max)
WorkOrderDetails ==
  [customerName |-> RequiredText(120), equipmentType |-> RequiredText(60), reportedFault |-> RequiredText(2000),
   equipmentBrand |-> OptionalText(60), equipmentModel |-> OptionalText(60), serialNumber |-> OptionalText(60),
   accessories |-> OptionalText(500), equipmentCondition |-> OptionalText(1000)]
\* A slug, a null one included, is taken as it was given and then measured.
GivenSlug == NullCrashes
GeneratedSlug == NullCrashes
Sku == NullCrashes
Gtin == [AsSent EXCEPT !.odd = "refused"]
Options(null) == [Rule(null) EXCEPT !.odd = "refused"]
Permissions == [NullCrashes EXCEPT !.odd = "refused"]
Dimension == [AsSent EXCEPT !.lo = 1, !.hi = 9999999]
Position(null) == [Rule(null) EXCEPT !.lo = 0, !.hi = 10000]
Priority == [NullRefused EXCEPT !.lo = 1, !.hi = 1000]
Categories(null) == [Rule(null) EXCEPT !.hi = 10]
ReceivedUnits == [AsSent EXCEPT !.lo = 1, !.hi = 100000]
AdjustedUnits == [AsSent EXCEPT !.lo = -100000, !.hi = 100000]
\* The length of a password is counted in characters, its blanks with them.
NewPassword == [AsSent EXCEPT !.blank = "refused", !.units = FALSE, !.lo = 15, !.hi = 64]
\* The week of a year is no date for new Date, and the database takes no invalid date.
RangeDate == [AsSent EXCEPT !.odd = "crashes"]
Cursor == [AsSent EXCEPT !.odd = "refused"]
AnId == NullRefused
\* One of two: the percentage or the amount, the address by its id or written, the customer or the guest, both parts of a tracking.
Discounted == [percentage |-> [NullRefused EXCEPT !.lo = 1, !.hi = 100], amountOff |-> NullRefused]
ChosenAddress == [addressId |-> AnId, shippingAddress |-> NullCrashes]
ChosenBuyer == [customerId |-> AnId, contactEmail |-> NullRefused, privacyNoticeVersion |-> NullCrashes]
TrackingPair == [carrierName |-> [NullRefused EXCEPT !.trims = TRUE], trackingNumber |-> [NullRefused EXCEPT !.trims = TRUE]]

Measured(rule, v) == v.n * (IF v.wide /\ rule.units THEN 2 ELSE 1) + (IF v.pad /\ ~rule.trims THEN 1 ELSE 0)

Decided(rule, v) ==
  LET measure == IF v.kind = "text" THEN Measured(rule, v) ELSE v.n
  IN  IF v.kind = "missing" THEN "absent"
      ELSE IF v.kind = "null" THEN rule.null
      ELSE IF v.form # "good" THEN rule.odd
      ELSE IF v.kind = "text" /\ v.n = 0 THEN rule.blank
      ELSE IF v.kind \in {"text", "number", "list"} /\ measure \notin rule.lo..rule.hi THEN "refused"
      ELSE "stored"

---------------------------------------------------------------------------
(* Operations: what each takes, in a body, a query or the fields of a file, *)
(* and the rules of the fields that are not stored as they were sent.       *)

Operation(from, dto, rules) ==
  [from |-> from,
   fields |-> [f \in DOMAIN dto |-> [asks |-> dto[f], rule |-> IF f \in DOMAIN rules THEN rules[f] ELSE AsSent]]]
Takes(dto, rules) == Operation("body", dto, rules)
Reads(dto, rules) == Operation("query", dto, rules)
All(names, rule) == [f \in names |-> rule]
AsTheyAre == All({}, AsSent)
Between(from, to) == All({from, to}, RangeDate)

\* Catalog.
ListCategories == Reads(AdminCategoryTreeQueryDto, AsTheyAre)
CreateCategory == Takes(CreateCategoryDto, [name |-> CatalogName, slug |-> GeneratedSlug, position |-> Position("default")])
UpdateCategory == Takes(UpdateCategoryDto, [name |-> CatalogName, slug |-> GivenSlug, position |-> Position("refused")])
ListBrands == Reads(AdminBrandListQueryDto, AsTheyAre)
CreateBrand == Takes(CreateBrandDto, [name |-> CatalogName, slug |-> GeneratedSlug])
UpdateBrand == Takes(UpdateBrandDto, [name |-> CatalogName, slug |-> GivenSlug])
FindVariants == Reads(VariantLookupQueryDto, AsTheyAre)
ListProducts == Reads(AdminProductListQueryDto, AsTheyAre)
CreateProduct ==
  Takes(CreateProductDto,
    [title |-> ProductTitle, slug |-> GeneratedSlug, description |-> Description, categoryIds |-> Categories("default"), storeOnly |-> OrDefault])
UpdateProduct ==
  Takes(UpdateProductDto,
    [title |-> ProductTitle, slug |-> GivenSlug, description |-> Description, categoryIds |-> Categories("kept"), storeOnly |-> Rule("column")])
ChangeProduct == Takes(ProductVersionDto, AsTheyAre)
AddVariant ==
  Takes(CreateVariantDto, [sku |-> Sku, gtin |-> Gtin, options |-> Options("default")] @@ All({"lengthCm", "widthCm", "heightCm"}, Dimension))
UpdateVariant ==
  Takes(UpdateVariantDto, [sku |-> Sku, gtin |-> Gtin, options |-> Options("crashes")] @@ All({"lengthCm", "widthCm", "heightCm"}, Dimension))
DraftDescription == Takes(DescriptionDraftRequestDto, [tone |-> OrDefault])
UploadImage == Operation("form", ImageUploadFieldsDto, [altText |-> AltText])
DescribeImage == Takes(UpdateImageDto, [altText |-> AltText])
ReorderImages == Takes(ImageOrderDto, AsTheyAre)
StoreProducts == Reads(StoreProductListQueryDto, AsTheyAre)
ImportProducts == Reads(ProductImportQueryDto, AsTheyAre)

\* Identity.
Login == Takes(LoginDto, AsTheyAre)
RefreshTokens == Takes(RefreshTokenDto, AsTheyAre)
Logout == Takes(RefreshTokenDto, AsTheyAre)
Register == Takes(RegisterDto, [password |-> NewPassword])
ConfirmEmail == Takes(ConfirmEmailDto, AsTheyAre)
ResendVerification == Takes(ResendEmailVerificationDto, AsTheyAre)
RequestReset == Takes(PasswordResetRequestDto, AsTheyAre)
ConfirmReset == Takes(PasswordResetConfirmDto, [newPassword |-> NewPassword])
ChangePassword == Takes(ChangePasswordDto, [newPassword |-> NewPassword])
RectifyAccount == Takes(UpdateAccountDto, AsTheyAre)
ChangeEmail == Takes(ChangeEmailDto, AsTheyAre)
AddAddress == Takes(CreateAddressDto, [isDefault |-> OrDefault])
UpdateAddress == Takes(UpdateAddressDto, [isDefault |-> AsNotSent])
ListRoles == Reads(RoleListQueryDto, AsTheyAre)
CreateRole == Takes(CreateRoleDto, [name |-> RoleName, permissions |-> Permissions])
UpdateRole == Takes(UpdateRoleDto, [name |-> RoleName, permissions |-> Permissions])
ListStaff == Reads(StaffListQueryDto, AsTheyAre)
CreateStaff == Takes(CreateStaffDto, AsTheyAre)
ReplaceRoles == Takes(ReplaceRolesDto, AsTheyAre)
SuspendStaff == Takes(ReasonDto, AsTheyAre)
ReactivateStaff == Takes(ReasonDto, AsTheyAre)
ListCustomers == Reads(CustomerListQueryDto, Between("createdFrom", "createdTo"))
SuspendCustomer == Takes(ReasonDto, AsTheyAre)
ReactivateCustomer == Takes(ReasonDto, AsTheyAre)

\* Inventory, prices and carts.
CreateWarehouse == Takes(CreateWarehouseDto, [name |-> WarehouseName, priority |-> Priority])
UpdateWarehouse == Takes(UpdateWarehouseDto, [name |-> WarehouseName, priority |-> Priority])
ListStock == Reads(StockItemQueryDto, AsTheyAre)
ListMovements == Reads(StockMovementQueryDto, Between("from", "to") @@ [cursor |-> Cursor])
ReceiveStock == Takes(ReceiptDto, [quantity |-> ReceivedUnits, note |-> StockNote])
AdjustStock == Takes(AdjustmentDto, [quantity |-> AdjustedUnits, note |-> StockNote])
ImportReceipts == Reads(ReceiptImportQueryDto, AsTheyAre)
PriceHistory == Reads(PricePeriodQueryDto, AsTheyAre)
SetPrice == Takes(SetPriceDto, [effectiveFrom |-> OrDefault])
ImportPrices == Reads(PriceImportQueryDto, AsTheyAre)
AddGuestCartLine == Takes(AddCartLineDto, AsTheyAre)
ChangeGuestCartLine == Takes(ChangeCartLineDto, AsTheyAre)
AddMyCartLine == Takes(AddCartLineDto, AsTheyAre)
ChangeMyCartLine == Takes(ChangeCartLineDto, AsTheyAre)
MergeCart == Takes(MergeCartDto, AsTheyAre)

\* Promotions.
CreatePromotion ==
  Takes(CreatePromotionDto,
    [name |-> PromotionName] @@ All({"targets", "channels", "startsAt", "oncePerCustomer"}, OrDefault) @@ Discounted)
UpdatePromotion == Takes(UpdatePromotionDto, [name |-> PromotionName] @@ Discounted)
EndPromotion == Takes(EndPromotionDto, AsTheyAre)
ListPromotions == Reads(PromotionListQueryDto, AsTheyAre)

\* Orders and payments.
QuoteGuestCart == Takes(GuestQuoteDto, AsTheyAre)
QuoteMyCart == Takes(CustomerQuoteDto, AsTheyAre)
PlaceGuestOrder == Takes(PlaceGuestOrderDto, AsTheyAre)
LookUpOrder == Takes(GuestOrderLookupDto, AsTheyAre)
RequestAccessLink == Takes(OrderAccessLinkRequestDto, AsTheyAre)
AccessOrder == Takes(OrderAccessRequestDto, AsTheyAre)
ReorderAsGuest == Takes(GuestReorderDto, [cartId |-> AnId])
PlaceMyOrder == Takes(PlaceCustomerOrderDto, ChosenAddress)
ListMyOrders == Reads(OrderListQueryDto, Between("placedFrom", "placedTo"))
StartMyPayment == Takes(StartCustomerPaymentDto, AsTheyAre)
StartGuestPayment == Takes(StartGuestPaymentDto, AsTheyAre)
QuoteStaffOrder == Takes(StaffQuoteDto, [fulfillment |-> OrDefault])
PlaceStaffOrder == Takes(PlaceStaffOrderDto, [fulfillment |-> OrDefault] @@ ChosenAddress @@ ChosenBuyer)
ListOrders == Reads(AdminOrderListQueryDto, Between("placedFrom", "placedTo"))
ReadBlockedOrder == Takes(BlockedOrderDataRequestDto, AsTheyAre)
CancelOrder == Takes(CancelOrderDto, [restock |-> OrDefault])
RestockOrder == Takes(RestockOrderDto, [warehouseId |-> AnId, note |-> StockNote])
HandOver == Takes(HandOverDto, AsTheyAre)
RetryFulfillment == Takes(RetryFulfillmentDto, AsTheyAre)
CaptureManually == Takes(ManualCaptureDto, [reference |-> Reference, note |-> StockNote])
ListPayments == Reads(AdminPaymentListQueryDto, Between("capturedFrom", "capturedTo"))
RefundManually == Takes(ManualRefundDto, [reference |-> Reference, note |-> StockNote])
UpdatePaymentSettings == Takes(UpdatePaymentSettingsDto, AsTheyAre)

\* Shipments, work orders, erasures, the audit and the events.
ListShipments == Reads(AdminShipmentListQueryDto, Between("createdFrom", "createdTo"))
RecordTracking == Takes(RecordTrackingDto, TrackingPair)
Dispatch == Takes(DispatchShipmentDto, [ownDelivery |-> OrDefault])
Deliver == Takes(ShipmentVersionDto, AsTheyAre)
FailDelivery == Takes(ShipmentNoteDto, [note |-> ShipmentNote])
MarkReturned == Takes(ShipmentNoteDto, [note |-> ShipmentNote])
UpdateShippingMethod == Takes(UpdateShippingMethodDto, [name |-> ShippingMethodName])
ReceiveWorkOrder == Takes(ReceiveWorkOrderDto, WorkOrderDetails)
UpdateWorkOrder == Takes(UpdateWorkOrderDto, WorkOrderDetails @@ All({"diagnosis", "workPerformed"}, OptionalText(4000)))
ChangeWorkOrderStatus == Takes(ChangeWorkOrderStatusDto(FALSE), [note |-> OptionalText(500)])
CancelWorkOrder == Takes(ChangeWorkOrderStatusDto(TRUE), [note |-> RequiredText(500)])
ListWorkOrders == Reads(WorkOrderListQueryDto, Between("receivedFrom", "receivedTo"))
LinkSale == Takes(LinkSaleDto, AsTheyAre)
UnlinkSale == Reads(UnlinkSaleQueryDto, AsTheyAre)
ReadBlockedWorkOrder == Takes(WorkOrderReasonDto, AsTheyAre)
AnonymizeWorkOrder == Takes(WorkOrderReasonDto, AsTheyAre)
AnonymizeCustomer == Takes(AnonymizeCustomerDto, AsTheyAre)
AnonymizeGuest == Takes(AnonymizeGuestDto, AsTheyAre)
ReadAudit == Reads(AuditQueryDto, Between("from", "to") @@ [cursor |-> Cursor])
ListDeliveries == Reads(EventDeliveryListQueryDto, AsTheyAre)
RetryDeliveries == Takes(RetryDeliveriesDto, AsTheyAre)

Operations ==
  [ListCategories |-> ListCategories, CreateCategory |-> CreateCategory, UpdateCategory |-> UpdateCategory, ListBrands |-> ListBrands,
   CreateBrand |-> CreateBrand, UpdateBrand |-> UpdateBrand, FindVariants |-> FindVariants, ListProducts |-> ListProducts,
   CreateProduct |-> CreateProduct, UpdateProduct |-> UpdateProduct, ChangeProduct |-> ChangeProduct, AddVariant |-> AddVariant,
   UpdateVariant |-> UpdateVariant, DraftDescription |-> DraftDescription, UploadImage |-> UploadImage, DescribeImage |-> DescribeImage,
   ReorderImages |-> ReorderImages, StoreProducts |-> StoreProducts, ImportProducts |-> ImportProducts, Login |-> Login,
   RefreshTokens |-> RefreshTokens, Logout |-> Logout, Register |-> Register, ConfirmEmail |-> ConfirmEmail,
   ResendVerification |-> ResendVerification, RequestReset |-> RequestReset, ConfirmReset |-> ConfirmReset,
   ChangePassword |-> ChangePassword, RectifyAccount |-> RectifyAccount, ChangeEmail |-> ChangeEmail, AddAddress |-> AddAddress,
   UpdateAddress |-> UpdateAddress, ListRoles |-> ListRoles, CreateRole |-> CreateRole, UpdateRole |-> UpdateRole, ListStaff |-> ListStaff,
   CreateStaff |-> CreateStaff, ReplaceRoles |-> ReplaceRoles, SuspendStaff |-> SuspendStaff, ReactivateStaff |-> ReactivateStaff,
   ListCustomers |-> ListCustomers, SuspendCustomer |-> SuspendCustomer, ReactivateCustomer |-> ReactivateCustomer,
   CreateWarehouse |-> CreateWarehouse, UpdateWarehouse |-> UpdateWarehouse, ListStock |-> ListStock, ListMovements |-> ListMovements,
   ReceiveStock |-> ReceiveStock, AdjustStock |-> AdjustStock, ImportReceipts |-> ImportReceipts, PriceHistory |-> PriceHistory,
   SetPrice |-> SetPrice, ImportPrices |-> ImportPrices, AddGuestCartLine |-> AddGuestCartLine,
   ChangeGuestCartLine |-> ChangeGuestCartLine, AddMyCartLine |-> AddMyCartLine, ChangeMyCartLine |-> ChangeMyCartLine,
   MergeCart |-> MergeCart, CreatePromotion |-> CreatePromotion, UpdatePromotion |-> UpdatePromotion, EndPromotion |-> EndPromotion,
   ListPromotions |-> ListPromotions, QuoteGuestCart |-> QuoteGuestCart, QuoteMyCart |-> QuoteMyCart, PlaceGuestOrder |-> PlaceGuestOrder,
   LookUpOrder |-> LookUpOrder, RequestAccessLink |-> RequestAccessLink, AccessOrder |-> AccessOrder, ReorderAsGuest |-> ReorderAsGuest,
   PlaceMyOrder |-> PlaceMyOrder, ListMyOrders |-> ListMyOrders, StartMyPayment |-> StartMyPayment,
   StartGuestPayment |-> StartGuestPayment, QuoteStaffOrder |-> QuoteStaffOrder, PlaceStaffOrder |-> PlaceStaffOrder,
   ListOrders |-> ListOrders, ReadBlockedOrder |-> ReadBlockedOrder, CancelOrder |-> CancelOrder, RestockOrder |-> RestockOrder,
   HandOver |-> HandOver, RetryFulfillment |-> RetryFulfillment, CaptureManually |-> CaptureManually, ListPayments |-> ListPayments,
   RefundManually |-> RefundManually, UpdatePaymentSettings |-> UpdatePaymentSettings, ListShipments |-> ListShipments,
   RecordTracking |-> RecordTracking, Dispatch |-> Dispatch, Deliver |-> Deliver, FailDelivery |-> FailDelivery,
   MarkReturned |-> MarkReturned, UpdateShippingMethod |-> UpdateShippingMethod, ReceiveWorkOrder |-> ReceiveWorkOrder,
   UpdateWorkOrder |-> UpdateWorkOrder, ChangeWorkOrderStatus |-> ChangeWorkOrderStatus, CancelWorkOrder |-> CancelWorkOrder,
   ListWorkOrders |-> ListWorkOrders, LinkSale |-> LinkSale, UnlinkSale |-> UnlinkSale, ReadBlockedWorkOrder |-> ReadBlockedWorkOrder,
   AnonymizeWorkOrder |-> AnonymizeWorkOrder, AnonymizeCustomer |-> AnonymizeCustomer, AnonymizeGuest |-> AnonymizeGuest,
   ReadAudit |-> ReadAudit, ListDeliveries |-> ListDeliveries, RetryDeliveries |-> RetryDeliveries]

---------------------------------------------------------------------------
(* What is sent: in a body anything, in a query no null and no object, and  *)
(* the fields of a file are texts.                                          *)

Sent(from, check) ==
  {Missing} \cup
  CASE from = "body" -> Tried(check) \cup {Null}
    [] from = "query" -> Tried(check)
    [] OTHER -> {v \in Tried(check) : v.kind = "text"}

SentInputs == UNION {UNION {
  {[operation |-> o, field |-> f, value |-> v] : v \in Sent(Operations[o].from, Operations[o].fields[f].asks.check)}
    : f \in DOMAIN Operations[o].fields} : o \in DOMAIN Operations}

InputOf(r) == /\ request = r /\ piped = "pending" /\ verdict = "pending" /\ status = 0
InputsInit == \E r \in SentInputs : InputOf(r)

Asked == Operations[request.operation].fields[request.field]

\* The validation pipe of every route.
Validate ==
  /\ piped = "pending"
  /\ piped' = Piped(Asked.asks, request.value)
  /\ UNCHANGED <<request, verdict, status>>

\* The handler of the route, on the value as the pipe left it.
Handle ==
  /\ piped = "passes" /\ verdict = "pending"
  /\ verdict' = Decided(Asked.rule, Seen(Asked.asks.check, request.value))
  /\ UNCHANGED <<request, piped, status>>

\* The filter: a ProblemException of the pipe and a DomainError are the client's, anything else is not.
Respond ==
  /\ status = 0
  /\ piped \in {"refuses", "crashes"} \/ verdict # "pending"
  /\ status' = IF piped = "refuses" \/ verdict = "refused" THEN 400
               ELSE IF piped = "crashes" \/ verdict \in {"crashes", "column"} THEN 500
               ELSE 200
  /\ UNCHANGED <<request, piped, verdict>>

InputsNext == Validate \/ Handle \/ Respond

---------------------------------------------------------------------------
(* Properties.                                                              *)

Names(operations, field) == {<<o, field>> : o \in operations}
Here == <<request.operation, request.field>>
Creations == {"CreateCategory", "CreateBrand", "CreateProduct"}
Edits == {"UpdateCategory", "UpdateBrand", "UpdateProduct"}

\* A null that @IsOptional lets through where the code takes "not sent" for granted.
NullsThatFail ==
  Names(Creations \cup Edits, "slug") \cup Names({"UpdateCategory", "UpdateBrand", "UpdateRole"}, "name")
    \cup {<<"UpdateProduct", "title">>, <<"UpdateProduct", "storeOnly">>, <<"UpdateVariant", "sku">>, <<"UpdateVariant", "options">>,
          <<"UpdateRole", "permissions">>, <<"PlaceStaffOrder", "privacyNoticeVersion">>}
    \cup Names({"PlaceMyOrder", "PlaceStaffOrder"}, "shippingAddress")
\* An item whose id is no text, in a list that compares them, and a week that passes for a date.
OddsThatFail ==
  Names({"CreatePromotion", "UpdatePromotion"}, "targets") \cup Names({"QuoteStaffOrder", "PlaceStaffOrder", "RestockOrder"}, "lines")
    \cup {at \in {<<o, f>> : o \in DOMAIN Operations, f \in {"from", "to", "createdFrom", "createdTo", "placedFrom", "placedTo",
                              "capturedFrom", "capturedTo", "receivedFrom", "receivedTo"}} : at[2] \in DOMAIN Operations[at[1]].fields}

\* A value that cannot be stored is the client's error: the API fails only on the nulls, the lists and the dates above, and on each of them.
FailuresAreKnown ==
  status # 0 => (status = 500 <=> \/ request.value.kind = "null" /\ Here \in NullsThatFail
                                  \/ request.value.form = "odd" /\ ~request.value.pad /\ Here \in OddsThatFail)

\* The pipe and the domain measure alike: what only the domain refuses is a text of wide characters, one of a form
\* the pipe does not know, a null, or a new password.
RefusalsAreKnown ==
  piped = "passes" /\ verdict = "refused" =>
    \/ request.value.wide
    \/ request.value.form # "good"
    \/ request.value.kind = "null"
    \/ request.field \in {"password", "newPassword"}

\* A text of blanks is not kept as one: it is refused or cleared, but in an address, in what a role is for, in a secret
\* that is only compared, or in what a listing looks for.
BlanksAreKnown ==
  verdict = "stored" /\ Operations[request.operation].from = "body" /\ request.value.kind = "text" /\ request.value.n = 0 =>
    \/ request.field \in {"interiorNumber", "city", "references"}
    \/ Here \in Names({"CreateRole", "UpdateRole"}, "description")
    \/ request.field \in {"token", "refreshToken", "currentPassword"} \/ Here = <<"Login", "password">>

\* A null that is answered with success was heard: it clears the field or stands for the default, and is taken for a
\* field that was not sent in two edits alone.
NullsAreHeard ==
  status = 200 /\ request.value.kind = "null" =>
    \/ verdict \in {"cleared", "default"}
    \/ Here \in {<<"UpdateProduct", "categoryIds">>, <<"UpdateAddress", "isDefault">>}

\* What becomes of an input, as the four above tell.
InputsHold == FailuresAreKnown /\ RefusalsAreKnown /\ BlanksAreKnown /\ NullsAreHeard
=============================================================================
