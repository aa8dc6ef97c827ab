SPECIFICATION ShopSpec
CONSTANTS
  Orders = {"o1", "o2"}
  Variants = {"a", "b"}
  Warehouses = {1, 2}
  First = 1
  Want <- TwoVariants
  Files <- NoFiles
  Staff = {s1}
  Priorities = {1, 2}
  MaxOnHand = 1
  MaxEdits = 0
  None = None
  PricedVariants = {1, 2}  Amounts = {1, 2}  PriceFiles <- SaleFiles  MaxPriceTime = 2  MaxPriceCalls = 4
  Buyers = {b1}  Guest = Guest  MaxCarts = 2  MaxShopOrders = 2  CartVariants = {v1}
  MAX_LINE_QUANTITY = 2  MAX_CART_LINES = 1
  CouponOrders = {1, 2}  Emails = {"m1", "m2"}  Editors = {1, 2}  Limits = {1, 2}  MaxPromoTime = 1  MaxPromoEdits = 2
  LineTotals = {1, 2, 3, 5, 8}  MaxLines = 3  Offers <- SomeOffers  MINIMUM_PAYMENT = 2
  TaxRate = 1600  FlatFee = 4  FreeShippingThreshold = 6
  Requests <- ShopRequests  Checkouts = {1, 2}
  Baskets = {"c1", "c2"}  NoBasket = "none"  Contacts = {"m1", "m2"}  NoContact = "nobody"  AccountContact = "m1"
  UnitPrices = {2, 3}  ShippingFees = {0, 1}  UsageLimit = 1  InitialStock = 1  MAX_ORDER_LINE_QUANTITY = 2
  PublicCodes = {1, 2}  MaxShopTime = 1  MaxChanges = 1
INVARIANTS CheckoutsHold AnswersAgree CartsFollowOrders CentsAddUp
PROPERTIES PricesHold CouponsHold
CHECK_DEADLOCK FALSE
