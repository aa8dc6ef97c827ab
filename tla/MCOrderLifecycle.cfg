SPECIFICATION FairSpec
CONSTANTS
  Orders = {"ships", "store"}
  InStore = {"store"}
  WithCoupon = {"ships", "store"}
  UsageLimit = 1
INVARIANTS MoneyForGoods StockFollowsOrder GoodsInOnePlace CouponCounted NoPoisonedEvent HiddenNeverMoves
PROPERTIES FinalIsFinal AsksWhatIsPromised EventuallyAgrees
CHECK_DEADLOCK FALSE
