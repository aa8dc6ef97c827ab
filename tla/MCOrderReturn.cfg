SPECIFICATION FairSpec
CONSTANTS
  Orders = {"ships", "store"}
  InStore = {"store"}
  WithCoupon = {"ships", "store"}
  UsageLimit = 1
PROPERTIES ReturnConcludes
CHECK_DEADLOCK FALSE
