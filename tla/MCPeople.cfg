SPECIFICATION PeopleSpec
CONSTANTS
  Users = {u1}
  Emails = {e1, e2}
  AddressIds = {a1, a2}
  AddressLimit = 1
  Requests = {p1, p2}
  MaxTokens = 3
  MaxLinks = 3
  Scenarios <- Everyday
  None = None
  Staff = {s1, s2}
  Superadmin = "super"
  Roles = {"clerk"}
  Permissions = {"manage", "superOnly"}
  SuperadminOnly = {"superOnly"}
  StaffManage = "manage"
  RolesManage = "manage"
  InitialRoles <- SeededRoles
  AdminRequests = {p1, p2}
  Nobody = Nobody
  WorkOrderIds = {w1}  Clients = {c1}  NoClient = NoClient  Sales = {x1}  StaffRequests = {q1, q2}
  FORWARD <- ShortRepair  Purchases = {o1}
  GuestOrders = {g1, g2}  AccessLinks = {l1, l2, l3}  Free = Free  Anonymizer = Anonymizer
  Members = {m1, m2}  Trackings = {t1, t2}  NoTracking = NoTracking  Fees = {1, 2}  DeliveryDays = {1, 2}
  Nothing = Nothing  MaxCorrections = 3  MaxMethodEdits = 2
  RowIds = {1, 2, 3}  SortValues = {1, 2}  PageSizes = {2}  MaxRowChanges = 1
  PayRequests = {p1, p2}  NoRow = NoRow  MaxSettings = 3
INVARIANTS PowerIsKept ErasureHolds ListingsHold
PROPERTIES AccountsHold WorkOrdersEnd SalesHold
SYMMETRY Symmetric
CHECK_DEADLOCK FALSE
