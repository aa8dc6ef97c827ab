SPECIFICATION PeopleSpec
CONSTANTS
  Users = {u1}
  Emails = {e1}
  AddressIds = {a1}
  AddressLimit = 1
  Requests = {p1, p2}
  MaxTokens = 3
  MaxLinks = 2
  Scenarios <- Everyday
  None = None
  Staff = {s1}
  Superadmin = "super"
  Roles = {"clerk"}
  Permissions = {"staff", "roles", "superOnly"}
  SuperadminOnly = {"superOnly"}
  StaffManage = "staff"
  RolesManage = "roles"
  InitialRoles <- SeededRoles
  AdminRequests = {p1}
  Nobody = Nobody
  WorkOrderIds = {w1}  Clients = {c1}  NoClient = NoClient  Sales = {x1}  StaffRequests = {q1, q2}
  FORWARD <- ShortRepair  Purchases = {o1}
  GuestOrders = {g1, g2}  AccessLinks = {l1, l2, l3}  Free = Free  Anonymizer = Anonymizer
  Members = {m1, m2}  Trackings = {t1, t2}  NoTracking = NoTracking  Fees = {1, 2}  DeliveryDays = {1, 2}
  Nothing = Nothing  MaxCorrections = 3  MaxMethodEdits = 2
  RowIds = {1}  SortValues = {1}  PageSizes = {2}  MaxRowChanges = 0
  PayRequests = {p1, p2}  NoRow = NoRow  MaxSettings = 3
INVARIANTS RevokedForGood
CHECK_DEADLOCK FALSE
